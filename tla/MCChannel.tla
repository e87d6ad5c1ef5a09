------------------------------ MODULE MCChannel ------------------------------
(* Instances of Channel for TLC.  Serializer 1 is one the application has    *)
(* registered, 7 is unknown, -1 is what EndpointManager::RemoteDeliver asks  *)
(* for.                                                                      *)
EXTENDS Channel

CONSTANTS x, y, s, t

Message(target, sender, type) == [target |-> target, sender |-> sender, type |-> type, serializer |-> 1]

MCMessages == {Message(x, s, "user"), Message(y, None, "Terminated"),
               [Message(y, t, "Watch") EXCEPT !.serializer = -1],
               [Message(y, s, "user") EXCEPT !.serializer = 7]}
=============================================================================
