--------------------------- MODULE EndpointsProofs ---------------------------
(***************************************************************************)
(* Machine-checked proofs about Endpoints, for any number of threads,      *)
(* actors, addresses, endpoints and calls.                                 *)
(***************************************************************************)
EXTENDS Endpoints, SequenceTheorems, TLAPS

Pairs == Locals \X Remotes

Requests ==
    [kind : {"watch", "unwatch", "terminate"}, local : Locals, remote : Remotes]
        \cup {[kind |-> "down", local |-> None, remote |-> None]}

Calls ==
    [op : {"idle", "deliver", "watch", "unwatch", "terminate", "connected", "removed",
           "start", "stop"},
     local : Locals \cup {None}, remote : Remotes \cup {None},
     address : Addresses \cup {None},
     at : {"idle", "ensure", "lock", "use"},
     endpoint : EndpointIds \cup {None}, runs : Int]

(* A call knows its PIDs, and the address it needs an endpoint for.         *)
GoodCall(k) ==
    /\ k \in Calls
    /\ k.op \in {"watch", "unwatch", "terminate"} => k.local \in Locals /\ k.remote \in Remotes
    /\ k.at \in {"ensure", "lock"} \/ k.endpoint # None \/ k.op \in {"removed", "connected"}
          => k.address \in Addresses

EndpointsType ==
    /\ stopped \in BOOLEAN /\ subs \in Int /\ made \in Nat
    /\ connections \in [Addresses -> EndpointIds \cup {None}]
    /\ DOMAIN call = Callers
    /\ \A c \in Callers : GoodCall(call[c])
    /\ wired \subseteq EndpointIds /\ present \subseteq Locals /\ raced \subseteq Callers
    /\ inbox \in [EndpointIds -> Seq(Requests)]
    /\ watched \in [EndpointIds -> SUBSET Pairs]
    /\ open \subseteq Pairs

(* Who may be in which call.                                                *)
CallInv ==
    \A c \in Callers :
        /\ call[c].op = "stop" => stopped
        /\ c \in EndpointIds => call[c].op \in {"idle", "deliver"}

EndpointsInv == EndpointsType /\ CallInv

-----------------------------------------------------------------------------
(* Calls                                                                    *)

(* c goes on to k: it learns no endpoint by that, and comes to the mutex    *)
(* only if it has just seen that the manager is not stopped.                *)
Moves(c, k) ==
    /\ GoodCall(k)
    /\ call' = [call EXCEPT ![c] = k]
    /\ k.endpoint # None => k.endpoint = call[c].endpoint /\ k.address = call[c].address
    /\ k.at = "lock" => ~stopped
    /\ k.op = "stop" => stopped'
    /\ c \in EndpointIds => k.op \in {"idle", "deliver"}

(* The record of a thread that is in no call.                               *)
LEMMA IdleCall ==
    /\ GoodCall(Idle) /\ Idle.endpoint = None /\ Idle.at = "idle" /\ Idle.op = "idle"
BY DEF Idle, Call, GoodCall, Calls

(* A call that has returned.                                                *)
LEMMA Returns ==
    ASSUME NEW c \in Callers, Return(c)
    PROVE  Moves(c, Idle)
BY IdleCall DEF Return, Moves

(* A call that goes on to EnsureConnected.                                  *)
LEMMA Ensures ==
    ASSUME NEW c \in Callers, NEW op \in {"deliver", "watch", "unwatch", "terminate"},
           NEW l \in Locals \cup {None}, NEW r \in Remotes,
           op # "deliver" => l \in Locals,
           c \in EndpointIds => op = "deliver",
           AddressOf[r] # None, Ensure(c, op, l, r)
    PROVE  \E k : Moves(c, k) /\ k.op = op /\ k.local = l /\ k.remote = r
<1>. DEFINE k == Call(op, l, r, AddressOf[r], "ensure", 0)
<1>1. AddressOf[r] \in Addresses
  BY EndpointsAssumption
<1>2. /\ k.op = op /\ k.local = l /\ k.remote = r /\ k.address = AddressOf[r]
      /\ k.at = "ensure" /\ k.endpoint = None /\ k.runs = 0
  BY DEF Call
<1>3. k \in Calls
  BY <1>1 DEF Call, Calls
<1>4. call' = [call EXCEPT ![c] = k]
  BY DEF Ensure
<1>. HIDE DEF k
<1>. QED  BY <1>1, <1>2, <1>3, <1>4 DEF Moves, GoodCall

(* A message for a remote PID goes on to EnsureConnected or returns.        *)
LEMMA Sends ==
    ASSUME NEW c \in Callers, NEW l \in Locals \cup {None}, NEW r \in Remotes,
           SendMessage(c, l, r)
    PROVE  \E k : Moves(c, k) /\ k.op \in {"idle", "deliver"}
<1>1. CASE stopped \/ AddressOf[r] = None
  BY <1>1, Returns, IdleCall DEF SendMessage
<1>2. CASE ~(stopped \/ AddressOf[r] = None)
  <2>1. Ensure(c, "deliver", l, r)
    BY <1>2 DEF SendMessage
  <2>. QED  BY <1>2, <2>1, Ensures
<1>. QED  BY <1>1, <1>2

(* The handlers of endpoint events that follow.                             *)
LEMMA HandlerMoves ==
    ASSUME EndpointsInv, NEW t \in Threads, call[t].op \in {"connected", "removed"},
           call[t].address \in Addresses, HandlerReturns(t)
    PROVE  \E k : Moves(t, k) /\ k.op \in {"idle", "connected", "removed"}
<1>0. t \in Callers /\ t \notin EndpointIds
  BY EndpointsAssumption DEF Callers, EndpointIds
<1>1. CASE call[t].runs = 1
  BY <1>0, <1>1, IdleCall DEF HandlerReturns, Moves
<1>2. CASE call[t].runs # 1
  <2>. DEFINE k == Call(call[t].op, None, None, call[t].address, FirstPlace(call[t].op),
                        call[t].runs - 1)
  <2>1. call[t] \in Calls
    BY <1>0 DEF EndpointsInv, EndpointsType, GoodCall
  <2>2. call[t].runs - 1 \in Int /\ FirstPlace(call[t].op) \in {"ensure", "use"}
    BY <2>1 DEF Calls, FirstPlace
  <2>a. /\ k.op = call[t].op /\ k.endpoint = None /\ k.at \in {"ensure", "use"}
        /\ k.address = call[t].address
    BY <2>2 DEF Call
  <2>3. k \in Calls
    BY <2>2 DEF Call, Calls
  <2>4. call' = [call EXCEPT ![t] = k]
    BY <1>2 DEF HandlerReturns
  <2>. HIDE DEF k
  <2>5. Moves(t, k)
    BY <1>0, <2>a, <2>3, <2>4 DEF Moves, GoodCall
  <2>. QED  BY <2>a, <2>5
<1>. QED  BY <1>1, <1>2

(* Who calls.                                                               *)
LEMMA ThreadsCall ==
    ASSUME NEW t \in Threads
    PROVE  t \in Callers /\ t \notin EndpointIds
BY EndpointsAssumption DEF Callers, EndpointIds

(* The head of a mailbox.                                                   *)
LEMMA FirstRequest ==
    ASSUME EndpointsInv, NEW e \in EndpointIds, inbox[e] # <<>>, Head(inbox[e]).kind # "down"
    PROVE  Head(inbox[e]).local \in Locals /\ Head(inbox[e]).remote \in Remotes
<1>1. inbox[e] \in Seq(Requests)
  BY DEF EndpointsInv, EndpointsType
<1>2. Head(inbox[e]) \in Requests
  BY <1>1, HeadTailProperties
<1>. QED  BY <1>2 DEF Requests

(* Every step moves one call, and only EnsureConnected gives it an endpoint. *)
LEMMA CallSteps ==
    ASSUME EndpointsInv, [Next]_vars
    PROVE  \/ \E c \in Callers : EnsureConnected(c)
           \/ \E c \in Callers : \E k : Moves(c, k)
           \/ call' = call
<1>. DEFINE Goal == \/ \E c \in Callers : EnsureConnected(c)
                    \/ \E c \in Callers : \E k : Moves(c, k)
                    \/ call' = call
<1>a. /\ DOMAIN call = Callers /\ \A c \in Callers : GoodCall(call[c]) /\ call[c] \in Calls
      /\ subs \in Int /\ present \subseteq Locals
  BY DEF EndpointsInv, EndpointsType, GoodCall
<1>b. \A t \in Threads : t \in Callers /\ t \notin EndpointIds
  BY ThreadsCall
<1>1. ASSUME NEW c \in Callers, EnsureChecks(c) PROVE Goal
  <2>. DEFINE k == [call[c] EXCEPT !.at = IF stopped THEN "use" ELSE "lock"]
  <2>1. call[c] \in Calls /\ call[c].at = "ensure" /\ GoodCall(call[c])
    BY <1>a, <1>1 DEF EnsureChecks
  <2>2. /\ k.op = call[c].op /\ k.local = call[c].local /\ k.remote = call[c].remote
        /\ k.address = call[c].address /\ k.endpoint = call[c].endpoint
        /\ k.at = IF stopped THEN "use" ELSE "lock"
    BY <2>1 DEF Calls
  <2>3. k \in Calls
    BY <2>1 DEF Calls
  <2>4. call' = [call EXCEPT ![c] = k]
    BY <1>1 DEF EnsureChecks
  <2>5. stopped' = stopped
    BY <1>1 DEF EnsureChecks, manager
  <2>. HIDE DEF k
  <2>6. GoodCall(k)
    BY <2>1, <2>2, <2>3 DEF GoodCall
  <2>7. Moves(c, k)
    BY <2>2, <2>4, <2>5, <2>6 DEF Moves, EndpointsInv, CallInv
  <2>. QED  BY <2>7
<1>2. ASSUME NEW c \in Callers,
             DeliverToWriter(c) \/ WatchAtEndpoint(c) \/ UnwatchAtEndpoint(c)
             \/ TerminateAtEndpoint(c)
      PROVE  Goal
  <2>1. Return(c)
    BY <1>2 DEF DeliverToWriter, WatchAtEndpoint, UnwatchAtEndpoint, TerminateAtEndpoint
  <2>. QED  BY <2>1, Returns
<1>3. ASSUME NEW t \in Threads, RemoteDeliver(t) PROVE Goal
  <2>1. PICK r \in Remotes : SendMessage(t, None, r)
    BY <1>3 DEF RemoteDeliver
  <2>. QED  BY <1>b, <2>1, Sends
<1>4. ASSUME NEW t \in Threads, RemoteWatch(t) PROVE Goal
  <2>1. PICK l \in present, r \in Remotes :
            IF stopped \/ AddressOf[r] = None THEN UNCHANGED call ELSE Ensure(t, "watch", l, r)
    BY <1>4 DEF RemoteWatch
  <2>. QED  BY <1>a, <1>b, <2>1, Ensures
<1>5. ASSUME NEW t \in Threads, RemoteUnwatch(t) PROVE Goal
  <2>1. PICK l \in present, r \in Remotes :
            IF stopped \/ AddressOf[r] = None THEN UNCHANGED call ELSE Ensure(t, "unwatch", l, r)
    BY <1>5 DEF RemoteUnwatch
  <2>. QED  BY <1>a, <1>b, <2>1, Ensures
<1>6. ASSUME NEW t \in Threads, RemoteTerminate(t) PROVE Goal
  <2>1. PICK l \in Locals, r \in Remotes :
            UNCHANGED call \/ (AddressOf[r] # None /\ Ensure(t, "terminate", l, r))
    BY <1>6 DEF RemoteTerminate
  <2>. QED  BY <1>a, <1>b, <2>1, Ensures
<1>7. ASSUME NEW t \in Threads, PublishEndpointEvent(t) PROVE Goal
  <2>1. PICK a \in Addresses, op \in {"connected", "removed"} :
            call' = [call EXCEPT ![t] = Call(op, None, None, a, FirstPlace(op), subs)]
    BY <1>7 DEF PublishEndpointEvent
  <2>. DEFINE k == Call(op, None, None, a, FirstPlace(op), subs)
  <2>2. /\ k.op = op /\ k.address = a /\ k.endpoint = None /\ k.at \in {"ensure", "use"}
    BY DEF Call, FirstPlace
  <2>3. k \in Calls
    BY <1>a DEF Call, Calls, FirstPlace
  <2>4. call' = [call EXCEPT ![t] = k]
    BY <2>1
  <2>. HIDE DEF k
  <2>5. Moves(t, k)
    BY <1>b, <2>2, <2>3, <2>4 DEF Moves, GoodCall
  <2>. QED  BY <1>b, <2>5
<1>8. ASSUME NEW t \in Threads, RemoveEndpoint(t) PROVE Goal
  <2>1. HandlerReturns(t) /\ call[t].op = "removed"
    BY <1>8 DEF RemoveEndpoint
  <2>2. call[t].address \in Addresses
    BY <1>a, <1>b, <2>1 DEF GoodCall
  <2>. QED  BY <1>b, <2>1, <2>2, HandlerMoves
<1>9. ASSUME NEW t \in Threads, ConnectedHandled(t) PROVE Goal
  <2>1. HandlerReturns(t) /\ call[t].op = "connected"
    BY <1>9 DEF ConnectedHandled
  <2>2. call[t].address \in Addresses
    BY <1>a, <1>b, <2>1 DEF GoodCall
  <2>. QED  BY <1>b, <2>1, <2>2, HandlerMoves
<1>10. ASSUME NEW t \in Threads, StartChecks(t) \/ StopBegins(t) PROVE Goal
  <2>1. PICK op \in {"start", "stop"} :
            /\ call' = [call EXCEPT ![t] = Call(op, None, None, None, "use", 0)]
            /\ op = "stop" => stopped'
    BY <1>10 DEF StartChecks, StopBegins
  <2>. DEFINE k == Call(op, None, None, None, "use", 0)
  <2>2. k.op = op /\ k.endpoint = None /\ k.at = "use"
    BY DEF Call
  <2>3. k \in Calls
    BY DEF Call, Calls
  <2>4. call' = [call EXCEPT ![t] = k]
    BY <2>1
  <2>. HIDE DEF k
  <2>5. Moves(t, k)
    BY <1>b, <2>1, <2>2, <2>3, <2>4 DEF Moves, GoodCall
  <2>. QED  BY <1>b, <2>5
<1>11. ASSUME NEW t \in Threads, Start(t) \/ StopClears(t) \/ StopThrows(t) PROVE Goal
  <2>1. Return(t)
    BY <1>11 DEF Start, StopClears, StopThrows
  <2>. QED  BY <1>b, <2>1, Returns
<1>12. ASSUME NEW e \in EndpointIds, HandleRemoteWatch(e) \/ HandleRemoteUnwatch(e) PROVE Goal
  <2>1. /\ inbox[e] # <<>> /\ Head(inbox[e]).kind # "down"
        /\ SendMessage(e, Head(inbox[e]).local, Head(inbox[e]).remote)
    BY <1>12 DEF HandleRemoteWatch, HandleRemoteUnwatch, Receives
  <2>2. Head(inbox[e]).local \in Locals /\ Head(inbox[e]).remote \in Remotes
    BY <2>1, FirstRequest
  <2>. QED  BY <2>1, <2>2, Sends DEF Callers
<1>13. ASSUME NEW e \in EndpointIds, HandleRemoteTerminate(e) \/ HandleEndpointTerminated(e)
       PROVE  Goal
  BY <1>13 DEF HandleRemoteTerminate, HandleEndpointTerminated
<1>14. CASE AttachActors \/ EndpointTerminatedSent \/ LocalActorEnds \/ UNCHANGED vars
  BY <1>14 DEF AttachActors, EndpointTerminatedSent, LocalActorEnds, vars
<1>. QED
  BY <1>1, <1>2, <1>3, <1>4, <1>5, <1>6, <1>7, <1>8, <1>9, <1>10, <1>11, <1>12, <1>13, <1>14
  DEF Next, RemoteProcessSends

(* What EnsureConnected gives the call c.                                   *)
LEMMA Connects ==
    ASSUME EndpointsInv, NEW c \in Callers, EnsureConnected(c)
    PROVE  /\ call[c].address \in Addresses
           /\ \E e \in EndpointIds :
                 /\ connections[call[c].address] \in {None, e}
                 /\ connections' = [connections EXCEPT ![call[c].address] = e]
                 /\ made' \in Nat
                 /\ GoodCall(call'[c]) /\ call'[c].endpoint = e
                 /\ call'[c].address = call[c].address /\ call'[c].at = "use"
                 /\ call'[c].op = call[c].op /\ call'[c].local = call[c].local
                 /\ call'[c].remote = call[c].remote
           /\ DOMAIN call' = Callers
           /\ \A d \in Callers : d # c => call'[d] = call[d]
<1>. DEFINE a == call[c].address
            e == IF connections[a] # None THEN connections[a] ELSE made + 1
<1>a. /\ DOMAIN call = Callers /\ GoodCall(call[c]) /\ call[c] \in Calls
      /\ made \in Nat /\ connections \in [Addresses -> EndpointIds \cup {None}]
  BY DEF EndpointsInv, EndpointsType, GoodCall
<1>1. a \in Addresses
  BY <1>a DEF EnsureConnected, GoodCall
<1>2. /\ connections[a] # None \/ made < MaxEndpoints
      /\ made' = IF connections[a] # None THEN made ELSE made + 1
      /\ connections' = [connections EXCEPT ![a] = e]
      /\ call' = [call EXCEPT ![c].at = "use", ![c].endpoint = e]
  BY DEF EnsureConnected
<1>3. e \in EndpointIds
  BY <1>a, <1>1, <1>2, EndpointsAssumption DEF EndpointIds
<1>4. connections[a] \in {None, e} /\ made' \in Nat
  BY <1>a, <1>2
<1>. HIDE DEF e
<1>5. call'[c] = [call[c] EXCEPT !.at = "use", !.endpoint = e]
  BY <1>a, <1>2
<1>6. /\ call'[c].endpoint = e /\ call'[c].address = a /\ call'[c].at = "use"
      /\ call'[c].op = call[c].op /\ call'[c].local = call[c].local
      /\ call'[c].remote = call[c].remote
  BY <1>a, <1>5 DEF Calls
<1>7. call'[c] \in Calls
  BY <1>a, <1>3, <1>5 DEF Calls
<1>8. GoodCall(call'[c])
  BY <1>a, <1>1, <1>6, <1>7 DEF GoodCall
<1>9. DOMAIN call' = Callers /\ \A d \in Callers : d # c => call'[d] = call[d]
  BY <1>a, <1>2
<1>. QED  BY <1>1, <1>2, <1>3, <1>4, <1>6, <1>8, <1>9

(* Calls stay well formed.                                                  *)
LEMMA NextCalls ==
    ASSUME EndpointsInv, [Next]_vars, stopped => stopped'
    PROVE  DOMAIN call' = Callers /\ (\A c \in Callers : GoodCall(call'[c])) /\ CallInv'
<1>a. DOMAIN call = Callers /\ \A c \in Callers : GoodCall(call[c])
  BY DEF EndpointsInv, EndpointsType
<1>1. ASSUME NEW c \in Callers, EnsureConnected(c) PROVE \A d \in Callers : GoodCall(call'[d])
  BY <1>a, <1>1, Connects
<1>2. ASSUME NEW c \in Callers, EnsureConnected(c) PROVE CallInv' /\ DOMAIN call' = Callers
  BY <1>2, Connects DEF EndpointsInv, CallInv
<1>3. ASSUME NEW c \in Callers, NEW k, Moves(c, k)
      PROVE  DOMAIN call' = Callers /\ (\A d \in Callers : GoodCall(call'[d])) /\ CallInv'
  <2>1. DOMAIN call' = Callers /\ call'[c] = k /\ \A d \in Callers : d # c => call'[d] = call[d]
    BY <1>a, <1>3 DEF Moves
  <2>. QED  BY <1>a, <1>3, <2>1 DEF Moves, EndpointsInv, CallInv
<1>4. CASE call' = call
  BY <1>a, <1>4 DEF EndpointsInv, CallInv
<1>. QED  BY <1>1, <1>2, <1>3, <1>4, CallSteps

(* Mailboxes and the requests put into them.                                *)
LEMMA PostType ==
    ASSUME EndpointsType, NEW e \in EndpointIds,
           NEW kind \in {"watch", "unwatch", "terminate"}, NEW l \in Locals, NEW r \in Remotes,
           PostToWatcher(e, kind, l, r)
    PROVE  inbox' \in [EndpointIds -> Seq(Requests)]
<1>1. [kind |-> kind, local |-> l, remote |-> r] \in Requests
  BY DEF Requests
<1>2. inbox \in [EndpointIds -> Seq(Requests)]
  BY DEF EndpointsType
<1>3. Append(inbox[e], [kind |-> kind, local |-> l, remote |-> r]) \in Seq(Requests)
  BY <1>1, <1>2, AppendProperties
<1>. QED  BY <1>2, <1>3 DEF PostToWatcher

(* The table of connections, and what stays stopped.                        *)
LEMMA NextManager ==
    ASSUME EndpointsInv, [Next]_vars
    PROVE  /\ stopped' \in BOOLEAN /\ (stopped => stopped')
           /\ subs' \in Int /\ made' \in Nat
           /\ connections' \in [Addresses -> EndpointIds \cup {None}]
<1>a. /\ stopped \in BOOLEAN /\ subs \in Int /\ made \in Nat
      /\ connections \in [Addresses -> EndpointIds \cup {None}]
  BY DEF EndpointsInv, EndpointsType
<1>. DEFINE Goal == /\ stopped' \in BOOLEAN /\ (stopped => stopped')
                    /\ subs' \in Int /\ made' \in Nat
                    /\ connections' \in [Addresses -> EndpointIds \cup {None}]
<1>1. UNCHANGED <<stopped, subs, connections, made>> => Goal
  BY <1>a
<1>2. ASSUME NEW c \in Callers, EnsureConnected(c) PROVE Goal
  <2>1. made' \in Nat /\ connections' \in [Addresses -> EndpointIds \cup {None}]
    BY <1>a, <1>2, Connects
  <2>2. UNCHANGED <<stopped, subs>>
    BY <1>2 DEF EnsureConnected
  <2>. QED  BY <1>a, <2>1, <2>2
<1>3. ASSUME NEW t \in Threads, RemoveEndpoint(t) \/ StopClears(t) PROVE Goal
  <2>1. connections' \in [Addresses -> EndpointIds \cup {None}]
    BY <1>a, <1>3 DEF RemoveEndpoint, StopClears
  <2>2. UNCHANGED <<stopped, subs, made>>
    BY <1>3 DEF RemoveEndpoint, StopClears
  <2>. QED  BY <1>a, <2>1, <2>2
<1>4. ASSUME NEW t \in Threads, Start(t) PROVE Goal
  BY <1>a, <1>4 DEF Start
<1>5. ASSUME NEW t \in Threads, StopBegins(t) PROVE Goal
  <2>1. stopped' = TRUE /\ UNCHANGED <<connections, made>>
    BY <1>5 DEF StopBegins
  <2>2. subs' \in Int
    BY <1>a, <1>5 DEF StopBegins
  <2>. QED  BY <1>a, <2>1, <2>2
<1>6. ASSUME NEW c \in Callers,
             EnsureChecks(c) \/ DeliverToWriter(c) \/ WatchAtEndpoint(c) \/ UnwatchAtEndpoint(c)
             \/ TerminateAtEndpoint(c)
      PROVE  UNCHANGED manager
  BY <1>6 DEF EnsureChecks, DeliverToWriter, WatchAtEndpoint, UnwatchAtEndpoint,
     TerminateAtEndpoint
<1>7. ASSUME NEW t \in Threads,
             RemoteProcessSends(t) \/ RemoteTerminate(t) \/ PublishEndpointEvent(t)
             \/ ConnectedHandled(t) \/ StartChecks(t) \/ StopThrows(t)
      PROVE  UNCHANGED manager
  BY <1>7 DEF RemoteProcessSends, RemoteDeliver, RemoteWatch, RemoteUnwatch, RemoteTerminate,
     PublishEndpointEvent, ConnectedHandled, StartChecks, StopThrows
<1>8. ASSUME NEW e \in EndpointIds,
             HandleRemoteWatch(e) \/ HandleRemoteUnwatch(e) \/ HandleRemoteTerminate(e)
             \/ HandleEndpointTerminated(e)
      PROVE  UNCHANGED manager
  BY <1>8 DEF HandleRemoteWatch, HandleRemoteUnwatch, HandleRemoteTerminate,
     HandleEndpointTerminated
<1>9. AttachActors \/ EndpointTerminatedSent \/ LocalActorEnds \/ UNCHANGED vars
        => UNCHANGED manager
  BY DEF AttachActors, EndpointTerminatedSent, LocalActorEnds, vars
<1>10. UNCHANGED manager => Goal
  BY <1>1 DEF manager
<1>. QED
  BY <1>2, <1>3, <1>4, <1>5, <1>6, <1>7, <1>8, <1>9, <1>10 DEF Next

(* What a call finds at its endpoint, if that has its actors.               *)
LEMMA AtEndpoint ==
    ASSUME EndpointsInv, NEW c \in Callers, call[c].op \in {"watch", "unwatch", "terminate"}
    PROVE  /\ call[c].local \in Locals /\ call[c].remote \in Remotes
           /\ HasActors(call[c].endpoint) => call[c].endpoint \in EndpointIds
           /\ c \in Threads
BY DEF EndpointsInv, EndpointsType, CallInv, GoodCall, Calls, HasActors, Callers

(* The actors' state.                                                       *)
LEMMA NextActors ==
    ASSUME EndpointsInv, [Next]_vars
    PROVE  /\ wired' \subseteq EndpointIds /\ present' \subseteq Locals /\ raced' \subseteq Callers
           /\ inbox' \in [EndpointIds -> Seq(Requests)]
           /\ watched' \in [EndpointIds -> SUBSET Pairs]
           /\ open' \subseteq Pairs
<1>a. /\ wired \subseteq EndpointIds /\ present \subseteq Locals /\ raced \subseteq Callers
      /\ inbox \in [EndpointIds -> Seq(Requests)] /\ EndpointsType
      /\ watched \in [EndpointIds -> SUBSET Pairs]
      /\ open \subseteq Pairs
      /\ connections \in [Addresses -> EndpointIds \cup {None}]
  BY DEF EndpointsInv, EndpointsType
<1>. DEFINE Goal == /\ wired' \subseteq EndpointIds /\ present' \subseteq Locals
                    /\ raced' \subseteq Callers
                    /\ inbox' \in [EndpointIds -> Seq(Requests)]
                    /\ watched' \in [EndpointIds -> SUBSET Pairs]
                    /\ open' \subseteq Pairs
<1>1. UNCHANGED <<wired, present, raced, inbox, watched, open>> => Goal
  BY <1>a
<1>2. ASSUME NEW c \in Callers, EnsureChecks(c) \/ EnsureConnected(c) \/ DeliverToWriter(c)
      PROVE  Goal
  BY <1>1, <1>2 DEF EnsureChecks, EnsureConnected, DeliverToWriter, actors, history
<1>3. ASSUME NEW c \in Callers,
             WatchAtEndpoint(c) \/ UnwatchAtEndpoint(c) \/ TerminateAtEndpoint(c)
      PROVE  Goal
  <2>1. PICK kind \in {"watch", "unwatch", "terminate"} :
           /\ call[c].op = kind
           /\ \/ HasActors(call[c].endpoint)
                 /\ PostToWatcher(call[c].endpoint, kind, call[c].local, call[c].remote)
              \/ inbox' = inbox
    BY <1>3 DEF WatchAtEndpoint, UnwatchAtEndpoint, TerminateAtEndpoint
  <2>2. inbox' \in [EndpointIds -> Seq(Requests)]
    BY <1>a, <2>1, AtEndpoint, PostType
  <2>3. UNCHANGED <<wired, present, raced, watched, open>>
    BY <1>3 DEF WatchAtEndpoint, UnwatchAtEndpoint, TerminateAtEndpoint
  <2>. QED  BY <1>a, <2>2, <2>3
<1>4. ASSUME NEW t \in Threads, RemoteWatch(t) \/ RemoteUnwatch(t) PROVE Goal
  <2>1. UNCHANGED <<wired, present, raced, inbox, watched>>
    BY <1>4 DEF RemoteWatch, RemoteUnwatch, actors
  <2>2. open' \subseteq Pairs
    BY <1>a, <1>4 DEF RemoteWatch, RemoteUnwatch, Pairs
  <2>. QED  BY <1>a, <2>1, <2>2
<1>5. ASSUME NEW t \in Threads, StopClears(t) PROVE Goal
  BY <1>a, <1>5 DEF StopClears, actors
<1>6. ASSUME NEW t \in Threads,
             \/ RemoteDeliver(t) \/ RemoteTerminate(t) \/ PublishEndpointEvent(t)
             \/ RemoveEndpoint(t) \/ ConnectedHandled(t) \/ StartChecks(t) \/ Start(t)
             \/ StopBegins(t) \/ StopThrows(t)
      PROVE  Goal
  BY <1>1, <1>6 DEF RemoteDeliver, RemoteTerminate, PublishEndpointEvent, RemoveEndpoint,
     ConnectedHandled, StartChecks, Start, StopBegins, StopThrows, actors, history
<1>7. ASSUME NEW e \in EndpointIds,
             HandleRemoteWatch(e) \/ HandleRemoteUnwatch(e) \/ HandleRemoteTerminate(e)
      PROVE  Goal
  <2>1. /\ inbox[e] # <<>> /\ Head(inbox[e]).kind # "down"
        /\ inbox' = [inbox EXCEPT ![e] = Tail(@)]
    BY <1>7 DEF HandleRemoteWatch, HandleRemoteUnwatch, HandleRemoteTerminate, Receives
  <2>2. Tail(inbox[e]) \in Seq(Requests)
    BY <1>a, <2>1, HeadTailProperties
  <2>3. inbox' \in [EndpointIds -> Seq(Requests)]
    BY <1>a, <2>1, <2>2
  <2>4. <<Head(inbox[e]).local, Head(inbox[e]).remote>> \in Pairs
    BY <2>1, FirstRequest DEF Pairs
  <2>5. watched' \in [EndpointIds -> SUBSET Pairs]
    <3>1. \E S \in SUBSET Pairs : watched' = [watched EXCEPT ![e] = S]
      <4>. DEFINE p == <<Head(inbox[e]).local, Head(inbox[e]).remote>>
      <4>1. watched' = [watched EXCEPT ![e] = watched[e] \cup {p}]
            \/ watched' = [watched EXCEPT ![e] = watched[e] \ {p}]
        BY <1>7 DEF HandleRemoteWatch, HandleRemoteUnwatch, HandleRemoteTerminate
      <4>2. watched[e] \cup {p} \in SUBSET Pairs /\ watched[e] \ {p} \in SUBSET Pairs
        BY <1>a, <2>4
      <4>. QED  BY <4>1, <4>2
    <3>. QED  BY <1>a, <3>1
  <2>6. UNCHANGED <<wired, present, raced, open>>
    BY <1>7 DEF HandleRemoteWatch, HandleRemoteUnwatch, HandleRemoteTerminate, history
  <2>. QED  BY <1>a, <2>3, <2>5, <2>6
<1>8. ASSUME NEW e \in EndpointIds, HandleEndpointTerminated(e) PROVE Goal
  <2>1. /\ inbox' = [inbox EXCEPT ![e] = <<>>] /\ watched' = [watched EXCEPT ![e] = {}]
        /\ UNCHANGED <<wired, present, raced, open>>
    BY <1>8 DEF HandleEndpointTerminated
  <2>2. inbox' \in [EndpointIds -> Seq(Requests)]
    BY <1>a, <2>1, EmptySeq
  <2>3. watched' \in [EndpointIds -> SUBSET Pairs]
    BY <1>a, <2>1
  <2>. QED  BY <1>a, <2>1, <2>2, <2>3
<1>9. CASE AttachActors
  BY <1>a, <1>9 DEF AttachActors, history
<1>10. CASE EndpointTerminatedSent
  <2>. DEFINE down == [kind |-> "down", local |-> None, remote |-> None]
  <2>1. PICK e \in wired : inbox' = [inbox EXCEPT ![e] = Append(@, down)]
    BY <1>10 DEF EndpointTerminatedSent
  <2>2. down \in Requests
    BY DEF Requests
  <2>. HIDE DEF down
  <2>3. Append(inbox[e], down) \in Seq(Requests)
    BY <1>a, <2>2, AppendProperties
  <2>4. inbox' \in [EndpointIds -> Seq(Requests)]
    BY <1>a, <2>1, <2>3
  <2>5. UNCHANGED <<wired, present, raced, watched, open>>
    BY <1>10 DEF EndpointTerminatedSent, history
  <2>. QED  BY <1>a, <2>4, <2>5
<1>11. CASE LocalActorEnds
  <2>1. PICK l \in present : /\ present' = present \ {l}
                             /\ open' = {p \in open : p[1] # l}
    BY <1>11 DEF LocalActorEnds
  <2>2. UNCHANGED <<wired, raced, inbox, watched>>
    BY <1>11 DEF LocalActorEnds, actors
  <2>. QED  BY <1>a, <2>1, <2>2
<1>12. CASE UNCHANGED vars
  BY <1>1, <1>12 DEF vars, actors, history
<1>. QED
  BY <1>2, <1>3, <1>4, <1>5, <1>6, <1>7, <1>8, <1>9, <1>10, <1>11, <1>12
  DEF Next, RemoteProcessSends

(* Types and calls are an inductive invariant.                              *)
THEOREM EndpointsInvariant == Spec => []EndpointsInv
<1>1. Init => EndpointsInv
  <2>. SUFFICES ASSUME Init PROVE EndpointsInv
    OBVIOUS
  <2>1. \A c \in Callers : call[c] = Idle
    BY DEF Init
  <2>2. \A e \in EndpointIds : <<>> \in Seq(Requests)
    BY EmptySeq
  <2>3. EndpointsType
    <3>1. stopped \in BOOLEAN
      BY DEF Init
    <3>2. subs \in Int /\ made \in Nat /\ connections \in [Addresses -> EndpointIds \cup {None}]
      BY DEF Init
    <3>3. DOMAIN call = Callers /\ \A c \in Callers : GoodCall(call[c])
      BY <2>1, IdleCall DEF Init
    <3>4. /\ wired \subseteq EndpointIds /\ present \subseteq Locals /\ raced \subseteq Callers
          /\ open \subseteq Pairs
      BY DEF Init
    <3>5. inbox \in [EndpointIds -> Seq(Requests)] /\ watched \in [EndpointIds -> SUBSET Pairs]
      BY <2>2 DEF Init
    <3>. QED  BY <3>1, <3>2, <3>3, <3>4, <3>5 DEF EndpointsType
  <2>4. CallInv
    BY <2>1, IdleCall DEF CallInv
  <2>. QED  BY <2>3, <2>4 DEF EndpointsInv
<1>2. EndpointsInv /\ [Next]_vars => EndpointsInv'
  <2>. SUFFICES ASSUME EndpointsInv, [Next]_vars PROVE EndpointsInv'
    OBVIOUS
  <2>1. stopped => stopped'
    BY NextManager
  <2>. QED  BY <2>1, NextManager, NextCalls, NextActors DEF EndpointsInv, EndpointsType
<1>. QED  BY <1>1, <1>2, PTL DEF Spec

-----------------------------------------------------------------------------
(* The map of connections                                                   *)

(* Every step leaves the map alone, or is one of the three that change it.  *)
LEMMA MapSteps ==
    ASSUME [Next]_vars
    PROVE  \/ \E c \in Callers : EnsureConnected(c)
           \/ \E t \in Threads : RemoveEndpoint(t)
           \/ \E t \in Threads : StopClears(t)
           \/ UNCHANGED <<connections, retired, raced>>
<1>. DEFINE Kept == UNCHANGED <<connections, retired, raced>>
<1>1. ASSUME NEW c \in Callers,
             EnsureChecks(c) \/ DeliverToWriter(c) \/ WatchAtEndpoint(c) \/ UnwatchAtEndpoint(c)
             \/ TerminateAtEndpoint(c)
      PROVE  Kept
  BY <1>1 DEF EnsureChecks, DeliverToWriter, WatchAtEndpoint, UnwatchAtEndpoint,
     TerminateAtEndpoint, manager, history
<1>2. ASSUME NEW t \in Threads,
             RemoteProcessSends(t) \/ RemoteTerminate(t) \/ PublishEndpointEvent(t)
             \/ ConnectedHandled(t) \/ StartChecks(t) \/ Start(t) \/ StopBegins(t) \/ StopThrows(t)
      PROVE  Kept
  BY <1>2 DEF RemoteProcessSends, RemoteDeliver, RemoteWatch, RemoteUnwatch, RemoteTerminate,
     PublishEndpointEvent, ConnectedHandled, StartChecks, Start, StopBegins, StopThrows,
     manager, history
<1>3. ASSUME NEW e \in EndpointIds,
             HandleRemoteWatch(e) \/ HandleRemoteUnwatch(e) \/ HandleRemoteTerminate(e)
             \/ HandleEndpointTerminated(e)
      PROVE  Kept
  BY <1>3 DEF HandleRemoteWatch, HandleRemoteUnwatch, HandleRemoteTerminate,
     HandleEndpointTerminated, manager, history
<1>4. AttachActors \/ EndpointTerminatedSent \/ LocalActorEnds \/ UNCHANGED vars => Kept
  BY DEF AttachActors, EndpointTerminatedSent, LocalActorEnds, vars, manager, history
<1>. QED  BY <1>1, <1>2, <1>3, <1>4 DEF Next

(* A step other than EnsureConnected gives no call another endpoint.        *)
LEMMA EndpointKept ==
    ASSUME EndpointsInv, [Next]_vars, ~\E c \in Callers : EnsureConnected(c),
           NEW d \in Callers, call'[d].endpoint # None
    PROVE  call'[d].endpoint = call[d].endpoint /\ call'[d].address = call[d].address
<1>1. ASSUME NEW c \in Callers, NEW k, Moves(c, k)
      PROVE  call'[d].endpoint = call[d].endpoint /\ call'[d].address = call[d].address
  <2>1. DOMAIN call = Callers
    BY DEF EndpointsInv, EndpointsType
  <2>2. call'[d] = IF d = c THEN k ELSE call[d]
    BY <1>1, <2>1 DEF Moves
  <2>. QED  BY <1>1, <2>2 DEF Moves
<1>. QED  BY <1>1, CallSteps

(* Every step preserves OneEndpointPerAddress.                              *)
LEMMA NextOneEndpoint ==
    ASSUME EndpointsInv, OneEndpointPerAddress, [Next]_vars
    PROVE  OneEndpointPerAddress'
<1>. SUFFICES ASSUME NEW d \in Callers, call'[d].endpoint # None
              PROVE  call'[d].endpoint = connections'[call'[d].address]
                     \/ call'[d].endpoint \in retired'
  BY DEF OneEndpointPerAddress
<1>a. connections \in [Addresses -> EndpointIds \cup {None}] /\ GoodCall(call[d])
  BY DEF EndpointsInv, EndpointsType
<1>1. ASSUME NEW c \in Callers, EnsureConnected(c)
      PROVE  call'[d].endpoint = connections'[call'[d].address] \/ call'[d].endpoint \in retired'
  <2>1. PICK e \in EndpointIds :
                 /\ connections[call[c].address] \in {None, e}
                 /\ connections' = [connections EXCEPT ![call[c].address] = e]
                 /\ call'[c].endpoint = e /\ call'[c].address = call[c].address
    BY <1>1, Connects
  <2>2. call[c].address \in Addresses
    BY <1>1, Connects
  <2>3. retired' = retired
    BY <1>1 DEF EnsureConnected, history
  <2>4. CASE d = c
    BY <1>a, <2>1, <2>2, <2>4
  <2>5. CASE d # c
    <3>1. call'[d] = call[d]
      BY <1>1, <2>5, Connects
    <3>2. call[d].endpoint = connections[call[d].address] \/ call[d].endpoint \in retired
      BY <3>1 DEF OneEndpointPerAddress
    <3>3. call[d].address \in Addresses
      BY <1>a, <3>1 DEF GoodCall
    <3>. QED  BY <1>a, <2>1, <2>2, <2>3, <3>1, <3>2, <3>3
  <2>. QED  BY <2>4, <2>5
<1>2. CASE ~\E c \in Callers : EnsureConnected(c)
  <2>1. call'[d].endpoint = call[d].endpoint /\ call'[d].address = call[d].address
    BY <1>2, EndpointKept
  <2>2. call[d].address \in Addresses
    BY <1>a, <2>1 DEF GoodCall
  <2>3. call[d].endpoint = connections[call[d].address] \/ call[d].endpoint \in retired
    BY <2>1 DEF OneEndpointPerAddress
  <2>4. ASSUME NEW t \in Threads, RemoveEndpoint(t)
        PROVE  call'[d].endpoint = connections'[call'[d].address] \/ call'[d].endpoint \in retired'
    BY <1>a, <2>1, <2>2, <2>3, <2>4 DEF RemoveEndpoint
  <2>5. ASSUME NEW t \in Threads, StopClears(t)
        PROVE  call'[d].endpoint = connections'[call'[d].address] \/ call'[d].endpoint \in retired'
    BY <1>a, <2>1, <2>2, <2>3, <2>5 DEF StopClears
  <2>6. CASE UNCHANGED <<connections, retired, raced>>
    BY <2>1, <2>3, <2>6
  <2>. QED  BY <1>2, <2>4, <2>5, <2>6, MapSteps
<1>. QED  BY <1>1, <1>2

(* Concurrent calls for one address share one Endpoint: EnsureConnected     *)
(* never overwrites an entry that a call still works on, unless a handler   *)
(* of endpoint events or Stop took the entry out in between.                *)
THEOREM CallsShareEndpoint == Spec => []OneEndpointPerAddress
<1>1. Init => OneEndpointPerAddress
  <2>1. ASSUME Init, NEW c \in Callers PROVE call[c].endpoint = None
    BY <2>1, IdleCall DEF Init
  <2>. QED  BY <2>1 DEF OneEndpointPerAddress
<1>2. EndpointsInv /\ OneEndpointPerAddress /\ [Next]_vars => OneEndpointPerAddress'
  BY NextOneEndpoint
<1>. QED  BY <1>1, <1>2, EndpointsInvariant, PTL DEF Spec

(* After Stop has emptied the map with nobody about to take the mutex, no   *)
(* call comes to the mutex any more.                                        *)
ClearInv ==
    raced = {} =>
        /\ \A a \in Addresses : connections[a] = None
        /\ \A c \in Callers : stopped /\ call[c].at # "lock"

(* Every step preserves ClearInv.                                           *)
LEMMA NextClear ==
    ASSUME EndpointsInv, ClearInv, [Next]_vars
    PROVE  ClearInv'
<1>. SUFFICES ASSUME raced' = {}
              PROVE  /\ \A a \in Addresses : connections'[a] = None
                     /\ \A c \in Callers : stopped' /\ call'[c].at # "lock"
  BY DEF ClearInv
<1>a. DOMAIN call = Callers /\ (stopped => stopped')
  BY NextManager DEF EndpointsInv, EndpointsType
<1>1. ASSUME NEW t \in Threads, StopClears(t)
      PROVE  /\ \A a \in Addresses : connections'[a] = None
             /\ \A c \in Callers : stopped' /\ call'[c].at # "lock"
  <2>1. t \in Callers /\ call[t].op = "stop"
    BY <1>1, ThreadsCall DEF StopClears
  <2>2. stopped
    BY <2>1 DEF EndpointsInv, CallInv
  <2>3. \A c \in Callers : call[c].at # "lock"
    BY <1>1 DEF StopClears
  <2>4. \A c \in Callers : call'[c] = IF c = t THEN Idle ELSE call[c]
    BY <1>a, <1>1 DEF StopClears, Return
  <2>5. \A a \in Addresses : connections'[a] = None
    BY <1>1 DEF StopClears
  <2>. QED  BY <1>a, <2>2, <2>3, <2>4, <2>5, IdleCall
<1>2. CASE raced = {}
  <2>1. /\ \A a \in Addresses : connections[a] = None
        /\ \A c \in Callers : stopped /\ call[c].at # "lock"
    BY <1>2 DEF ClearInv
  <2>2. ~\E c \in Callers : EnsureConnected(c)
    BY <2>1 DEF EnsureConnected
  <2>3. \A c \in Callers : stopped' /\ call'[c].at # "lock"
    <3>1. ASSUME NEW c \in Callers, NEW k, Moves(c, k), NEW d \in Callers
          PROVE  call'[d].at # "lock"
      <4>1. call'[d] = IF d = c THEN k ELSE call[d]
        BY <1>a, <3>1 DEF Moves
      <4>. QED  BY <2>1, <3>1, <4>1 DEF Moves
    <3>. QED  BY <1>a, <2>1, <2>2, <3>1, CallSteps
  <2>4. \A a \in Addresses : connections'[a] = None
    <3>1. connections \in [Addresses -> EndpointIds \cup {None}]
      BY DEF EndpointsInv, EndpointsType
    <3>2. ASSUME NEW t \in Threads, RemoveEndpoint(t)
          PROVE  \A a \in Addresses : connections'[a] = None
      BY <2>1, <3>1, <3>2 DEF RemoveEndpoint
    <3>3. CASE connections' = connections
      BY <2>1, <3>3
    <3>. QED  BY <1>1, <2>2, <3>2, <3>3, MapSteps
  <2>. QED  BY <2>3, <2>4
<1>3. CASE raced # {}
  <2>1. raced' = raced \/ \E t \in Threads : StopClears(t)
    <3>1. ASSUME NEW c \in Callers, EnsureConnected(c) PROVE raced' = raced
      BY <3>1 DEF EnsureConnected, history
    <3>2. ASSUME NEW t \in Threads, RemoveEndpoint(t) PROVE raced' = raced
      BY <3>2 DEF RemoveEndpoint
    <3>. QED  BY <3>1, <3>2, MapSteps
  <2>. QED  BY <1>1, <1>3, <2>1
<1>. QED  BY <1>2, <1>3

(* Once Stop has emptied the map it stays empty, unless a call had passed   *)
(* its look at stopped_ and was waiting for the mutex at that moment.       *)
THEOREM StoppedMapStaysEmpty == Spec => []ClearedStaysClear
<1>1. Init => ClearInv
  BY DEF Init, ClearInv
<1>2. EndpointsInv /\ ClearInv /\ [Next]_vars => ClearInv'
  BY NextClear
<1>3. ClearInv => ClearedStaysClear
  BY DEF ClearInv, ClearedStaysClear
<1>. QED  BY <1>1, <1>2, <1>3, EndpointsInvariant, PTL DEF Spec

-----------------------------------------------------------------------------
(* Watches                                                                  *)

Watch(p) == [kind |-> "watch", local |-> p[1], remote |-> p[2]]
Unwatch(p) == [kind |-> "unwatch", local |-> p[1], remote |-> p[2]]

(* t is in the call op for the pair p.                                      *)
Calling(t, op, p) == call[t].op = op /\ <<call[t].local, call[t].remote>> = p

Told(p) == \E reason \in {"Stopped", "AddressTerminated"} : <<p[1], p[2], reason>> \in told

(* The EndpointWatcher of e keeps p, or will: no request that it has still  *)
(* to handle takes p out again.                                             *)
Keeps(e, p) ==
    \/ p \in watched[e] /\ \A j \in 1..Len(inbox[e]) : inbox[e][j] # Unwatch(p)
    \/ \E i \in 1..Len(inbox[e]) :
          /\ inbox[e][i] = Watch(p)
          /\ \A j \in 1..Len(inbox[e]) : j > i => inbox[e][j] # Unwatch(p)

(* A watch that is open has a living watcher, is not being taken back, and  *)
(* is accounted for by something a later request cannot undo.               *)
WatchFor(p) ==
    /\ p[1] \in present
    /\ \A t \in Threads : ~Calling(t, "unwatch", p)
    /\ \/ AddressOf[p[2]] = None
       \/ Told(p)
       \/ p \in dropped
       \/ \E t \in Threads : Calling(t, "watch", p)
       \/ \E e \in EndpointIds : Keeps(e, p)

WatchInv == \A p \in open : WatchFor(p)

(* No thread ends its watch of p or begins an unwatch of it.                *)
CallsKept(p) ==
    \A t \in Threads :
        /\ Calling(t, "watch", p) => Calling(t, "watch", p)'
        /\ Calling(t, "unwatch", p)' => Calling(t, "unwatch", p)

(* A watch stays accounted for by what stays.                               *)
LEMMA WatchKept ==
    ASSUME NEW p, WatchFor(p), p[1] \in present', CallsKept(p),
           Told(p) => Told(p)', p \in dropped => p \in dropped',
           \A e \in EndpointIds : Keeps(e, p) => Keeps(e, p)' \/ Told(p)' \/ p \in dropped'
    PROVE  WatchFor(p)'
<1>1. \A t \in Threads : ~Calling(t, "unwatch", p)'
  BY DEF WatchFor, CallsKept
<1>2. CASE AddressOf[p[2]] = None \/ Told(p) \/ p \in dropped
  BY <1>1, <1>2 DEF WatchFor
<1>3. ASSUME NEW t \in Threads, Calling(t, "watch", p) PROVE WatchFor(p)'
  BY <1>1, <1>3 DEF WatchFor, CallsKept
<1>4. ASSUME NEW e \in EndpointIds, Keeps(e, p) PROVE WatchFor(p)'
  BY <1>1, <1>4 DEF WatchFor
<1>. QED  BY <1>2, <1>3, <1>4 DEF WatchFor

(* A watcher whose mailbox and table are not touched.                       *)
LEMMA KeepsSame ==
    ASSUME NEW p, NEW e, inbox'[e] = inbox[e], watched'[e] = watched[e], Keeps(e, p)
    PROVE  Keeps(e, p)'
BY DEF Keeps, Watch, Unwatch

(* A request other than an unwatch of p is added.                           *)
LEMMA KeepsAppend ==
    ASSUME NEW p, NEW e, NEW m \in Requests, inbox[e] \in Seq(Requests),
           inbox'[e] = Append(inbox[e], m), watched'[e] = watched[e], m # Unwatch(p),
           Keeps(e, p) \/ m = Watch(p)
    PROVE  Keeps(e, p)'
<1>. DEFINE s == inbox[e]
            n == Len(s)
<1>1. /\ n \in Nat /\ Len(inbox'[e]) = n + 1
      /\ inbox'[e][n + 1] = m /\ \A j \in 1..n : inbox'[e][j] = s[j]
  BY AppendProperties, LenProperties
<1>. HIDE DEF n
<1>2. CASE m = Watch(p)
  <2>1. n + 1 \in 1..Len(inbox'[e]) /\ inbox'[e][n + 1] = Watch(p)
    BY <1>1, <1>2
  <2>2. \A j \in 1..Len(inbox'[e]) : ~(j > n + 1)
    BY <1>1
  <2>. QED  BY <2>1, <2>2 DEF Keeps, Watch, Unwatch
<1>3. CASE p \in watched[e] /\ \A j \in 1..n : s[j] # Unwatch(p)
  <2>1. \A j \in 1..Len(inbox'[e]) : inbox'[e][j] # Unwatch(p)
    BY <1>1, <1>3
  <2>. QED  BY <1>3, <2>1 DEF Keeps, Watch, Unwatch
<1>4. ASSUME NEW i \in 1..n, s[i] = Watch(p), \A j \in 1..n : j > i => s[j] # Unwatch(p)
      PROVE  Keeps(e, p)'
  <2>1. i \in 1..Len(inbox'[e]) /\ inbox'[e][i] = Watch(p)
    BY <1>1, <1>4
  <2>2. \A j \in 1..Len(inbox'[e]) : j > i => inbox'[e][j] # Unwatch(p)
    BY <1>1, <1>4
  <2>. QED  BY <2>1, <2>2 DEF Keeps, Watch, Unwatch
<1>. QED  BY <1>2, <1>3, <1>4 DEF Keeps, n

(* The first request is handled.                                            *)
LEMMA KeepsTail ==
    ASSUME NEW p, NEW e, inbox[e] \in Seq(Requests), inbox[e] # <<>>,
           inbox'[e] = Tail(inbox[e]), Keeps(e, p),
           Head(inbox[e]) = Watch(p) => p \in watched'[e],
           p \in watched[e] /\ Head(inbox[e]) # Unwatch(p) => p \in watched'[e]
    PROVE  Keeps(e, p)'
<1>. DEFINE s == inbox[e]
            n == Len(s)
<1>1. /\ n \in Nat \ {0} /\ Len(inbox'[e]) = n - 1 /\ Head(s) = s[1]
      /\ \A j \in 1..(n - 1) : inbox'[e][j] = s[j + 1]
  BY HeadTailProperties, LenProperties, EmptySeq
<1>. HIDE DEF n
<1>2. ASSUME p \in watched'[e], \A j \in 1..n : j > 1 => s[j] # Unwatch(p)
      PROVE  Keeps(e, p)'
  <2>1. ASSUME NEW j \in 1..Len(inbox'[e]) PROVE inbox'[e][j] # Unwatch(p)
    <3>1. j \in 1..(n - 1) /\ j + 1 \in 1..n /\ j + 1 > 1
      BY <1>1
    <3>2. inbox'[e][j] = s[j + 1] /\ s[j + 1] # Unwatch(p)
      BY <1>1, <1>2, <3>1
    <3>. QED  BY <3>2
  <2>. QED  BY <1>2, <2>1 DEF Keeps, Watch, Unwatch
<1>3. CASE p \in watched[e] /\ \A j \in 1..n : s[j] # Unwatch(p)
  <2>1. 1 \in 1..n
    BY <1>1
  <2>2. Head(s) # Unwatch(p)
    BY <1>1, <1>3, <2>1
  <2>. QED  BY <1>2, <1>3, <2>2
<1>4. ASSUME NEW i \in 1..n, s[i] = Watch(p), \A j \in 1..n : j > i => s[j] # Unwatch(p)
      PROVE  Keeps(e, p)'
  <2>1. CASE i = 1
    BY <1>1, <1>2, <1>4, <2>1
  <2>2. CASE i # 1
    <3>1. i - 1 \in 1..Len(inbox'[e]) /\ inbox'[e][i - 1] = Watch(p)
      BY <1>1, <1>4, <2>2
    <3>2. \A j \in 1..Len(inbox'[e]) : j > i - 1 => inbox'[e][j] # Unwatch(p)
      BY <1>1, <1>4
    <3>. QED  BY <3>1, <3>2 DEF Keeps, Watch, Unwatch
  <2>. QED  BY <2>1, <2>2
<1>. QED  BY <1>3, <1>4 DEF Keeps, n

(* A call that is no watch goes on to something that is no unwatch.         *)
LEMMA MoveKeepsCalls ==
    ASSUME DOMAIN call = Callers, NEW c \in Callers, NEW k, call' = [call EXCEPT ![c] = k],
           c \in Threads => call[c].op # "watch" /\ k.op # "unwatch"
    PROVE  \A p : CallsKept(p)
<1>1. \A t \in Threads : t \in Callers /\ call'[t] = IF t = c THEN k ELSE call[t]
  BY DEF Callers
<1>. QED  BY <1>1 DEF CallsKept, Calling

(* The steps that touch neither the watches nor the actors that keep them.  *)
LEMMA QuietSteps ==
    ASSUME EndpointsInv, WatchInv,
           UNCHANGED <<inbox, watched, told, dropped, open, present>>,
           \A p : CallsKept(p)
    PROVE  WatchInv'
<1>. SUFFICES ASSUME NEW p \in open PROVE WatchFor(p)'
  BY DEF WatchInv
<1>1. WatchFor(p) /\ p[1] \in present'
  BY DEF WatchInv, WatchFor
<1>2. Told(p) => Told(p)'
  BY DEF Told
<1>3. \A e \in EndpointIds : Keeps(e, p) => Keeps(e, p)'
  BY KeepsSame
<1>. QED  BY <1>1, <1>2, <1>3, WatchKept

(* The steps inside the manager preserve the accounting.                    *)
LEMMA ManagerKeepsWatches ==
    ASSUME EndpointsInv, WatchInv, NEW c \in Callers,
           \/ EnsureChecks(c) \/ EnsureConnected(c) \/ DeliverToWriter(c)
           \/ c \in Threads /\ \/ RemoteDeliver(c) \/ PublishEndpointEvent(c) \/ RemoveEndpoint(c)
                               \/ ConnectedHandled(c) \/ StartChecks(c) \/ Start(c)
                               \/ StopBegins(c) \/ StopClears(c) \/ StopThrows(c)
    PROVE  WatchInv'
<1>a. /\ DOMAIN call = Callers /\ GoodCall(call[c]) /\ call[c] \in Calls
  BY DEF EndpointsInv, EndpointsType, GoodCall
<1>b. UNCHANGED <<inbox, watched, told, dropped, open, present>>
  BY DEF EnsureChecks, EnsureConnected, DeliverToWriter, RemoteDeliver, PublishEndpointEvent,
     RemoveEndpoint, ConnectedHandled, StartChecks, Start, StopBegins, StopClears, StopThrows,
     actors, history
<1>1. CASE EnsureChecks(c)
  <2>1. \A t \in Threads : /\ t \in Callers
                           /\ call'[t] = IF t = c
                                         THEN [call[c] EXCEPT !.at = IF stopped THEN "use" ELSE "lock"]
                                         ELSE call[t]
    BY <1>a, <1>1 DEF EnsureChecks, Callers
  <2>2. \A t \in Threads : /\ call'[t].op = call[t].op /\ call'[t].local = call[t].local
                           /\ call'[t].remote = call[t].remote
    BY <1>a, <2>1 DEF Calls
  <2>3. \A p : CallsKept(p)
    BY <2>2 DEF CallsKept, Calling
  <2>. QED  BY <1>b, <2>3, QuietSteps
<1>2. CASE EnsureConnected(c)
  <2>2. \A t \in Threads : /\ call'[t].op = call[t].op /\ call'[t].local = call[t].local
                           /\ call'[t].remote = call[t].remote
    BY <1>2, Connects, ThreadsCall
  <2>3. \A p : CallsKept(p)
    BY <2>2 DEF CallsKept, Calling
  <2>. QED  BY <1>b, <2>3, QuietSteps
<1>3. ASSUME NEW k, call' = [call EXCEPT ![c] = k],
             c \in Threads => call[c].op # "watch" /\ k.op # "unwatch"
      PROVE  WatchInv'
  <2>1. \A p : CallsKept(p)
    BY <1>a, <1>3, MoveKeepsCalls
  <2>. QED  BY <1>b, <2>1, QuietSteps
<1>4. CASE DeliverToWriter(c)
  BY <1>3, <1>4, IdleCall DEF DeliverToWriter, Return
<1>5. CASE c \in Threads /\ RemoteDeliver(c)
  <2>1. call[c].op = "idle"
    BY <1>5, IdleCall DEF RemoteDeliver, Count
  <2>2. PICK r \in Remotes : SendMessage(c, None, r)
    BY <1>5 DEF RemoteDeliver
  <2>3. PICK k : Moves(c, k) /\ k.op \in {"idle", "deliver"}
    BY <2>2, Sends
  <2>. QED  BY <1>3, <2>1, <2>3 DEF Moves
<1>6. CASE c \in Threads /\ PublishEndpointEvent(c)
  <2>1. call[c].op = "idle"
    BY <1>6, IdleCall DEF PublishEndpointEvent, Count
  <2>2. PICK a \in Addresses, op \in {"connected", "removed"} :
            call' = [call EXCEPT ![c] = Call(op, None, None, a, FirstPlace(op), subs)]
    BY <1>6 DEF PublishEndpointEvent
  <2>3. Call(op, None, None, a, FirstPlace(op), subs).op = op
    BY DEF Call
  <2>. QED  BY <1>3, <2>1, <2>2, <2>3
<1>7. CASE c \in Threads /\ (RemoveEndpoint(c) \/ ConnectedHandled(c))
  <2>1. call[c].op \in {"connected", "removed"} /\ HandlerReturns(c)
    BY <1>7 DEF RemoveEndpoint, ConnectedHandled
  <2>2. call[c].address \in Addresses
    BY <1>a, <2>1 DEF GoodCall
  <2>3. PICK k : Moves(c, k) /\ k.op \in {"idle", "connected", "removed"}
    BY <1>7, <2>1, <2>2, HandlerMoves
  <2>. QED  BY <1>3, <2>1, <2>3 DEF Moves
<1>8. CASE c \in Threads /\ (StartChecks(c) \/ StopBegins(c))
  <2>1. call[c].op = "idle"
    BY <1>8, IdleCall DEF StartChecks, StopBegins, Count
  <2>2. PICK op \in {"start", "stop"} :
            call' = [call EXCEPT ![c] = Call(op, None, None, None, "use", 0)]
    BY <1>8 DEF StartChecks, StopBegins
  <2>3. Call(op, None, None, None, "use", 0).op = op
    BY DEF Call
  <2>. QED  BY <1>3, <2>1, <2>2, <2>3
<1>9. CASE c \in Threads /\ (Start(c) \/ StopClears(c) \/ StopThrows(c))
  <2>1. call[c].op \in {"start", "stop"} /\ call' = [call EXCEPT ![c] = Idle]
    BY <1>9 DEF Start, StopClears, StopThrows, Return
  <2>. QED  BY <1>3, <2>1, IdleCall
<1>. QED  BY <1>1, <1>2, <1>4, <1>5, <1>6, <1>7, <1>8, <1>9

(* Asking for a watch, or taking it back.                                   *)
LEMMA RequestKeepsWatches ==
    ASSUME EndpointsInv, WatchInv, NEW t \in Threads, RemoteWatch(t) \/ RemoteUnwatch(t)
    PROVE  WatchInv'
<1>. SUFFICES ASSUME NEW p \in open' PROVE WatchFor(p)'
  BY DEF WatchInv
<1>a. /\ DOMAIN call = Callers /\ t \in Callers /\ present \subseteq Locals
      /\ open \subseteq Pairs
  BY ThreadsCall DEF EndpointsInv, EndpointsType
<1>b. call[t].op = "idle" /\ UNCHANGED <<inbox, watched, present>>
  BY IdleCall DEF RemoteWatch, RemoteUnwatch, Count, actors
<1>c. \A e \in EndpointIds : Keeps(e, p) => Keeps(e, p)'
  BY <1>b, KeepsSame
<1>d. \A l \in present, r \in Remotes, op \in {"watch", "unwatch"} :
          AddressOf[r] # None /\ Ensure(t, op, l, r)
              => \A u \in Threads : \A q, o :
                    Calling(u, o, q)' <=> IF u = t THEN o = op /\ q = <<l, r>> ELSE Calling(u, o, q)
  <2>. SUFFICES ASSUME NEW l \in present, NEW r \in Remotes, NEW op \in {"watch", "unwatch"},
                       AddressOf[r] # None, Ensure(t, op, l, r), NEW u \in Threads, NEW q, NEW o
                PROVE  Calling(u, o, q)' <=> IF u = t THEN o = op /\ q = <<l, r>> ELSE Calling(u, o, q)
    OBVIOUS
  <2>1. PICK k : Moves(t, k) /\ k.op = op /\ k.local = l /\ k.remote = r
    BY <1>a, ThreadsCall, Ensures
  <2>2. u \in Callers /\ call'[u] = IF u = t THEN k ELSE call[u]
    BY <1>a, <2>1, ThreadsCall DEF Moves
  <2>. QED  BY <2>1, <2>2 DEF Calling
<1>1. CASE RemoteUnwatch(t)
  <2>1. PICK l \in present, r \in Remotes :
          /\ open' = open \ {<<l, r>>}
          /\ IF stopped \/ AddressOf[r] = None THEN UNCHANGED call ELSE Ensure(t, "unwatch", l, r)
    BY <1>1 DEF RemoteUnwatch
  <2>2. p \in open /\ p # <<l, r>> /\ WatchFor(p) /\ UNCHANGED <<told, dropped>>
    BY <1>1, <2>1 DEF WatchInv, RemoteUnwatch
  <2>3. CallsKept(p)
    <3>1. CASE UNCHANGED call
      BY <3>1 DEF CallsKept, Calling
    <3>2. CASE AddressOf[r] # None /\ Ensure(t, "unwatch", l, r)
      <4>1. ~Calling(t, "watch", p)
        BY <1>b DEF Calling
      <4>. QED  BY <1>d, <2>2, <3>2, <4>1 DEF CallsKept
    <3>. QED  BY <2>1, <3>1, <3>2
  <2>4. p[1] \in present' /\ (Told(p) => Told(p)')
    BY <1>b, <2>2 DEF WatchFor, Told
  <2>. QED  BY <1>c, <2>2, <2>3, <2>4, WatchKept
<1>2. CASE RemoteWatch(t)
  <2>1. PICK l \in present, r \in Remotes :
          /\ Free(l)
          /\ open' = open \cup {<<l, r>>}
          /\ dropped' = dropped \ {<<l, r>>}
          /\ told' = LET before == {n \in told : n[1] # l \/ n[2] # r}
                     IN  IF stopped THEN before \cup {<<l, r, "Stopped">>} ELSE before
          /\ IF stopped \/ AddressOf[r] = None THEN UNCHANGED call ELSE Ensure(t, "watch", l, r)
    BY <1>2 DEF RemoteWatch
  <2>2. CASE p # <<l, r>>
    <3>1. p \in open /\ p \in Pairs /\ WatchFor(p)
      BY <1>a, <2>1, <2>2 DEF WatchInv
    <3>2. p[1] # l \/ p[2] # r
      BY <2>2, <3>1 DEF Pairs
    <3>3. Told(p) => Told(p)'
      BY <2>1, <3>2 DEF Told
    <3>4. CallsKept(p)
      <4>1. CASE UNCHANGED call
        BY <4>1 DEF CallsKept, Calling
      <4>2. CASE AddressOf[r] # None /\ Ensure(t, "watch", l, r)
        <5>1. ~Calling(t, "watch", p)
          BY <1>b DEF Calling
        <5>. QED  BY <1>d, <4>2, <5>1 DEF CallsKept
      <4>. QED  BY <2>1, <4>1, <4>2
    <3>5. p[1] \in present' /\ (p \in dropped => p \in dropped')
      BY <1>b, <2>1, <2>2, <3>1 DEF WatchFor
    <3>. QED  BY <1>c, <3>1, <3>3, <3>4, <3>5, WatchKept
  <2>3. CASE p = <<l, r>>
    <3>0. p[1] = l /\ p[2] = r /\ p[1] \in present'
      BY <1>b, <2>3
    <3>1. \A u \in Threads : ~Calling(u, "unwatch", p)
      BY <2>1, <3>0 DEF Free, Calling
    <3>2. \A u \in Threads : ~Calling(u, "unwatch", p)'
      <4>1. CASE UNCHANGED call
        BY <3>1, <4>1 DEF Calling
      <4>2. CASE AddressOf[r] # None /\ Ensure(t, "watch", l, r)
        BY <1>d, <3>1, <4>2
      <4>. QED  BY <2>1, <4>1, <4>2
    <3>3. CASE stopped
      <4>1. <<p[1], p[2], "Stopped">> \in told'
        BY <2>1, <3>0, <3>3
      <4>. QED  BY <3>0, <3>2, <4>1 DEF WatchFor, Told
    <3>4. CASE AddressOf[r] = None
      BY <3>0, <3>2, <3>4 DEF WatchFor
    <3>5. CASE ~stopped /\ AddressOf[r] # None
      <4>1. Calling(t, "watch", p)'
        BY <1>d, <2>1, <2>3, <3>5
      <4>. QED  BY <3>0, <3>2, <4>1 DEF WatchFor
    <3>. QED  BY <3>3, <3>4, <3>5
  <2>. QED  BY <2>2, <2>3
<1>. QED  BY <1>1, <1>2

(* A Terminated is only ever added to what was told.                        *)
LEMMA TellAdds ==
    ASSUME NEW l, NEW r, NEW reason \in {"Stopped", "AddressTerminated"}, Tell(l, r, reason)
    PROVE  /\ \A p : Told(p) => Told(p)'
           /\ \A p : p[1] = l /\ p[2] = r /\ l \in present => Told(p)'
BY DEF Tell, Told

(* A Terminated that comes in from a remote actor.                          *)
LEMMA TerminateKeepsWatches ==
    ASSUME EndpointsInv, WatchInv, NEW t \in Threads, RemoteTerminate(t)
    PROVE  WatchInv'
<1>. SUFFICES ASSUME NEW p \in open' PROVE WatchFor(p)'
  BY DEF WatchInv
<1>a. /\ DOMAIN call = Callers /\ t \in Callers
  BY ThreadsCall DEF EndpointsInv, EndpointsType
<1>b. call[t].op = "idle" /\ UNCHANGED <<inbox, watched, present, open, dropped>>
  BY IdleCall DEF RemoteTerminate, Count, actors
<1>c. \A e \in EndpointIds : Keeps(e, p) => Keeps(e, p)'
  BY <1>b, KeepsSame
<1>d. WatchFor(p) /\ p[1] \in present'
  BY <1>b DEF WatchInv, WatchFor
<1>1. PICK l \in Locals, r \in Remotes :
         \/ UNCHANGED <<told, call>>
         \/ Tell(l, r, "Stopped") /\ UNCHANGED call
         \/ AddressOf[r] # None /\ Ensure(t, "terminate", l, r) /\ UNCHANGED told
  BY DEF RemoteTerminate
<1>2. Told(p) => Told(p)'
  BY <1>1, TellAdds DEF Told
<1>3. CallsKept(p)
  <2>1. CASE UNCHANGED call
    BY <2>1 DEF CallsKept, Calling
  <2>2. CASE AddressOf[r] # None /\ Ensure(t, "terminate", l, r)
    <3>1. PICK k : Moves(t, k) /\ k.op = "terminate"
      BY <1>a, <2>2, ThreadsCall, Ensures
    <3>. QED  BY <1>a, <1>b, <3>1, MoveKeepsCalls DEF Moves
  <2>. QED  BY <1>1, <2>1, <2>2
<1>. QED  BY <1>b, <1>c, <1>d, <1>2, <1>3, WatchKept

(* A request of another pair or kind is put into a mailbox or is lost.      *)
LEMMA PostKeeps ==
    ASSUME EndpointsInv, NEW e \in EndpointIds, NEW p,
           NEW kind \in {"watch", "unwatch", "terminate"}, NEW l \in Locals, NEW r \in Remotes,
           PostToWatcher(e, kind, l, r), watched' = watched,
           kind = "unwatch" => p # <<l, r>>, p \in Pairs
    PROVE  /\ \A d \in EndpointIds : Keeps(d, p) => Keeps(d, p)'
           /\ p \in dropped => p \in dropped'
           /\ kind = "watch" /\ p = <<l, r>> => Keeps(e, p)' \/ p \in dropped'
<1>. DEFINE m == [kind |-> kind, local |-> l, remote |-> r]
<1>a. inbox \in [EndpointIds -> Seq(Requests)]
  BY DEF EndpointsInv, EndpointsType
<1>1. CASE e \in ended
  <2>1. inbox' = inbox /\ dropped' = IF kind = "watch" THEN dropped \cup {<<l, r>>} ELSE dropped
    BY <1>1 DEF PostToWatcher
  <2>. QED  BY <2>1, KeepsSame
<1>2. CASE e \notin ended
  <2>1. inbox' = [inbox EXCEPT ![e] = Append(@, m)] /\ dropped' = dropped
    BY <1>2 DEF PostToWatcher
  <2>2. m \in Requests
    BY DEF Requests
  <2>3. m # Unwatch(p) /\ (kind = "watch" /\ p = <<l, r>> => m = Watch(p))
    BY DEF Unwatch, Watch, Pairs
  <2>. HIDE DEF m
  <2>4. inbox'[e] = Append(inbox[e], m) /\ \A d \in EndpointIds : d # e => inbox'[d] = inbox[d]
    BY <1>a, <2>1
  <2>5. Keeps(e, p) \/ m = Watch(p) => Keeps(e, p)'
    BY <1>a, <2>2, <2>3, <2>4, KeepsAppend
  <2>6. \A d \in EndpointIds : d # e => (Keeps(d, p) => Keeps(d, p)')
    BY <2>4, KeepsSame
  <2>. QED  BY <2>1, <2>3, <2>5, <2>6
<1>. QED  BY <1>1, <1>2

(* The end of a call at its endpoint.                                       *)
LEMMA EndpointKeepsWatches ==
    ASSUME EndpointsInv, WatchInv, NEW c \in Callers,
           WatchAtEndpoint(c) \/ UnwatchAtEndpoint(c) \/ TerminateAtEndpoint(c)
    PROVE  WatchInv'
<1>. SUFFICES ASSUME NEW p \in open' PROVE WatchFor(p)'
  BY DEF WatchInv
<1>a. UNCHANGED <<present, open, watched>> /\ call' = [call EXCEPT ![c] = Idle]
  BY DEF WatchAtEndpoint, UnwatchAtEndpoint, TerminateAtEndpoint, Return
<1>b. /\ DOMAIN call = Callers /\ p \in Pairs /\ WatchFor(p) /\ p[1] \in present /\ p \in open
  BY <1>a DEF EndpointsInv, EndpointsType, WatchInv, WatchFor
<1>c. c \in Threads /\ call[c].local \in Locals /\ call[c].remote \in Remotes
      /\ (HasActors(call[c].endpoint) => call[c].endpoint \in EndpointIds)
  BY AtEndpoint DEF WatchAtEndpoint, UnwatchAtEndpoint, TerminateAtEndpoint
<1>d. \A u \in Threads : \A o, q :
         Calling(u, o, q)' <=> IF u = c THEN o = "idle" /\ q = <<None, None>> ELSE Calling(u, o, q)
  <2>1. \A u \in Threads : u \in Callers /\ call'[u] = IF u = c THEN Idle ELSE call[u]
    BY <1>a, <1>b, ThreadsCall
  <2>2. Idle.op = "idle" /\ Idle.local = None /\ Idle.remote = None
    BY DEF Idle, Call
  <2>. QED  BY <2>1, <2>2 DEF Calling
<1>. DEFINE l == call[c].local
            r == call[c].remote
            e == call[c].endpoint
<1>1. \A u \in Threads : ~Calling(u, "unwatch", p)'
  BY <1>b, <1>d DEF WatchFor
<1>2. ASSUME UNCHANGED <<inbox, dropped>>
      PROVE  (\A d \in EndpointIds : Keeps(d, p) => Keeps(d, p)') /\ (p \in dropped => p \in dropped')
  BY <1>a, <1>2, KeepsSame
<1>3. CASE UnwatchAtEndpoint(c)
  <2>1. call[c].op = "unwatch" /\ told' = told
    BY <1>3 DEF UnwatchAtEndpoint
  <2>2. p # <<l, r>>
    BY <1>b, <1>c, <2>1 DEF WatchFor, Calling
  <2>3. (\A d \in EndpointIds : Keeps(d, p) => Keeps(d, p)') /\ (p \in dropped => p \in dropped')
    <3>1. CASE HasActors(e)
      <4>1. PostToWatcher(e, "unwatch", l, r)
        BY <1>3, <3>1 DEF UnwatchAtEndpoint
      <4>. QED  BY <1>a, <1>b, <1>c, <2>2, <3>1, <4>1, PostKeeps
    <3>2. CASE ~HasActors(e)
      BY <1>2, <1>3, <3>2 DEF UnwatchAtEndpoint
    <3>. QED  BY <3>1, <3>2
  <2>4. CallsKept(p) /\ (Told(p) => Told(p)')
    BY <1>d, <2>1 DEF CallsKept, Calling, Told
  <2>. QED  BY <1>a, <1>b, <2>3, <2>4, WatchKept
<1>4. CASE TerminateAtEndpoint(c)
  <2>1. call[c].op = "terminate"
    BY <1>4 DEF TerminateAtEndpoint
  <2>2. /\ \A d \in EndpointIds : Keeps(d, p) => Keeps(d, p)'
        /\ p \in dropped => p \in dropped'
        /\ Told(p) => Told(p)'
    <3>1. CASE HasActors(e)
      <4>1. PostToWatcher(e, "terminate", l, r) /\ told' = told
        BY <1>4, <3>1 DEF TerminateAtEndpoint
      <4>2. Told(p) => Told(p)'
        BY <4>1 DEF Told
      <4>. QED  BY <1>a, <1>b, <1>c, <3>1, <4>1, <4>2, PostKeeps
    <3>2. CASE ~HasActors(e)
      <4>1. Tell(l, r, "Stopped") /\ UNCHANGED <<inbox, dropped>>
        BY <1>4, <3>2 DEF TerminateAtEndpoint
      <4>. QED  BY <1>2, <4>1, TellAdds
    <3>. QED  BY <3>1, <3>2
  <2>3. CallsKept(p)
    BY <1>d, <2>1 DEF CallsKept, Calling
  <2>. QED  BY <1>a, <1>b, <2>2, <2>3, WatchKept
<1>5. CASE WatchAtEndpoint(c)
  <2>1. call[c].op = "watch"
    BY <1>5 DEF WatchAtEndpoint
  <2>2. /\ \A d \in EndpointIds : Keeps(d, p) => Keeps(d, p)'
        /\ p \in dropped => p \in dropped'
        /\ Told(p) => Told(p)'
        /\ p = <<l, r>> => Told(p)' \/ p \in dropped' \/ \E d \in EndpointIds : Keeps(d, p)'
    <3>1. CASE HasActors(e)
      <4>1. PostToWatcher(e, "watch", l, r) /\ told' = told
        BY <1>5, <3>1 DEF WatchAtEndpoint
      <4>2. Told(p) => Told(p)'
        BY <4>1 DEF Told
      <4>. QED  BY <1>a, <1>b, <1>c, <3>1, <4>1, <4>2, PostKeeps
    <3>2. CASE ~HasActors(e)
      <4>1. Tell(l, r, "AddressTerminated") /\ UNCHANGED <<inbox, dropped>>
        BY <1>5, <3>2 DEF WatchAtEndpoint
      <4>2. p = <<l, r>> => p[1] = l /\ p[2] = r /\ l \in present
        BY <1>b
      <4>. QED  BY <1>2, <4>1, <4>2, TellAdds
    <3>. QED  BY <3>1, <3>2
  <2>3. CASE p = <<l, r>>
    BY <1>a, <1>b, <1>1, <2>2, <2>3 DEF WatchFor
  <2>4. CASE p # <<l, r>>
    <3>1. CallsKept(p)
      BY <1>d, <2>1, <2>4 DEF CallsKept, Calling
    <3>. QED  BY <1>a, <1>b, <2>2, <3>1, WatchKept
  <2>. QED  BY <2>3, <2>4
<1>. QED  BY <1>3, <1>4, <1>5

(* The EndpointWatcher handles a request.                                   *)
LEMMA WatcherKeepsWatches ==
    ASSUME EndpointsInv, WatchInv, NEW e \in EndpointIds,
           HandleRemoteWatch(e) \/ HandleRemoteUnwatch(e) \/ HandleRemoteTerminate(e)
    PROVE  WatchInv'
<1>. SUFFICES ASSUME NEW p \in open' PROVE WatchFor(p)'
  BY DEF WatchInv
<1>. DEFINE m == Head(inbox[e])
            q == <<m.local, m.remote>>
<1>a. UNCHANGED <<present, open, dropped>>
  BY DEF HandleRemoteWatch, HandleRemoteUnwatch, HandleRemoteTerminate, history
<1>b. /\ DOMAIN call = Callers /\ p \in Pairs /\ WatchFor(p) /\ p[1] \in present
      /\ inbox \in [EndpointIds -> Seq(Requests)] /\ watched \in [EndpointIds -> SUBSET Pairs]
  BY <1>a DEF EndpointsInv, EndpointsType, WatchInv, WatchFor
<1>c. /\ inbox[e] # <<>> /\ m.kind \in {"watch", "unwatch", "terminate"}
      /\ inbox' = [inbox EXCEPT ![e] = Tail(@)]
  BY DEF HandleRemoteWatch, HandleRemoteUnwatch, HandleRemoteTerminate, Receives
<1>d. m \in Requests /\ m.local \in Locals /\ m.remote \in Remotes
  BY <1>b, <1>c, HeadTailProperties, FirstRequest
<1>e. /\ inbox'[e] = Tail(inbox[e])
      /\ \A d \in EndpointIds : d # e => inbox'[d] = inbox[d] /\ watched'[d] = watched[d]
  BY <1>b, <1>c DEF HandleRemoteWatch, HandleRemoteUnwatch, HandleRemoteTerminate
<1>f. \A d \in EndpointIds : d # e => (Keeps(d, p) => Keeps(d, p)')
  BY <1>e, KeepsSame
<1>g. ASSUME m = Watch(p) => p \in watched'[e],
             p \in watched[e] /\ m # Unwatch(p) => p \in watched'[e],
             Keeps(e, p)
      PROVE  Keeps(e, p)'
  BY <1>b, <1>c, <1>e, <1>g, KeepsTail
<1>h. /\ m = Watch(p) => m.kind = "watch" /\ q = p
      /\ m # Unwatch(p) /\ m.kind = "unwatch" => q # p
  <2>1. p = <<p[1], p[2]>>
    BY <1>b DEF Pairs
  <2>2. m = Watch(p) => m.kind = "watch" /\ q = p
    BY <2>1 DEF Watch
  <2>3. m.kind = "unwatch" => m = [kind |-> "unwatch", local |-> m.local, remote |-> m.remote]
    BY <1>d DEF Requests
  <2>4. q = p => m.local = p[1] /\ m.remote = p[2]
    BY <2>1
  <2>. QED  BY <2>2, <2>3, <2>4 DEF Unwatch
<1>1. CASE HandleRemoteWatch(e) \/ HandleRemoteUnwatch(e)
  <2>0. e \in Callers /\ call[e] = Idle
    BY <1>1 DEF Callers, HandleRemoteWatch, HandleRemoteUnwatch, Receives
  <2>1. \A x : CallsKept(x)
    <3>1. SendMessage(e, m.local, m.remote)
      BY <1>1 DEF HandleRemoteWatch, HandleRemoteUnwatch
    <3>2. PICK k : Moves(e, k) /\ k.op \in {"idle", "deliver"}
      BY <1>d, <2>0, <3>1, Sends
    <3>. QED  BY <1>b, <2>0, <3>2, MoveKeepsCalls, IdleCall DEF Moves
  <2>2. Told(p) => Told(p)'
    BY <1>1 DEF Told, HandleRemoteWatch, HandleRemoteUnwatch, history
  <2>3. \/ m.kind = "watch" /\ watched'[e] = watched[e] \cup {q}
        \/ m.kind = "unwatch" /\ watched'[e] = watched[e] \ {q}
    BY <1>b, <1>1 DEF HandleRemoteWatch, HandleRemoteUnwatch, Receives
  <2>4. /\ m = Watch(p) => p \in watched'[e]
        /\ p \in watched[e] /\ m # Unwatch(p) => p \in watched'[e]
    BY <1>h, <2>3
  <2>. QED  BY <1>a, <1>b, <1>f, <1>g, <2>1, <2>2, <2>4, WatchKept
<1>2. CASE HandleRemoteTerminate(e)
  <2>1. CallsKept(p)
    BY <1>2 DEF CallsKept, Calling, HandleRemoteTerminate
  <2>2. m.kind = "terminate" /\ watched'[e] = watched[e] \ {q} /\ Tell(m.local, m.remote, "Stopped")
    BY <1>b, <1>2 DEF HandleRemoteTerminate, Receives
  <2>3. Told(p) => Told(p)'
    BY <2>2, TellAdds
  <2>4. q = p => Told(p)'
    BY <1>b, <2>2, TellAdds
  <2>5. q # p => (m = Watch(p) => p \in watched'[e])
                 /\ (p \in watched[e] /\ m # Unwatch(p) => p \in watched'[e])
    BY <1>h, <2>2
  <2>. QED  BY <1>a, <1>b, <1>f, <1>g, <2>1, <2>3, <2>4, <2>5, WatchKept
<1>. QED  BY <1>1, <1>2

(* The EndpointWatcher stops.                                               *)
LEMMA EndKeepsWatches ==
    ASSUME EndpointsInv, WatchInv, NEW e \in EndpointIds, HandleEndpointTerminated(e)
    PROVE  WatchInv'
<1>. SUFFICES ASSUME NEW p \in open' PROVE WatchFor(p)'
  BY DEF WatchInv
<1>a. /\ UNCHANGED <<present, open, call>>
      /\ inbox' = [inbox EXCEPT ![e] = <<>>] /\ watched' = [watched EXCEPT ![e] = {}]
      /\ told' = told \cup {<<x[1], x[2], "AddressTerminated">> :
                               x \in {y \in watched[e] : y[1] \in present}}
      /\ dropped' = dropped \cup {<<inbox[e][i].local, inbox[e][i].remote>> :
                               i \in {j \in DOMAIN inbox[e] : inbox[e][j].kind = "watch"}}
  BY DEF HandleEndpointTerminated
<1>b. /\ p \in Pairs /\ WatchFor(p) /\ p[1] \in present
      /\ inbox \in [EndpointIds -> Seq(Requests)] /\ watched \in [EndpointIds -> SUBSET Pairs]
  BY <1>a DEF EndpointsInv, EndpointsType, WatchInv, WatchFor
<1>1. CallsKept(p)
  BY <1>a DEF CallsKept, Calling
<1>2. (Told(p) => Told(p)') /\ (p \in dropped => p \in dropped')
  BY <1>a DEF Told
<1>3. p \in watched[e] => Told(p)'
  <2>1. p \in watched[e] => <<p[1], p[2], "AddressTerminated">> \in told'
    BY <1>a, <1>b
  <2>. QED  BY <2>1 DEF Told
<1>4. ASSUME NEW i \in 1..Len(inbox[e]), inbox[e][i] = Watch(p) PROVE p \in dropped'
  <2>1. i \in DOMAIN inbox[e]
    BY <1>b, LenProperties
  <2>2. /\ inbox[e][i].kind = "watch" /\ inbox[e][i].local = p[1] /\ inbox[e][i].remote = p[2]
    BY <1>4 DEF Watch
  <2>3. <<inbox[e][i].local, inbox[e][i].remote>> \in dropped'
    BY <1>a, <2>1, <2>2
  <2>4. p = <<p[1], p[2]>>
    BY <1>b DEF Pairs
  <2>5. <<p[1], p[2]>> \in dropped'
    BY <2>2, <2>3
  <2>. QED  BY <2>4, <2>5, Zenon
<1>5. Keeps(e, p) => Told(p)' \/ p \in dropped'
  BY <1>3, <1>4 DEF Keeps
<1>6. \A d \in EndpointIds : d # e => (Keeps(d, p) => Keeps(d, p)')
  BY <1>a, <1>b, KeepsSame
<1>. QED  BY <1>a, <1>b, <1>1, <1>2, <1>5, <1>6, WatchKept

(* Every step preserves the accounting of watches.                          *)
LEMMA NextWatch ==
    ASSUME EndpointsInv, WatchInv, [Next]_vars
    PROVE  WatchInv'
<1>1. CASE AttachActors \/ UNCHANGED vars
  <2>1. UNCHANGED <<inbox, watched, told, dropped, open, present, call>>
    BY <1>1 DEF AttachActors, vars, actors, history
  <2>2. \A p : CallsKept(p)
    BY <2>1 DEF CallsKept, Calling
  <2>. QED  BY <2>1, <2>2, QuietSteps
<1>2. CASE EndpointTerminatedSent
  <2>. DEFINE down == [kind |-> "down", local |-> None, remote |-> None]
  <2>1. PICK e \in wired : inbox' = [inbox EXCEPT ![e] = Append(@, down)]
    BY <1>2 DEF EndpointTerminatedSent
  <2>2. down \in Requests /\ \A p : down # Unwatch(p)
    BY DEF Requests, Unwatch
  <2>. HIDE DEF down
  <2>3. /\ UNCHANGED <<watched, told, dropped, open, present, call>>
        /\ inbox \in [EndpointIds -> Seq(Requests)] /\ e \in EndpointIds
    BY <1>2 DEF EndpointTerminatedSent, history, EndpointsInv, EndpointsType
  <2>4. inbox'[e] = Append(inbox[e], down) /\ \A d \in EndpointIds : d # e => inbox'[d] = inbox[d]
    BY <2>1, <2>3
  <2>. SUFFICES ASSUME NEW p \in open PROVE WatchFor(p)'
    BY <2>3 DEF WatchInv
  <2>5. Keeps(e, p) => Keeps(e, p)'
    BY <2>2, <2>3, <2>4, KeepsAppend
  <2>6. \A d \in EndpointIds : Keeps(d, p) => Keeps(d, p)'
    BY <2>3, <2>4, <2>5, KeepsSame
  <2>7. WatchFor(p) /\ p[1] \in present' /\ (Told(p) => Told(p)') /\ CallsKept(p)
    BY <2>3 DEF WatchInv, WatchFor, Told, CallsKept, Calling
  <2>. QED  BY <2>3, <2>6, <2>7, WatchKept
<1>3. CASE LocalActorEnds
  <2>1. PICK l \in present : present' = present \ {l} /\ open' = {p \in open : p[1] # l}
    BY <1>3 DEF LocalActorEnds
  <2>2. UNCHANGED <<inbox, watched, told, dropped, call>>
    BY <1>3 DEF LocalActorEnds, actors
  <2>. SUFFICES ASSUME NEW p \in open, p[1] # l PROVE WatchFor(p)'
    BY <2>1 DEF WatchInv
  <2>3. \A d \in EndpointIds : Keeps(d, p) => Keeps(d, p)'
    BY <2>2, KeepsSame
  <2>4. WatchFor(p) /\ p[1] \in present' /\ (Told(p) => Told(p)') /\ CallsKept(p)
    BY <2>1, <2>2 DEF WatchInv, WatchFor, Told, CallsKept, Calling
  <2>. QED  BY <2>2, <2>3, <2>4, WatchKept
<1>. QED
  BY <1>1, <1>2, <1>3, ManagerKeepsWatches, RequestKeepsWatches, TerminateKeepsWatches,
     EndpointKeepsWatches, WatcherKeepsWatches, EndKeepsWatches, ThreadsCall
  DEF Next, RemoteProcessSends

(* Until a watch is taken back its watcher has been told that the other     *)
(* side ended, or the request is under way to or kept by an EndpointWatcher, *)
(* or it met one that had stopped, in whatever order watches, unwatches,    *)
(* endpoint events and Stop overlap.                                        *)
THEOREM WatchesAccounted == Spec => []WatchAccounted
<1>1. Init => WatchInv
  BY DEF Init, WatchInv
<1>2. EndpointsInv /\ WatchInv /\ [Next]_vars => WatchInv'
  BY NextWatch
<1>3. EndpointsInv /\ WatchInv => WatchAccounted
  <2>. SUFFICES ASSUME EndpointsInv, WatchInv, NEW p \in open
                PROVE
        \/ AddressOf[p[2]] = None
        \/ \E reason \in {"Stopped", "AddressTerminated"} : <<p[1], p[2], reason>> \in told
        \/ \E t \in Threads : call[t].op = "watch" /\ <<call[t].local, call[t].remote>> = p
        \/ \E e \in EndpointIds :
            \/ p \in watched[e]
            \/ \E i \in DOMAIN inbox[e] : inbox[e][i] = [kind |-> "watch", local |-> p[1], remote |-> p[2]]
        \/ p \in dropped
    BY DEF WatchAccounted
  <2>1. \A e \in EndpointIds : DOMAIN inbox[e] = 1..Len(inbox[e])
    BY LenProperties DEF EndpointsInv, EndpointsType
  <2>2. \A e \in EndpointIds :
           Keeps(e, p) => \/ p \in watched[e]
                          \/ \E i \in DOMAIN inbox[e] :
                                inbox[e][i] = [kind |-> "watch", local |-> p[1], remote |-> p[2]]
    BY <2>1 DEF Keeps, Watch
  <2>3. WatchFor(p)
    BY DEF WatchInv
  <2>. QED  BY <2>2, <2>3 DEF WatchFor, Told, Calling
<1>. QED  BY <1>1, <1>2, <1>3, EndpointsInvariant, PTL DEF Spec
=============================================================================
