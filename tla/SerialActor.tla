---------------------------- MODULE SerialActor ----------------------------
(***************************************************************************)
(* What a mailbox promises the actor behind it: messages are taken one at  *)
(* a time, those of one kind in the order they were queued, and a system   *)
(* message waits for at most one user message taken ahead of it.  How many *)
(* threads do the work, and which, is not visible here.                    *)
(***************************************************************************)
EXTENDS Integers, Sequences

CONSTANT Messages   \* records with a field kind, "user" or "sys"

VARIABLES
    queue,      \* queue[k]: messages of kind k that wait
    taking,     \* the messages in the hands of the actor: none or one
    done,       \* done[k]: messages of kind k the actor has finished
    overtaken   \* system messages a user message was taken ahead of

vars == <<queue, taking, done, overtaken>>

Init ==
    /\ queue = [k \in {"user", "sys"} |-> <<>>]
    /\ taking = {}
    /\ done = [k \in {"user", "sys"} |-> <<>>]
    /\ overtaken = {}

Post(m) ==
    /\ queue' = [queue EXCEPT ![m.kind] = Append(@, m)]
    /\ UNCHANGED <<taking, done, overtaken>>

Waiting == {queue["sys"][j] : j \in DOMAIN queue["sys"]}

TakeSystem ==
    /\ taking = {}
    /\ queue["sys"] # <<>>
    /\ taking' = {Head(queue["sys"])}
    /\ queue' = [queue EXCEPT !["sys"] = Tail(@)]
    /\ UNCHANGED <<done, overtaken>>

TakeUser ==
    /\ taking = {}
    /\ queue["user"] # <<>>
    /\ overtaken \cap Waiting = {}
    /\ taking' = {Head(queue["user"])}
    /\ queue' = [queue EXCEPT !["user"] = Tail(@)]
    /\ overtaken' = overtaken \cup Waiting
    /\ done' = done

Finish(m) ==
    /\ taking = {m}
    /\ taking' = {}
    /\ done' = [done EXCEPT ![m.kind] = Append(@, m)]
    /\ UNCHANGED <<queue, overtaken>>

Next ==
    \/ \E m \in Messages : Post(m)
    \/ TakeSystem
    \/ TakeUser
    \/ \E m \in Messages : Finish(m)

Spec == Init /\ [][Next]_vars

=============================================================================
