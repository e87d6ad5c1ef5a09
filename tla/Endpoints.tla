------------------------------ MODULE Endpoints ------------------------------
(***************************************************************************)
(* The sending side of the remote layer: RemoteProcess and Remote hand     *)
(* everything to EndpointManager, which keeps one Endpoint per address and *)
(* passes watches on to the EndpointWatcher actor of the endpoint.         *)
(*                                                                         *)
(* A call of the manager reads stopped_, calls EnsureConnected, which      *)
(* reads stopped_ again before it takes connections_mutex_, and then uses  *)
(* the endpoint without the mutex: three steps, between which other calls, *)
(* Stop and the handlers of endpoint events run.  EnsureConnected makes    *)
(* endpoints without actors; whoever spawns them stores them in the        *)
(* Endpoint it returns (AttachActors, not done by the repository itself).  *)
(***************************************************************************)
EXTENDS Integers, Sequences, FiniteSets

CONSTANTS
    Threads,      \* threads that call the manager
    Locals,       \* ids of local actors, the watchers
    Remotes,      \* remote PIDs, the watchees
    Addresses,    \* their addresses
    AddressOf,    \* address of a remote PID; None if it is empty
    MaxEndpoints, \* bound: Endpoint objects made
    MaxCalls,     \* bound: calls of threads
    None

ASSUME EndpointsAssumption ==
    /\ AddressOf \in [Remotes -> Addresses \cup {None}]
    /\ None \notin Addresses
    /\ MaxEndpoints \in Nat /\ MaxCalls \in Nat
    /\ Threads \cap 1..MaxEndpoints = {}
    /\ None \notin 1..MaxEndpoints

EndpointIds == 1..MaxEndpoints

VARIABLES
    stopped,     \* stopped_
    subs,        \* handlers of this manager in the event stream
    handle,      \* whether endpoint_sub_ is set
    activator,   \* whether activator_ is set
    connections, \* connections_, None where there is no entry
    made,        \* Endpoint objects made so far
    wired,       \* endpoints that have their two actors
    ended,       \* endpoints whose EndpointWatcher has stopped
    inbox,       \* mailbox of each EndpointWatcher
    watched,     \* watched_ of each EndpointWatcher, as pairs
    writer,      \* what the EndpointWriter of each endpoint was sent
    present,     \* local actors that are in the process registry
    call,        \* the call each thread and each EndpointWatcher is in
    calls,       \* calls so far
    told,        \* history: Terminated sent, <<watcher, watchee, reason>>
    open,        \* history: watches asked for and not taken back
    dropped,     \* history: requests that met a stopped EndpointWatcher
    retired,     \* history: endpoints taken out of connections_
    raced        \* history: callers about to lock when Stop emptied the map

manager == <<stopped, subs, handle, activator, connections, made>>
actors == <<wired, ended, inbox, watched, writer>>
history == <<told, open, dropped, retired, raced>>
vars == <<manager, actors, present, call, calls, history>>

(* An EndpointWatcher calls the manager itself, from its own thread.        *)
Callers == Threads \cup EndpointIds

(* A call that has no endpoint yet: its operation, its PIDs, the address it *)
(* needs an endpoint for, how far it is, and the handlers still to run.     *)
Call(op, l, r, a, at, n) ==
    [op |-> op, local |-> l, remote |-> r, address |-> a, at |-> at,
     endpoint |-> None, runs |-> n]

Idle == Call("idle", None, None, None, "idle", 0)

Init ==
    /\ stopped = FALSE /\ subs = 0 /\ handle = FALSE /\ activator = FALSE
    /\ connections = [a \in Addresses |-> None]
    /\ made = 0
    /\ wired = {} /\ ended = {}
    /\ inbox = [e \in EndpointIds |-> <<>>]
    /\ watched = [e \in EndpointIds |-> {}]
    /\ writer = [e \in EndpointIds |-> {}]
    /\ present = Locals
    /\ call = [c \in Callers |-> Idle]
    /\ calls = 0
    /\ told = {} /\ open = {} /\ dropped = {} /\ retired = {}
    /\ raced = Callers

-----------------------------------------------------------------------------
(* Helpers                                                                  *)

(* process->SendSystemMessage of a Terminated, if the registry has the id.  *)
Tell(l, r, reason) ==
    told' = IF l \in present THEN told \cup {<<l, r, reason>>} ELSE told

(* The call goes on to EnsureConnected for the address of r.                *)
Ensure(c, op, l, r) ==
    call' = [call EXCEPT ![c] = Call(op, l, r, AddressOf[r], "ensure", 0)]

Return(c) == call' = [call EXCEPT ![c] = Idle]

Count(t) == t \in Threads /\ call[t] = Idle /\ calls < MaxCalls /\ calls' = calls + 1

(* Root->Send to the EndpointWatcher of e; a stopped one's PID leads to the *)
(* dead letters.                                                            *)
PostToWatcher(e, kind, l, r) ==
    IF e \in ended
    THEN dropped' = (IF kind = "watch" THEN dropped \cup {<<l, r>>} ELSE dropped) /\ UNCHANGED inbox
    ELSE inbox' = [inbox EXCEPT ![e] = Append(@, [kind |-> kind, local |-> l, remote |-> r])]
         /\ UNCHANGED dropped

HasActors(e) == e # None /\ e \in wired

-----------------------------------------------------------------------------
(* EnsureConnected, inside whatever call needs an endpoint                  *)

(* Mutant: it does not look at stopped_ again.                              *)
EnsureUnchecked(c) ==
    /\ call[c].at = "ensure"
    /\ call' = [call EXCEPT ![c].at = "lock"]
    /\ UNCHANGED <<manager, actors, present, calls, history>>

(* Its own look at stopped_.                                                *)
EnsureChecks(c) ==
    /\ call[c].at = "ensure"
    /\ call' = [call EXCEPT ![c].at = IF stopped THEN "use" ELSE "lock"]
    /\ UNCHANGED <<manager, actors, present, calls, history>>

(* Mutant: an endpoint that is there is not looked for.                     *)
EnsureAlwaysNew(c) ==
    /\ call[c].at = "lock" /\ made < MaxEndpoints
    /\ made' = made + 1
    /\ connections' = [connections EXCEPT ![call[c].address] = made + 1]
    /\ call' = [call EXCEPT ![c].at = "use", ![c].endpoint = made + 1]
    /\ UNCHANGED <<stopped, subs, handle, activator, actors, present, calls, history>>

(* Under connections_mutex_: the entry, made if it is missing.              *)
EnsureConnected(c) ==
    /\ call[c].at = "lock"
    /\ LET a == call[c].address
           there == connections[a] # None
           e == IF there THEN connections[a] ELSE made + 1
       IN  /\ there \/ made < MaxEndpoints
           /\ made' = IF there THEN made ELSE made + 1
           /\ connections' = [connections EXCEPT ![a] = e]
           /\ call' = [call EXCEPT ![c].at = "use", ![c].endpoint = e]
    /\ UNCHANGED <<stopped, subs, handle, activator, actors, present, calls, history>>

-----------------------------------------------------------------------------
(* Remote and RemoteProcess                                                 *)

(* SendUserMessage of a RemoteProcess, and SendSystemMessage of anything    *)
(* but Watch and Unwatch, Stop included: Remote::SendMessage, which gives a *)
(* message for a PID without an address to the local registry.              *)
SendMessage(c, l, r) ==
    IF stopped \/ AddressOf[r] = None THEN Return(c) ELSE Ensure(c, "deliver", l, r)

RemoteDeliver(t) ==
    /\ Count(t)
    /\ \E r \in Remotes : SendMessage(t, None, r)
    /\ UNCHANGED <<manager, actors, present, history>>

DeliverToWriter(c) ==
    /\ call[c].at = "use" /\ call[c].op = "deliver"
    /\ LET e == call[c].endpoint
       IN  writer' = IF HasActors(e)
                     THEN [writer EXCEPT ![e] = @ \cup {<<call[c].local, call[c].remote>>}]
                     ELSE writer
    /\ Return(c)
    /\ UNCHANGED <<manager, wired, ended, inbox, watched, present, calls, history>>

(* An actor makes one call at a time.                                       *)
Free(l) == \A t \in Threads : call[t].op \in {"watch", "unwatch"} => call[t].local # l

(* SendSystemMessage of a Watch goes to RemoteWatch; what the watcher was   *)
(* told before it asked is forgotten.                                       *)
RemoteWatch(t) ==
    /\ Count(t)
    /\ \E l \in present, r \in Remotes :
        /\ Free(l)
        /\ open' = open \cup {<<l, r>>}
        /\ dropped' = dropped \ {<<l, r>>}
        /\ LET before == {n \in told : n[1] # l \/ n[2] # r}
           IN  told' = IF stopped THEN before \cup {<<l, r, "Stopped">>} ELSE before
        /\ IF stopped \/ AddressOf[r] = None THEN UNCHANGED call ELSE Ensure(t, "watch", l, r)
    /\ UNCHANGED <<manager, actors, present, retired, raced>>

(* Mutant: an endpoint without a watcher is not reported.                   *)
WatchSilently(c) ==
    /\ call[c].at = "use" /\ call[c].op = "watch"
    /\ LET e == call[c].endpoint
       IN  IF HasActors(e) THEN PostToWatcher(e, "watch", call[c].local, call[c].remote)
           ELSE UNCHANGED <<inbox, dropped>>
    /\ Return(c)
    /\ UNCHANGED <<manager, wired, ended, watched, writer, present, calls, told, open, retired, raced>>

WatchAtEndpoint(c) ==
    /\ call[c].at = "use" /\ call[c].op = "watch"
    /\ LET e == call[c].endpoint
       IN  IF HasActors(e)
           THEN PostToWatcher(e, "watch", call[c].local, call[c].remote) /\ UNCHANGED told
           ELSE Tell(call[c].local, call[c].remote, "AddressTerminated") /\ UNCHANGED <<inbox, dropped>>
    /\ Return(c)
    /\ UNCHANGED <<manager, wired, ended, watched, writer, present, calls, open, retired, raced>>

RemoteUnwatch(t) ==
    /\ Count(t)
    /\ \E l \in present, r \in Remotes :
        /\ Free(l)
        /\ open' = open \ {<<l, r>>}
        /\ IF stopped \/ AddressOf[r] = None THEN UNCHANGED call ELSE Ensure(t, "unwatch", l, r)
    /\ UNCHANGED <<manager, actors, present, told, dropped, retired, raced>>

UnwatchAtEndpoint(c) ==
    /\ call[c].at = "use" /\ call[c].op = "unwatch"
    /\ LET e == call[c].endpoint
       IN  IF HasActors(e) THEN PostToWatcher(e, "unwatch", call[c].local, call[c].remote)
           ELSE UNCHANGED <<inbox, dropped>>
    /\ Return(c)
    /\ UNCHANGED <<manager, wired, ended, watched, writer, present, calls, told, open, retired, raced>>

(* What a RemoteProcess is called with decides where it goes.               *)
RemoteProcessSends(t) == RemoteDeliver(t) \/ RemoteWatch(t) \/ RemoteUnwatch(t)

(* The reader hands a Terminated of a remote actor to RemoteTerminate.      *)
RemoteTerminate(t) ==
    /\ Count(t)
    /\ \E l \in Locals, r \in Remotes :
        IF stopped THEN UNCHANGED <<told, call>>
        ELSE IF AddressOf[r] = None THEN Tell(l, r, "Stopped") /\ UNCHANGED call
        ELSE Ensure(t, "terminate", l, r) /\ UNCHANGED told
    /\ UNCHANGED <<manager, actors, present, open, dropped, retired, raced>>

TerminateAtEndpoint(c) ==
    /\ call[c].at = "use" /\ call[c].op = "terminate"
    /\ LET e == call[c].endpoint
       IN  IF HasActors(e)
           THEN PostToWatcher(e, "terminate", call[c].local, call[c].remote) /\ UNCHANGED told
           ELSE Tell(call[c].local, call[c].remote, "Stopped") /\ UNCHANGED <<inbox, dropped>>
    /\ Return(c)
    /\ UNCHANGED <<manager, wired, ended, watched, writer, present, calls, open, retired, raced>>

-----------------------------------------------------------------------------
(* Endpoint events, Start and Stop                                          *)

(* The handler of EndpointConnectedEvent begins with EnsureConnected.       *)
FirstPlace(op) == IF op = "connected" THEN "ensure" ELSE "use"

(* A Publish of the event stream copied the handlers of this manager; they  *)
(* run outside the stream's mutex, perhaps after Stop has unsubscribed.     *)
PublishEndpointEvent(t) ==
    /\ Count(t) /\ subs > 0
    /\ \E a \in Addresses, op \in {"connected", "removed"} :
        call' = [call EXCEPT ![t] = Call(op, None, None, a, FirstPlace(op), subs)]
    /\ UNCHANGED <<manager, actors, present, history>>

(* The next handler of the copy, if there is one.                           *)
HandlerReturns(t) ==
    call' = [call EXCEPT ![t] =
        IF call[t].runs = 1 THEN Idle
        ELSE Call(call[t].op, None, None, call[t].address, FirstPlace(call[t].op),
                  call[t].runs - 1)]

RemoveEndpoint(t) ==
    /\ call[t].at = "use" /\ call[t].op = "removed"
    /\ retired' = retired \cup {connections[call[t].address]}
    /\ connections' = [connections EXCEPT ![call[t].address] = None]
    /\ HandlerReturns(t)
    /\ UNCHANGED <<stopped, subs, handle, activator, made, actors, present, calls, told, open, dropped, raced>>

ConnectedHandled(t) ==
    /\ call[t].at = "use" /\ call[t].op = "connected"
    /\ HandlerReturns(t)
    /\ UNCHANGED <<manager, actors, present, calls, history>>

(* Start looks at stopped_, subscribes, whether or not it already has, and  *)
(* spawns the activator.                                                    *)
StartChecks(t) ==
    /\ Count(t) /\ ~stopped
    /\ call' = [call EXCEPT ![t] = Call("start", None, None, None, "use", 0)]
    /\ UNCHANGED <<manager, actors, present, history>>

(* SpawnNamed fails when the name "activator" is taken, by an activator of  *)
(* an earlier Start or by another actor: activator_ then stays as it is.    *)
StartActivator == activator' \in {activator, TRUE}

Start(t) ==
    /\ call[t].op = "start"
    /\ subs' = subs + 1 /\ handle' = TRUE
    /\ StartActivator
    /\ Return(t)
    /\ UNCHANGED <<stopped, connections, made, actors, present, calls, history>>

StopBegins(t) ==
    /\ Count(t) /\ ~stopped
    /\ stopped' = TRUE
    /\ subs' = IF handle THEN subs - 1 ELSE subs
    /\ handle' = FALSE
    /\ call' = [call EXCEPT ![t] = Call("stop", None, None, None, "use", 0)]
    /\ UNCHANGED <<activator, connections, made, actors, present, history>>

(* Without an activator nothing has to be waited for.                       *)
StopClears(t) ==
    /\ call[t].op = "stop" /\ ~activator
    /\ retired' = retired \cup {connections[a] : a \in Addresses}
    /\ connections' = [a \in Addresses |-> None]
    /\ raced' = {c \in Callers : call[c].at = "lock"}
    /\ Return(t)
    /\ UNCHANGED <<stopped, subs, handle, activator, made, actors, present, calls, told, open, dropped>>

(* With one, StopFuture makes a FutureImpl, whose constructor throws: Stop  *)
(* ends there, with activator_ and every entry in place.                    *)
StopThrows(t) ==
    /\ call[t].op = "stop" /\ activator
    /\ Return(t)
    /\ UNCHANGED <<manager, actors, present, calls, history>>

-----------------------------------------------------------------------------
(* The EndpointWatcher actor                                                *)

(* The owner of an Endpoint spawns its two actors and stores them.          *)
AttachActors ==
    \E a \in Addresses :
        /\ connections[a] # None /\ connections[a] \notin wired
        /\ wired' = wired \cup {connections[a]}
        /\ UNCHANGED <<manager, ended, inbox, watched, writer, present, call, calls, history>>

(* It also sends the actor the EndpointTerminatedEvent of its address.      *)
EndpointTerminatedSent ==
    \E e \in wired \ ended :
        /\ \A i \in DOMAIN inbox[e] : inbox[e][i].kind # "down"
        /\ inbox' = [inbox EXCEPT ![e] = Append(@, [kind |-> "down", local |-> None, remote |-> None])]
        /\ UNCHANGED <<manager, wired, ended, watched, writer, present, call, calls, history>>

(* A local actor ends: the registry no longer has its id.                   *)
LocalActorEnds ==
    \E l \in present :
        /\ present' = present \ {l}
        /\ open' = {p \in open : p[1] # l}
        /\ UNCHANGED <<manager, actors, call, calls, told, dropped, retired, raced>>

(* The next message of the mailbox of e, which is between two messages.     *)
Receives(e, kind) ==
    /\ call[e] = Idle /\ e \notin ended
    /\ inbox[e] # <<>> /\ Head(inbox[e]).kind = kind
    /\ inbox' = [inbox EXCEPT ![e] = Tail(@)]

(* The pair is kept once; the Watch is forwarded by Remote::SendMessage.    *)
HandleRemoteWatch(e) ==
    /\ Receives(e, "watch")
    /\ LET m == Head(inbox[e])
       IN  /\ watched' = [watched EXCEPT ![e] = @ \cup {<<m.local, m.remote>>}]
           /\ SendMessage(e, m.local, m.remote)
    /\ UNCHANGED <<manager, wired, ended, writer, present, calls, history>>

HandleRemoteUnwatch(e) ==
    /\ Receives(e, "unwatch")
    /\ LET m == Head(inbox[e])
       IN  /\ watched' = [watched EXCEPT ![e] = @ \ {<<m.local, m.remote>>}]
           /\ SendMessage(e, m.local, m.remote)
    /\ UNCHANGED <<manager, wired, ended, writer, present, calls, history>>

HandleRemoteTerminate(e) ==
    /\ Receives(e, "terminate")
    /\ LET m == Head(inbox[e])
       IN  /\ watched' = [watched EXCEPT ![e] = @ \ {<<m.local, m.remote>>}]
           /\ Tell(m.local, m.remote, "Stopped")
    /\ UNCHANGED <<manager, wired, ended, writer, present, call, calls, open, dropped, retired, raced>>

(* Everyone in the table is told, the table emptied, the actor stops itself *)
(* and what is left in its mailbox is never handled.                        *)
HandleEndpointTerminated(e) ==
    /\ call[e] = Idle /\ e \notin ended
    /\ inbox[e] # <<>> /\ Head(inbox[e]).kind = "down"
    /\ told' = told \cup {<<p[1], p[2], "AddressTerminated">> : p \in {q \in watched[e] : q[1] \in present}}
    /\ watched' = [watched EXCEPT ![e] = {}]
    /\ dropped' = dropped \cup {<<inbox[e][i].local, inbox[e][i].remote>> :
                               i \in {j \in DOMAIN inbox[e] : inbox[e][j].kind = "watch"}}
    /\ inbox' = [inbox EXCEPT ![e] = <<>>]
    /\ ended' = ended \cup {e}
    /\ UNCHANGED <<manager, wired, writer, present, call, calls, open, retired, raced>>

Next ==
    \/ \E c \in Callers :
        \/ EnsureChecks(c) \/ EnsureConnected(c) \/ DeliverToWriter(c)
        \/ WatchAtEndpoint(c) \/ UnwatchAtEndpoint(c) \/ TerminateAtEndpoint(c)
    \/ \E t \in Threads :
        \/ RemoteProcessSends(t) \/ RemoteTerminate(t)
        \/ PublishEndpointEvent(t) \/ RemoveEndpoint(t) \/ ConnectedHandled(t)
        \/ StartChecks(t) \/ Start(t) \/ StopBegins(t) \/ StopClears(t) \/ StopThrows(t)
    \/ \E e \in EndpointIds :
        \/ HandleRemoteWatch(e) \/ HandleRemoteUnwatch(e)
        \/ HandleRemoteTerminate(e) \/ HandleEndpointTerminated(e)
    \/ AttachActors \/ EndpointTerminatedSent \/ LocalActorEnds

Spec == Init /\ [][Next]_vars
-----------------------------------------------------------------------------
(* Properties                                                               *)

(* Two calls for one address work on one Endpoint object, unless the object *)
(* was taken out of the map between them: no call holds an endpoint that    *)
(* another call has overwritten, with the watches the latter collects.      *)
OneEndpointPerAddress ==
    \A c \in Callers :
        call[c].endpoint # None =>
            \/ call[c].endpoint = connections[call[c].address]
            \/ call[c].endpoint \in retired

(* A watch is never forgotten on its way: until it is taken back, the       *)
(* watcher has been sent a Terminated since it asked, or the request is     *)
(* under way, or some EndpointWatcher keeps the pair.  The only exception   *)
(* is a request that found the EndpointWatcher stopped or stopping.         *)
WatchAccounted ==
    \A p \in open :
        \/ AddressOf[p[2]] = None
        \/ \E reason \in {"Stopped", "AddressTerminated"} : <<p[1], p[2], reason>> \in told
        \/ \E t \in Threads : call[t].op = "watch" /\ <<call[t].local, call[t].remote>> = p
        \/ \E e \in EndpointIds :
            \/ p \in watched[e]
            \/ \E i \in DOMAIN inbox[e] : inbox[e][i] = [kind |-> "watch", local |-> p[1], remote |-> p[2]]
        \/ p \in dropped

(* Once Stop has emptied the map it stays empty, although handlers of       *)
(* endpoint events and calls that began before are still running: only a    *)
(* call that was between its look at stopped_ and the mutex can add again.  *)
ClearedStaysClear == raced = {} => \A a \in Addresses : connections[a] = None

=============================================================================
