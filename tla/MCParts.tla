------------------------------ MODULE MCParts ------------------------------
(***************************************************************************)
(* Instance for TLC of the parts of the library that run beside the actors *)
(* and share no state with each other.  A behavior chooses one part and    *)
(* runs it alone, the others stay in their initial states.                 *)
(***************************************************************************)
EXTENDS Integers, Sequences, FiniteSets

CONSTANTS Callers, Timeouts,                            \* Timers
          Children, MaxRetries, Within, MaxFailures,    \* Supervision
          Pids, IntMax, MaxRoutees,                     \* Routers
          MaxIndex,                                     \* Persistence
          Actors, Keys, TTL, MaxDelay, MaxDepth,        \* Receiving
          Subscribers, Clients, MaxBatches,             \* Hub
          Takers, MaxLength,                            \* Probe
          Threads, Shards, Base, MaxIds, Names          \* Registry

(* A name, and a prefix with a NextID that reads like the third id.        *)
ChosenNames == {<<0>>, <<1, 1>>}

ASSUME PartsAssumption ==
    /\ MaxRetries \in Nat /\ Within \in Nat
    /\ TTL \in Nat /\ MaxDelay \in Nat /\ "none" \notin Keys
    /\ IsFiniteSet(Takers) /\ Callers # {} /\ MaxIndex \in Nat
    /\ Shards \in Nat \ {0} /\ Base \in Nat \ {0, 1} /\ MaxIds \in Nat
    /\ Names \subseteq Seq(Nat)

VARIABLES part,
          timer, call, receive_timeout, rearm, dropped, inline, ended,
          strategy, stats, fate, since,
          kind, sender, routees, index, group, pool, alive, turns,
          events, snapshot, persisted, covered, deletions,
          seen, receiver, gap, least, behaviors,
          running, delivery, subscriptions, client, batches, left,
          heap, popper, probed, expecting, stream, streaming,
          sequence_id, local_pids, thread, cleared, stopped, dead_letter, used, reused

T == INSTANCE Timers
S == INSTANCE Supervision
R == INSTANCE Routers
P == INSTANCE Persistence
D == INSTANCE Receiving WITH thread <- receiver
H == INSTANCE Hub
Q == INSTANCE Probe
G == INSTANCE Registry

timerVars == <<timer, call, receive_timeout, rearm, dropped, inline, ended>>
supervisionVars == <<strategy, stats, fate, since>>
routerVars == <<kind, sender, routees, index, group, pool, alive, turns>>
persistenceVars == <<events, snapshot, persisted, covered, deletions>>
receivingVars == <<seen, receiver, gap, least, behaviors>>
hubVars == <<running, delivery, subscriptions, client, batches, left>>
probeVars == <<heap, popper, probed, expecting, stream, streaming>>
registryVars == <<sequence_id, local_pids, thread, cleared, stopped, dead_letter, used, reused>>

Init == /\ part \in {"timers", "supervision", "routers", "persistence",
                     "receiving", "hub", "probe", "registry"}
        /\ T!Init /\ S!Init /\ R!Init /\ P!Init
        /\ D!Init /\ H!Init /\ Q!Init /\ G!Init
        /\ part # "timers" => ~inline
        /\ part # "supervision" => strategy = "OneForOne"
        /\ part # "routers" => kind = "Broadcast" /\ pool

(* The parts that p leaves alone.                                          *)
Only(p) ==
  /\ part = p
  /\ UNCHANGED part
  /\ IF p = "timers" THEN TRUE ELSE UNCHANGED timerVars
  /\ IF p = "supervision" THEN TRUE ELSE UNCHANGED supervisionVars
  /\ IF p = "routers" THEN TRUE ELSE UNCHANGED routerVars
  /\ IF p = "persistence" THEN TRUE ELSE UNCHANGED persistenceVars
  /\ IF p = "receiving" THEN TRUE ELSE UNCHANGED receivingVars
  /\ IF p = "hub" THEN TRUE ELSE UNCHANGED hubVars
  /\ IF p = "probe" THEN TRUE ELSE UNCHANGED probeVars
  /\ IF p = "registry" THEN TRUE ELSE UNCHANGED registryVars

Next == \/ Only("timers") /\ T!Next
        \/ Only("supervision") /\ S!Next
        \/ Only("routers") /\ R!Next
        \/ Only("persistence") /\ P!Next
        \/ Only("receiving") /\ D!Next
        \/ Only("hub") /\ H!Next
        \/ Only("probe") /\ Q!Next
        \/ Only("registry") /\ G!Next

vars == <<part, timerVars, supervisionVars, routerVars, persistenceVars,
          receivingVars, hubVars, probeVars, registryVars>>

Spec == Init /\ [][Next]_vars /\ T!Fairness

---------------------------------------------------------------------------
(* The properties of the parts.                                            *)

(* A cancelled timer sends at most the message on its way, and the call of *)
(* its cancel function (timer.cpp, SetReceiveTimeout) comes back.          *)
CancelStops == T!CancelStops

(* A strategy stops a child instead of restarting it only after            *)
(* max_retries_ failures that no quiet period has forgiven (ShouldStop).   *)
StopNeedsRetries == S!StopNeedsRetries

(* RoundRobinRouter serves its routees in turn, also with a negative index.*)
FairShare == R!FairShare

(* GetEvents of the in-memory provider keeps the order of the events and   *)
(* gives none that DeleteEvents was for.                                   *)
ReplayInOrder == P!ReplayInOrder

(* DedupState::ShouldProcess lets messages with one key through at least   *)
(* TTL less one scheduling delay apart.                                    *)
DuplicateGap == D!DuplicateGap

(* PubSub: whoever has unsubscribed is in no list copied afterwards.       *)
GoneIsGone == H!GoneIsGone

(* PriorityQueue: no taker sleeps in Pop while an item has nobody coming.  *)
NoItemSleeps == Q!NoItemSleeps

(* ActorSystem::Shutdown leaves no process registered before it, and a     *)
(* generated id is not given to a second process.                          *)
ShutdownForgets == G!ShutdownForgets
=============================================================================
