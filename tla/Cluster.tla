------------------------------- MODULE Cluster -------------------------------
(***************************************************************************)
(* One node's view of its cluster: the MemberList, the Gossiper with its   *)
(* detached loop threads, the Informer they write to without a lock, and   *)
(* Start and Shutdown of Cluster, called from several threads.             *)
(* UpdateTopology keeps mutex_ while the event stream runs the handlers,   *)
(* so GetMembers waits for them.                                           *)
(***************************************************************************)
EXTENDS Integers

CONSTANTS
    Others,      \* ids of other nodes
    Starters,    \* threads that call Start
    MaxStarts,   \* bound: gossip loops started
    MaxUpdates,  \* bound: topologies that are set
    MaxSeq       \* bound: sequence numbers of this node

ASSUME ClusterAssumption ==
    MaxStarts \in Nat /\ MaxUpdates \in Nat /\ MaxSeq \in Nat

Loops == 1..MaxStarts

VARIABLES
    running,    \* running_ of the Gossiper
    starting,   \* where each call of Start is
    loop,       \* what each gossip thread does, and the members it has read
    started,    \* gossip threads started so far
    pubsub,     \* running_ of PubSub
    delivery,   \* whether PubSub has its delivery actor
    members,    \* members_ of the MemberList
    updating,   \* UpdateTopology holds mutex_ and publishes
    updates,    \* topologies set so far
    seq,        \* local_seq_number_
    own,        \* sequence number of the node's entry in state_, 0 if there is none
    active,     \* active_member_ids_
    crashed,    \* two threads were in the maps of the Informer together
    stopped,    \* history: StopGossiping was called
    overlapped  \* history: two calls of Start were past the look at running_ together

vars == <<running, starting, loop, started, pubsub, delivery, members, updating, updates,
          seq, own, active, crashed, stopped, overlapped>>
gossiper == <<running, starting, loop, started, stopped, overlapped>>
lists == <<members, updating, updates>>
informer == <<seq, own, active, crashed>>

Thread(at, seen, n) == [at |-> at, seen |-> seen, seq |-> n]

GossiperNew ==
    /\ running = FALSE /\ started = 0
    /\ starting = [c \in Starters |-> "out"]
    /\ loop = [t \in Loops |-> Thread("none", {}, 0)]
    /\ stopped = FALSE /\ overlapped = FALSE

InformerNew == seq = 0 /\ own = 0 /\ active = {} /\ crashed = FALSE

(* The list is empty, and from now on hears every GossipUpdate.             *)
MemberListNew == members = {} /\ updating = FALSE /\ updates = 0

Init ==
    /\ GossiperNew /\ InformerNew /\ MemberListNew
    /\ pubsub = FALSE /\ delivery = FALSE

Alive(t) == loop[t].at \notin {"none", "ended"}

-----------------------------------------------------------------------------
(* Start and Shutdown                                                       *)

(* Mutant: StartGossiping does not look at running_.                        *)
StartAlways(c) ==
    /\ starting[c] = "out"
    /\ starting' = [starting EXCEPT ![c] = "store"]
    /\ overlapped' = (overlapped \/ \E d \in Starters : starting[d] = "store")
    /\ UNCHANGED <<running, loop, started, stopped, pubsub, delivery, lists, informer>>

(* Cluster::Start up to the load of running_ in StartGossiping, which does  *)
(* nothing if the gossip runs.                                              *)
Start(c) ==
    /\ starting[c] = "out"
    /\ starting' = [starting EXCEPT ![c] = IF running THEN "pubsub" ELSE "store"]
    /\ overlapped' = (overlapped \/ (~running /\ \E d \in Starters : starting[d] = "store"))
    /\ UNCHANGED <<running, loop, started, stopped, pubsub, delivery, lists, informer>>

(* The rest of it: running_ is stored and a thread begins, whatever has     *)
(* happened since the load, and whether or not the thread of an earlier     *)
(* start has noticed that it was stopped.                                   *)
StartGossiping(c) ==
    /\ starting[c] = "store" /\ started < MaxStarts
    /\ starting' = [starting EXCEPT ![c] = "pubsub"]
    /\ running' = TRUE
    /\ started' = started + 1
    /\ loop' = [loop EXCEPT ![started + 1] = Thread("check", {}, 0)]
    /\ UNCHANGED <<stopped, overlapped, pubsub, delivery, lists, informer>>

(* PubSub::Start spawns the delivery actor the first time and finds its     *)
(* name taken afterwards.                                                   *)
StartPubSub(c) ==
    /\ starting[c] = "pubsub"
    /\ starting' = [starting EXCEPT ![c] = "out"]
    /\ pubsub' = TRUE /\ delivery' = TRUE
    /\ UNCHANGED <<running, loop, started, stopped, overlapped, lists, informer>>

(* Cluster::Shutdown stops PubSub first.  If that was started, it waits for *)
(* the delivery actor with a future, whose constructor throws: Shutdown     *)
(* ends there and the gossip goes on.                                       *)
ShutdownThrows ==
    /\ pubsub
    /\ pubsub' = FALSE
    /\ UNCHANGED <<gossiper, delivery, lists, informer>>

StopGossiping == running' = FALSE /\ stopped' = TRUE

Shutdown ==
    /\ ~pubsub
    /\ StopGossiping
    /\ UNCHANGED <<starting, loop, started, overlapped, pubsub, delivery, lists, informer>>

-----------------------------------------------------------------------------
(* The gossip loop: GossipLoop and SendState                                *)

(* Sequence numbers stop at their bound.                                    *)
Bounded(n) == IF n <= MaxSeq THEN n ELSE MaxSeq

Goes(t, at) == loop' = [loop EXCEPT ![t].at = at]

(* Mutant: the flag is read once, when the thread starts.                   *)
LoopChecksOnce(t) ==
    /\ loop[t].at = "check"
    /\ Goes(t, IF running \/ loop[t].seq > 0 THEN "read" ELSE "ended")
    /\ UNCHANGED <<running, starting, started, stopped, overlapped, pubsub, delivery, lists, informer>>

LoopChecks(t) ==
    /\ loop[t].at = "check"
    /\ Goes(t, IF running THEN "read" ELSE "ended")
    /\ UNCHANGED <<running, starting, started, stopped, overlapped, pubsub, delivery, lists, informer>>

(* GetMembers, which needs mutex_.                                          *)
GetMembers(t) ==
    /\ loop[t].at = "read" /\ ~updating
    /\ loop' = [loop EXCEPT ![t] = Thread("bump", members, loop[t].seq)]
    /\ UNCHANGED <<running, starting, started, stopped, overlapped, pubsub, delivery, lists, informer>>

(* UpdateClusterTopology up to the increment: the members are replaced and  *)
(* local_seq_number_ is read.  The entries of members that left go too, but *)
(* nothing ever enters one: MergeState has no caller.                       *)
ReplaceMembers(t) ==
    /\ loop[t].at = "bump"
    /\ active' = loop[t].seen
    /\ loop' = [loop EXCEPT ![t].at = "store", ![t].seq = Bounded(seq + 1)]
    /\ UNCHANGED <<running, starting, started, stopped, overlapped, pubsub, delivery, lists,
                   seq, own, crashed>>

(* The rest: the number is stored, with the node's own entry.               *)
StoreOwnState(t) ==
    /\ loop[t].at = "store"
    /\ seq' = loop[t].seq /\ own' = loop[t].seq
    /\ Goes(t, "check")
    /\ UNCHANGED <<running, starting, started, stopped, overlapped, pubsub, delivery, lists,
                   active, crashed>>

(* Two threads change the maps at the same time and the process dies of it; *)
(* that one only overwrites the other's number is in the steps above.       *)
MapsCollide(t) ==
    /\ loop[t].at = "store" /\ \E u \in Loops \ {t} : loop[u].at = "store"
    /\ crashed' = TRUE
    /\ UNCHANGED <<gossiper, pubsub, delivery, lists, seq, own, active>>

-----------------------------------------------------------------------------
(* Topologies                                                               *)

(* UpdateTopology publishes the topology under the mutex.                   *)
UpdateTopology(topology) ==
    /\ ~updating /\ updates < MaxUpdates
    /\ members' = topology
    /\ updating' = TRUE
    /\ updates' = updates + 1
    /\ UNCHANGED <<gossiper, pubsub, delivery, informer>>

(* A GossipUpdate is published on the event stream, by the application or   *)
(* the other side of the gossip; only a topology is used.                   *)
HandleGossipUpdate ==
    \E key \in {"topology", "other"}, topology \in SUBSET Others, empty \in BOOLEAN :
        IF key = "topology" /\ ~empty THEN UpdateTopology(topology) ELSE UNCHANGED vars

(* The subscribers of the event, such as that of SubscribeToTopologyEvents, *)
(* which changes nothing, have seen it; the mutex is released.              *)
HandlersReturn ==
    /\ updating
    /\ updating' = FALSE
    /\ UNCHANGED <<gossiper, pubsub, delivery, members, updates, informer>>

GossipLoop(t) ==
    LoopChecks(t) \/ GetMembers(t) \/ ReplaceMembers(t) \/ StoreOwnState(t) \/ MapsCollide(t)

Next ==
    /\ ~crashed
    /\ \/ \E c \in Starters : Start(c) \/ StartGossiping(c) \/ StartPubSub(c)
       \/ Shutdown \/ ShutdownThrows
       \/ \E t \in Loops : GossipLoop(t)
       \/ HandleGossipUpdate \/ HandlersReturn

(* The loop threads and the thread inside UpdateTopology keep running.      *)
Spec ==
    /\ Init /\ [][Next]_vars
    /\ \A t \in Loops : WF_vars(GossipLoop(t))
    /\ WF_vars(HandlersReturn)

-----------------------------------------------------------------------------
(* Properties                                                               *)

(* StopGossiping takes effect: each thread that runs then ends or the       *)
(* gossip is started again, even if the thread waits for the member list    *)
(* at that moment, unless two of them have crashed the process.             *)
GossipStops ==
    \A t \in Loops : (~running /\ Alive(t)) ~> (running \/ ~Alive(t) \/ crashed)

(* What the missing lock of the Informer takes: as long as the gossip was   *)
(* never stopped and no two calls of Start overlapped, one thread at a time *)
(* is inside UpdateClusterTopology and the number of the node's own entry   *)
(* never goes back.                                                         *)
OneWriter ==
    [][stopped' \/ overlapped' \/ (~crashed' /\ seq' >= seq /\ own' >= own)]_vars

=============================================================================
