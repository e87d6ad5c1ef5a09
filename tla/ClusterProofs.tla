---------------------------- MODULE ClusterProofs ----------------------------
(***************************************************************************)
(* Machine-checked proof about Cluster, for any number of nodes, callers   *)
(* of Start, gossip threads, topologies and sequence numbers.              *)
(***************************************************************************)
EXTENDS Cluster, TLAPS

LoopThreads ==
    [at : {"none", "check", "read", "bump", "store", "ended"}, seen : SUBSET Others,
     seq : 0..MaxSeq]

(* Types of what the proof is about.                                        *)
ClusterType ==
    /\ running \in BOOLEAN /\ started \in Nat
    /\ starting \in [Starters -> {"out", "store", "pubsub"}]
    /\ loop \in [Loops -> LoopThreads]
    /\ members \in SUBSET Others
    /\ seq \in 0..MaxSeq /\ own \in 0..MaxSeq

(* At most one call of Start is past its look at running_, and only before  *)
(* the first thread begins.                                                 *)
OneStart ==
    /\ \A c \in Starters : starting[c] = "store" => ~running
    /\ \A c, d \in Starters : starting[c] = "store" /\ starting[d] = "store" => c = d
    /\ started = IF running THEN 1 ELSE 0

(* Only thread 1 was ever started; a number it has read is not behind the   *)
(* counter, as nobody else counts.                                          *)
OneLoop ==
    /\ \A t \in Loops : loop[t].at # "none" => t = 1 /\ started = 1
    /\ \A t \in Loops : loop[t].at = "store" => loop[t].seq >= seq
    /\ own <= seq

Alone == ~stopped /\ ~overlapped

AloneInv == Alone => OneStart /\ OneLoop /\ ~crashed

(* A thread of the gossip and what it leaves alone.                         *)
LEMMA LoopStep ==
    ASSUME ClusterType, NEW t \in Loops, GossipLoop(t)
    PROVE  UNCHANGED <<running, starting, started, stopped, overlapped, members>>
  BY DEF GossipLoop, LoopChecks, GetMembers, ReplaceMembers, StoreOwnState, MapsCollide,
         gossiper, lists

(* Everything that is neither a start nor a stop nor a gossip thread.       *)
LEMMA OtherStep ==
    ASSUME [Next]_vars,
           \A c \in Starters : ~Start(c) /\ ~StartGossiping(c) /\ ~StartPubSub(c),
           ~Shutdown, \A t \in Loops : ~GossipLoop(t)
    PROVE  UNCHANGED <<running, starting, started, stopped, overlapped, loop, seq, own, crashed>>
<1>1. CASE ShutdownThrows \/ HandlersReturn \/ UNCHANGED vars
  BY <1>1 DEF ShutdownThrows, HandlersReturn, vars, gossiper, informer
<1>2. CASE HandleGossipUpdate
  BY <1>2 DEF HandleGossipUpdate, UpdateTopology, vars, gossiper, informer
<1>. QED  BY <1>1, <1>2 DEF Next

(* Every step keeps the types.                                              *)
LEMMA NextType ==
    ASSUME ClusterType, [Next]_vars
    PROVE  ClusterType'
<1>. USE DEF ClusterType
<1>1. ASSUME NEW c \in Starters, Start(c) \/ StartPubSub(c)  PROVE ClusterType'
  BY <1>1 DEF Start, StartPubSub, lists, informer
<1>2. ASSUME NEW c \in Starters, StartGossiping(c)  PROVE ClusterType'
  <2>1. Thread("check", {}, 0) \in LoopThreads
    BY ClusterAssumption DEF Thread, LoopThreads
  <2>2. loop' \in [Loops -> LoopThreads] /\ starting' \in [Starters -> {"out", "store", "pubsub"}]
    BY <1>2, <2>1 DEF StartGossiping
  <2>. QED  BY <1>2, <2>2 DEF StartGossiping, lists, informer
<1>3. CASE Shutdown
  BY <1>3 DEF Shutdown, StopGossiping, lists, informer
<1>4. ASSUME NEW t \in Loops, GossipLoop(t)  PROVE ClusterType'
  <2>1. loop[t] \in LoopThreads /\ loop[t].seq \in 0..MaxSeq
    BY DEF LoopThreads
  <2>2. CASE LoopChecks(t) \/ GetMembers(t) \/ MapsCollide(t)
    <3>1. Thread("bump", members, loop[t].seq) \in LoopThreads
      BY <2>1 DEF Thread, LoopThreads
    <3>2. loop' \in [Loops -> LoopThreads]
      BY <2>2, <3>1 DEF LoopChecks, GetMembers, MapsCollide, gossiper, Goes, LoopThreads
    <3>3. seq' = seq /\ own' = own
      BY <2>2 DEF LoopChecks, GetMembers, MapsCollide, informer
    <3>. QED  BY <1>4, <3>2, <3>3, LoopStep
  <2>3. CASE ReplaceMembers(t)
    <3>1. Bounded(seq + 1) \in 0..MaxSeq
      BY ClusterAssumption DEF Bounded
    <3>2. loop' \in [Loops -> LoopThreads] /\ seq' = seq /\ own' = own
      BY <2>3, <3>1 DEF ReplaceMembers, LoopThreads
    <3>. QED  BY <1>4, <3>2, LoopStep
  <2>4. CASE StoreOwnState(t)
    <3>1. loop' \in [Loops -> LoopThreads] /\ seq' \in 0..MaxSeq /\ own' \in 0..MaxSeq
      BY <2>1, <2>4 DEF StoreOwnState, Goes, LoopThreads
    <3>. QED  BY <1>4, <3>1, LoopStep
  <2>. QED  BY <1>4, <2>2, <2>3, <2>4 DEF GossipLoop
<1>5. CASE HandleGossipUpdate
  <2>1. members' \in SUBSET Others
    BY <1>5 DEF HandleGossipUpdate, UpdateTopology, vars
  <2>. QED
    BY <1>5, <2>1 DEF HandleGossipUpdate, UpdateTopology, vars, gossiper, informer
<1>6. CASE ShutdownThrows \/ HandlersReturn \/ UNCHANGED vars
  BY <1>6 DEF ShutdownThrows, HandlersReturn, vars, gossiper, lists, informer
<1>. QED  BY <1>1, <1>2, <1>3, <1>4, <1>5, <1>6 DEF Next

(* A call of Start that finds no gossip is the only one, or it overlaps     *)
(* another.                                                                 *)
LEMMA StartAlone ==
    ASSUME ClusterType, OneStart, OneLoop, NEW c \in Starters, Start(c) \/ StartPubSub(c), Alone'
    PROVE  OneStart' /\ OneLoop'
<1>1. UNCHANGED <<running, started, loop, seq, own>>
  BY DEF Start, StartPubSub, informer
<1>2. \A d \in Starters : d # c => starting'[d] = starting[d]
  BY DEF Start, StartPubSub, ClusterType
<1>3. starting'[c] = "store" => ~running /\ \A d \in Starters : starting[d] # "store"
  BY DEF Start, StartPubSub, ClusterType, Alone
<1>4. OneStart'
  BY <1>1, <1>2, <1>3 DEF OneStart, ClusterType
<1>. QED  BY <1>1, <1>4 DEF OneLoop

(* It starts thread 1, before any other has run.                            *)
LEMMA FirstLoop ==
    ASSUME ClusterType, OneStart, OneLoop, NEW c \in Starters, StartGossiping(c)
    PROVE  OneStart' /\ OneLoop'
<1>1. ~running /\ started = 0 /\ \A d \in Starters : d # c => starting[d] # "store"
  BY DEF OneStart, StartGossiping
<1>2. /\ running' /\ started' = 1 /\ seq' = seq /\ own' = own
      /\ starting' = [starting EXCEPT ![c] = "pubsub"]
      /\ loop' = [loop EXCEPT ![1] = Thread("check", {}, 0)]
  BY <1>1 DEF StartGossiping, informer
<1>3. \A d \in Starters : starting'[d] # "store"
  BY <1>1, <1>2 DEF ClusterType
<1>4. OneStart'
  BY <1>2, <1>3 DEF OneStart
<1>5. \A t \in Loops : loop'[t] = IF t = 1 THEN Thread("check", {}, 0) ELSE loop[t]
  BY <1>2 DEF ClusterType
<1>6. \A t \in Loops : loop'[t].at # "none" => t = 1
  BY <1>1, <1>5 DEF OneLoop
<1>7. \A t \in Loops : loop'[t].at # "store"
  BY <1>1, <1>5 DEF OneLoop, Thread
<1>. QED  BY <1>2, <1>4, <1>6, <1>7 DEF OneLoop

(* Thread 1 has the Informer for itself.                                    *)
LEMMA OnlyLoop ==
    ASSUME ClusterType, OneStart, OneLoop, NEW t \in Loops, GossipLoop(t)
    PROVE  OneStart' /\ OneLoop' /\ crashed' = crashed /\ seq' >= seq /\ own' >= own
<1>1. loop[t].at # "none"
  BY DEF GossipLoop, LoopChecks, GetMembers, ReplaceMembers, StoreOwnState, MapsCollide
<1>2. t = 1 /\ started = 1 /\ \A u \in Loops : u # t => loop[u].at = "none"
  BY <1>1 DEF OneLoop
<1>3. OneStart'
  BY LoopStep DEF OneStart
<1>4. ~MapsCollide(t)
  BY <1>2 DEF MapsCollide
<1>5. crashed' = crashed
  BY <1>4 DEF GossipLoop, LoopChecks, GetMembers, ReplaceMembers, StoreOwnState, informer
<1>6. \A u \in Loops : u # t => loop'[u] = loop[u]
  BY <1>4 DEF GossipLoop, LoopChecks, Goes, GetMembers, ReplaceMembers, StoreOwnState, ClusterType
<1>7. \A u \in Loops : loop'[u].at # "none" => u = 1 /\ started' = 1
  BY <1>2, <1>6, LoopStep
<1>8. \A u \in Loops : loop'[u].at = "store" => u = t
  BY <1>2, <1>7
<1>9. loop[t].seq \in 0..MaxSeq /\ seq \in 0..MaxSeq /\ own \in 0..MaxSeq /\ own <= seq
  BY DEF ClusterType, LoopThreads, OneLoop
<1>10. CASE LoopChecks(t) \/ GetMembers(t)
  <2>1. loop'[t].at # "store" /\ seq' = seq /\ own' = own
    BY <1>10 DEF LoopChecks, Goes, GetMembers, Thread, informer, ClusterType, LoopThreads
  <2>. QED  BY <1>3, <1>5, <1>7, <1>8, <1>9, <2>1 DEF OneLoop
<1>11. CASE ReplaceMembers(t)
  <2>1. loop'[t].seq = Bounded(seq + 1) /\ seq' = seq /\ own' = own
    BY <1>11 DEF ReplaceMembers, ClusterType, LoopThreads
  <2>2. Bounded(seq + 1) >= seq
    BY <1>9, ClusterAssumption DEF Bounded
  <2>. QED  BY <1>3, <1>5, <1>7, <1>8, <1>9, <2>1, <2>2 DEF OneLoop
<1>12. CASE StoreOwnState(t)
  <2>1. loop'[t].at = "check" /\ seq' = loop[t].seq /\ own' = loop[t].seq
    BY <1>12 DEF StoreOwnState, Goes, ClusterType, LoopThreads
  <2>2. loop[t].seq >= seq
    BY <1>12 DEF StoreOwnState, OneLoop
  <2>. QED  BY <1>3, <1>5, <1>7, <1>8, <1>9, <2>1, <2>2 DEF OneLoop
<1>. QED  BY <1>4, <1>10, <1>11, <1>12 DEF GossipLoop

(* Nothing makes up for a stop or an overlap.                               *)
LEMMA AloneBefore == ASSUME [Next]_vars, Alone'  PROVE Alone /\ ~Shutdown
<1>1. ASSUME NEW c \in Starters, Start(c) \/ StartGossiping(c) \/ StartPubSub(c)  PROVE Alone
  <2>1. CASE Start(c)
    BY <2>1, Zenon DEF Start, Alone
  <2>2. CASE StartGossiping(c) \/ StartPubSub(c)
    <3>1. stopped' = stopped /\ overlapped' = overlapped
      BY <2>2 DEF StartGossiping, StartPubSub
    <3>. QED  BY <3>1, Zenon DEF Alone
  <2>. QED  BY <1>1, <2>1, <2>2
<1>2. ASSUME NEW t \in Loops, GossipLoop(t)  PROVE Alone
  BY <1>2 DEF GossipLoop, LoopChecks, GetMembers, ReplaceMembers, StoreOwnState, MapsCollide,
         gossiper, Alone
<1>3. ~Shutdown
  BY DEF Shutdown, StopGossiping, Alone
<1>4. ASSUME HandleGossipUpdate \/ ShutdownThrows \/ HandlersReturn \/ UNCHANGED vars  PROVE Alone
  <2>1. stopped' = stopped /\ overlapped' = overlapped
    <3>1. CASE HandleGossipUpdate
      BY <3>1 DEF HandleGossipUpdate, UpdateTopology, vars, gossiper
    <3>2. CASE ShutdownThrows \/ HandlersReturn \/ UNCHANGED vars
      BY <3>2 DEF ShutdownThrows, HandlersReturn, vars, gossiper
    <3>. QED  BY <1>4, <3>1, <3>2
  <2>. QED  BY <2>1, Zenon DEF Alone
<1>. QED  BY <1>1, <1>2, <1>3, <1>4 DEF Next

(* What a step does while the gossip has neither been stopped nor started   *)
(* twice at a time.                                                         *)
LEMMA AloneStep ==
    ASSUME ClusterType, AloneInv, [Next]_vars, Alone'
    PROVE  OneStart' /\ OneLoop' /\ ~crashed' /\ seq' >= seq /\ own' >= own
<1>1. Alone /\ ~Shutdown
  BY AloneBefore
<1>2. OneStart /\ OneLoop /\ ~crashed /\ seq >= seq /\ own >= own
  BY <1>1, ClusterAssumption DEF AloneInv, ClusterType
<1>3. ASSUME NEW c \in Starters, Start(c) \/ StartPubSub(c)
      PROVE  OneStart' /\ OneLoop' /\ ~crashed' /\ seq' >= seq /\ own' >= own
  <2>1. UNCHANGED <<seq, own, crashed>>
    BY <1>3 DEF Start, StartPubSub, informer
  <2>. QED  BY <1>2, <1>3, <2>1, StartAlone
<1>4. ASSUME NEW c \in Starters, StartGossiping(c)
      PROVE  OneStart' /\ OneLoop' /\ ~crashed' /\ seq' >= seq /\ own' >= own
  <2>1. UNCHANGED <<seq, own, crashed>>
    BY <1>4 DEF StartGossiping, informer
  <2>. QED  BY <1>2, <1>4, <2>1, FirstLoop
<1>5. ASSUME NEW t \in Loops, GossipLoop(t)
      PROVE  OneStart' /\ OneLoop' /\ ~crashed' /\ seq' >= seq /\ own' >= own
  BY <1>2, <1>5, OnlyLoop
<1>6. CASE UNCHANGED <<running, starting, started, stopped, overlapped, loop, seq, own, crashed>>
  BY <1>2, <1>6 DEF OneStart, OneLoop
<1>. QED  BY <1>1, <1>3, <1>4, <1>5, <1>6, OtherStep

(* As long as the gossip is not stopped and calls of Start do not overlap,  *)
(* the unlocked Informer has one writer: the process survives and the       *)
(* node's own sequence number never goes back, however many calls of Start  *)
(* and Shutdown, topologies and handlers come between.                      *)
THEOREM InformerHasOneWriter == Spec => OneWriter
<1>. DEFINE Inv == ClusterType /\ AloneInv
<1>1. Init => Inv
  <2>. SUFFICES ASSUME Init  PROVE ClusterType /\ AloneInv
    OBVIOUS
  <2>. USE DEF Init, GossiperNew, InformerNew, MemberListNew
  <2>1. Thread("none", {}, 0) \in LoopThreads /\ Thread("none", {}, 0).at = "none"
    BY ClusterAssumption DEF Thread, LoopThreads
  <2>2. ClusterType
    <3>1. running \in BOOLEAN /\ members \in SUBSET Others
      OBVIOUS
    <3>2. seq \in 0..MaxSeq /\ own \in 0..MaxSeq /\ started \in Nat
      BY ClusterAssumption
    <3>3. loop \in [Loops -> LoopThreads] /\ starting \in [Starters -> {"out", "store", "pubsub"}]
      BY <2>1
    <3>. QED  BY <3>1, <3>2, <3>3 DEF ClusterType
  <2>3. OneStart /\ ~crashed
    BY DEF OneStart
  <2>4. OneLoop
    BY <2>1 DEF OneLoop
  <2>. QED  BY <2>2, <2>3, <2>4 DEF AloneInv
<1>2. Inv /\ [Next]_vars => Inv'
  BY NextType, AloneStep DEF AloneInv
<1>3. Inv /\ [Next]_vars
        => [stopped' \/ overlapped' \/ (~crashed' /\ seq' >= seq /\ own' >= own)]_vars
  BY AloneStep DEF Alone
<1>. QED  BY <1>1, <1>2, <1>3, PTL DEF Spec, OneWriter
=============================================================================
