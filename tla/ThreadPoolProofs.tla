-------------------------- MODULE ThreadPoolProofs --------------------------
(***************************************************************************)
(* Machine-checked proofs about ThreadPool, for any number of workers,     *)
(* clients and tasks.                                                      *)
(***************************************************************************)
EXTENDS ThreadPool, FiniteSetTheorems, SequenceTheorems, TLAPS

(* The queue continues the numbers of the started tasks, up to the last one *)
(* accepted; ShutdownNow is a stop.                                         *)
OrderInv ==
    /\ stopNow => stop
    /\ \A i \in 1..Len(started) : started[i] = i
    /\ \A j \in 1..Len(queue) : queue[j] = Len(started) + j
    /\ Len(started) + Len(queue) <= accepted
    /\ ~stopNow => Len(started) + Len(queue) = accepted

(* A worker leaves its loop only from an empty queue that no task can join, *)
(* a started task is finished or in the hands of a worker, and the joins    *)
(* return when every worker has left.                                       *)
DrainInv ==
    /\ \A w \in Workers : worker[w].at = "exited" => stop /\ queue = <<>>
    /\ \A i \in 1..Len(started) :
          \/ started[i] \in finished
          \/ \E w \in Workers : worker[w].at = "run" /\ worker[w].task = started[i]
    /\ (\E c \in Clients : client[c] = "joined")
          => \A w \in Workers : worker[w].at = "exited"

(* A running worker runs a task.                                            *)
RunInv == \A w \in Workers : worker[w].at = "run" => worker[w].task \in Tasks

PoolInv == TypeOK /\ RunInv /\ OrderInv /\ NoTaskSleeps /\ DrainInv

-----------------------------------------------------------------------------
(* Types                                                                    *)

(* Both notifications leave every worker in a place of WorkerLoop.          *)
LEMMA NotifyType ==
    ASSUME TypeOK, NotifyOne \/ NotifyAll
    PROVE  worker' \in [Workers -> [at : {"test", "wait", "run", "exited"}, task : 0..MaxTasks]]
<1>1. Place("test") \in [at : {"test", "wait", "run", "exited"}, task : 0..MaxTasks]
  BY PoolAssumption DEF Place
<1>2. CASE NotifyOne
  BY <1>1, <1>2 DEF NotifyOne, TypeOK, At
<1>3. CASE NotifyAll
  BY <1>1, <1>3 DEF NotifyAll, TypeOK
<1>. QED  BY <1>2, <1>3

(* Every step preserves the types.                                          *)
LEMMA NextType == TypeOK /\ RunInv /\ [Next]_vars => TypeOK'
<1>. SUFFICES ASSUME TypeOK, RunInv, [Next]_vars PROVE TypeOK'
  OBVIOUS
<1>a. queue \in Seq(Tasks) /\ started \in Seq(Tasks)
  BY DEF TypeOK
<1>b. \A place \in {"test", "wait", "run", "exited"} :
         Place(place) \in [at : {"test", "wait", "run", "exited"}, task : 0..MaxTasks]
  BY PoolAssumption DEF Place
<1>1. CASE Submit
  <2>1. accepted + 1 \in Tasks /\ accepted' \in 0..MaxTasks
    BY <1>1, PoolAssumption DEF Submit, TypeOK, Tasks
  <2>2. queue' \in Seq(Tasks)
    BY <1>1, <1>a, <2>1 DEF Submit
  <2>. QED  BY <1>1, <2>1, <2>2, NotifyType DEF Submit, TypeOK
<1>2. ASSUME NEW c \in Clients, NEW call \in {"Shutdown", "ShutdownNow"}, Stop(c, call)
      PROVE  TypeOK'
  <2>1. worker' \in [Workers -> [at : {"test", "wait", "run", "exited"}, task : 0..MaxTasks]]
    BY <1>2, NotifyType DEF Stop, TypeOK
  <2>2. queue' = queue \/ queue' = <<>>
    BY <1>2 DEF Stop
  <2>3. client' \in [Clients -> {"idle", "late", "join", "joined"}]
    BY <1>2 DEF Stop, TypeOK
  <2>4. queue' \in Seq(Tasks)
    BY <1>a, <2>2, EmptySeq
  <2>5. stop' \in BOOLEAN /\ stopNow' \in BOOLEAN
    BY <1>2 DEF Stop, TypeOK
  <2>. QED  BY <1>2, <2>1, <2>3, <2>4, <2>5 DEF Stop, TypeOK
<1>3. ASSUME NEW c \in Clients, Join(c) PROVE TypeOK'
  BY <1>3 DEF Join, TypeOK
<1>4. ASSUME NEW w \in Workers, Fetch(w) PROVE TypeOK'
  <2>1. CASE queue # <<>>
    <3>1. Head(queue) \in Tasks /\ Tail(queue) \in Seq(Tasks)
      BY <1>a, <2>1
    <3>2. [at |-> "run", task |-> Head(queue)]
             \in [at : {"test", "wait", "run", "exited"}, task : 0..MaxTasks]
      BY <3>1 DEF Tasks
    <3>3. started' = Append(started, Head(queue)) /\ queue' = Tail(queue)
      BY <1>4, <2>1 DEF Fetch
    <3>4. started' \in Seq(Tasks) /\ queue' \in Seq(Tasks)
      BY <1>a, <3>1, <3>3
    <3>. QED  BY <1>4, <2>1, <3>2, <3>4 DEF Fetch, TypeOK
  <2>2. CASE queue = <<>>
    BY <1>4, <1>b, <2>2 DEF Fetch, TypeOK
  <2>. QED  BY <2>1, <2>2
<1>5. ASSUME NEW w \in Workers, SpuriousWakeup(w) PROVE TypeOK'
  BY <1>5, <1>b DEF SpuriousWakeup, TypeOK
<1>6. ASSUME NEW w \in Workers, EndTask(w) PROVE TypeOK'
  BY <1>6, <1>b DEF EndTask, TypeOK, RunInv
<1>7. CASE UNCHANGED vars
  BY <1>7 DEF vars, TypeOK
<1>. QED
  BY <1>1, <1>2, <1>3, <1>4, <1>5, <1>6, <1>7 DEF Next, Shutdown, ShutdownNow

(* A worker runs only what it took from the queue.                          *)
LEMMA NextRun == TypeOK /\ RunInv /\ [Next]_vars => RunInv'
<1>. SUFFICES ASSUME TypeOK, RunInv, [Next]_vars PROVE RunInv'
  OBVIOUS
<1>1. ASSUME NotifyOne \/ NotifyAll PROVE RunInv'
  BY <1>1 DEF NotifyOne, NotifyAll, RunInv, TypeOK, At, Place
<1>2. ASSUME NEW w \in Workers, Fetch(w) PROVE RunInv'
  <2>1. queue # <<>> => Head(queue) \in Tasks
    BY DEF TypeOK
  <2>2. \A v \in Workers : v # w => worker'[v] = worker[v]
    BY <1>2 DEF Fetch, TypeOK
  <2>3. CASE queue # <<>>
    <3>1. worker'[w] = [at |-> "run", task |-> Head(queue)]
      BY <1>2, <2>3 DEF Fetch, TypeOK
    <3>. QED  BY <2>1, <2>2, <2>3, <3>1 DEF RunInv
  <2>4. CASE queue = <<>>
    <3>1. worker'[w] = Place(IF stop THEN "exited" ELSE "wait")
      BY <1>2, <2>4 DEF Fetch, TypeOK
    <3>2. worker'[w].at # "run"
      BY <3>1 DEF Place
    <3>. QED  BY <2>2, <3>2 DEF RunInv
  <2>. QED  BY <2>3, <2>4
<1>3. ASSUME NEW w \in Workers, SpuriousWakeup(w) \/ EndTask(w) PROVE RunInv'
  <2>1. worker' = [worker EXCEPT ![w] = Place("test")]
    BY <1>3 DEF SpuriousWakeup, EndTask
  <2>2. worker'[w] = Place("test") /\ \A v \in Workers : v # w => worker'[v] = worker[v]
    BY <2>1 DEF TypeOK
  <2>3. worker'[w].at # "run"
    BY <2>2 DEF Place
  <2>. QED  BY <2>2, <2>3 DEF RunInv
<1>4. ASSUME UNCHANGED worker PROVE RunInv'
  BY <1>4 DEF RunInv
<1>. QED
  BY <1>1, <1>2, <1>3, <1>4
  DEF Next, Submit, Shutdown, ShutdownNow, Stop, Join, vars

-----------------------------------------------------------------------------
(* Order                                                                    *)

(* Taking the head of the queue moves the border between started and        *)
(* waiting tasks by one; no other step renumbers a task.                    *)
LEMMA NextOrder == TypeOK /\ OrderInv /\ [Next]_vars => OrderInv'
<1>. SUFFICES ASSUME TypeOK, OrderInv, [Next]_vars PROVE OrderInv'
  OBVIOUS
<1>a. /\ queue \in Seq(Tasks) /\ started \in Seq(Tasks)
      /\ Len(queue) \in Nat /\ Len(started) \in Nat /\ accepted \in Nat
      /\ Tasks \subseteq Nat
  BY DEF TypeOK, Tasks
<1>1. CASE Submit
  <2>1. queue' = Append(queue, accepted + 1)
    BY <1>1 DEF Submit
  <2>2. Len(queue') = Len(queue) + 1
    BY <1>a, <2>1
  <2>3. \A j \in 1..Len(queue) : queue'[j] = queue[j]
    BY <1>a, <2>1
  <2>4. queue'[Len(queue) + 1] = accepted + 1
    BY <1>a, <2>1
  <2>5. Len(started) + Len(queue) = accepted
    BY <1>1 DEF Submit, OrderInv
  <2>6. ASSUME NEW j \in 1..Len(queue') PROVE queue'[j] = Len(started) + j
    <3>1. CASE j \in 1..Len(queue)
      BY <2>3, <3>1 DEF OrderInv
    <3>2. CASE j = Len(queue) + 1
      BY <1>a, <2>4, <2>5, <3>2
    <3>. QED  BY <1>a, <2>2, <3>1, <3>2
  <2>. QED  BY <1>1, <1>a, <2>2, <2>5, <2>6 DEF Submit, OrderInv
<1>2. ASSUME NEW c \in Clients, NEW call \in {"Shutdown", "ShutdownNow"}, Stop(c, call)
      PROVE  OrderInv'
  <2>1. CASE UNCHANGED <<queue, stop, stopNow>>
    BY <1>2, <2>1 DEF Stop, OrderInv
  <2>2. CASE stop' = TRUE /\ stopNow' = TRUE /\ queue' = <<>>
    BY <1>2, <1>a, <2>2 DEF Stop, OrderInv
  <2>3. CASE stop' = TRUE /\ stopNow' = FALSE /\ queue' = queue /\ ~stop
    BY <1>2, <2>3 DEF Stop, OrderInv
  <2>. QED  BY <1>2, <2>1, <2>2, <2>3 DEF Stop
<1>3. ASSUME NEW w \in Workers, Fetch(w), queue # <<>> PROVE OrderInv'
  <2>1. started' = Append(started, Head(queue)) /\ queue' = Tail(queue)
    BY <1>3 DEF Fetch
  <2>2. Head(queue) = Len(started) + 1 /\ Len(queue) > 0
    BY <1>a, <1>3 DEF OrderInv
  <2>3. Len(queue') = Len(queue) - 1 /\ \A j \in 1..Len(queue') : queue'[j] = queue[j + 1]
    BY <1>a, <1>3, <2>1
  <2>4. Head(queue) \in Tasks
    BY <1>a, <1>3
  <2>5. /\ Len(started') = Len(started) + 1
        /\ \A i \in 1..Len(started) : started'[i] = started[i]
        /\ started'[Len(started) + 1] = Head(queue)
    BY <1>a, <2>1, <2>4
  <2>6. \A i \in 1..Len(started') : started'[i] = i
    BY <1>a, <2>2, <2>5 DEF OrderInv
  <2>7. \A j \in 1..Len(queue') : queue'[j] = Len(started') + j
    BY <1>a, <2>3, <2>5 DEF OrderInv
  <2>8. Len(started') + Len(queue') = Len(started) + Len(queue)
    BY <1>a, <2>2, <2>3, <2>5
  <2>. QED  BY <1>3, <2>6, <2>7, <2>8 DEF Fetch, OrderInv
<1>4. ASSUME UNCHANGED <<queue, started, stop, stopNow, accepted>> PROVE OrderInv'
  BY <1>4 DEF OrderInv
<1>. QED
  BY <1>1, <1>2, <1>3, <1>4
  DEF Next, Shutdown, ShutdownNow, Join, Fetch, SpuriousWakeup, EndTask, vars

(* The numbering of OrderInv is the order StartedInOrder speaks of.         *)
LEMMA OrderImplies == TypeOK /\ OrderInv => StartedInOrder
<1>. SUFFICES ASSUME TypeOK, OrderInv PROVE StartedInOrder
  OBVIOUS
<1>. DEFINE known == started \o queue
<1>1. /\ queue \in Seq(Tasks) /\ started \in Seq(Tasks)
      /\ Len(queue) \in Nat /\ Len(started) \in Nat
  BY DEF TypeOK
<1>2. Len(known) = Len(started) + Len(queue)
  BY <1>1
<1>3. \A i \in 1..Len(known) :
         known[i] = IF i <= Len(started) THEN started[i] ELSE queue[i - Len(started)]
  BY <1>1, ConcatProperties
<1>4. ASSUME NEW i \in 1..Len(known) PROVE known[i] = i
  <2>1. CASE i <= Len(started)
    BY <1>1, <1>2, <1>3, <2>1 DEF OrderInv
  <2>2. CASE i > Len(started)
    BY <1>1, <1>2, <1>3, <2>2 DEF OrderInv
  <2>. QED  BY <1>1, <1>2, <2>1, <2>2
<1>. QED  BY <1>2, <1>4 DEF StartedInOrder, OrderInv

-----------------------------------------------------------------------------
(* Wakeups                                                                  *)

(* The workers at a place are finitely many.                                *)
LEMMA AtFinite ==
    ASSUME NEW place
    PROVE  /\ IsFiniteSet(At(place)) /\ Cardinality(At(place)) \in Nat
           /\ IsFiniteSet(At(place)') /\ Cardinality(At(place)') \in Nat
<1>1. At(place) \in SUBSET Workers /\ At(place)' \in SUBSET Workers
  BY DEF At
<1>2. IsFiniteSet(At(place)) /\ IsFiniteSet(At(place)')
  BY <1>1, FS_Subset, PoolAssumption
<1>. QED  BY <1>2, FS_CardinalityType

(* Every task that is put into the queue while a worker sleeps wakes one,   *)
(* every task that is taken uses up one awake worker, and a worker falls    *)
(* asleep only at an empty queue.                                           *)
LEMMA NextSleep == TypeOK /\ NoTaskSleeps /\ [Next]_vars => NoTaskSleeps'
<1>. SUFFICES ASSUME TypeOK, NoTaskSleeps, [Next]_vars, At("wait")' # {}
              PROVE  Len(queue') <= Cardinality(At("test")')
  BY DEF NoTaskSleeps
<1>a. /\ queue \in Seq(Tasks) /\ Len(queue) \in Nat
      /\ IsFiniteSet(At("test")) /\ Cardinality(At("test")) \in Nat
      /\ IsFiniteSet(At("test")') /\ Cardinality(At("test")') \in Nat
  BY AtFinite DEF TypeOK
<1>b. accepted \in Nat
  BY DEF TypeOK
(* More awake workers and no longer queue.                                  *)
<1>c. ASSUME At("wait")' \subseteq At("wait"), At("test") \subseteq At("test")', queue' = queue
      PROVE  Len(queue') <= Cardinality(At("test")')
  <2>1. Cardinality(At("test")) <= Cardinality(At("test")')
    BY <1>a, <1>c, FS_Subset
  <2>2. Len(queue) <= Cardinality(At("test"))
    BY <1>c DEF NoTaskSleeps
  <2>. QED  BY <1>a, <1>c, <2>1, <2>2
<1>1. CASE Submit
  <2>1. Len(queue') = Len(queue) + 1
    BY <1>1, <1>a, <1>b, AppendProperties DEF Submit
  <2>2. At("wait") # {}
    BY <1>1 DEF Submit, NotifyOne, At
  <2>3. PICK w \in At("wait") : worker' = [worker EXCEPT ![w] = Place("test")]
    BY <1>1, <2>2 DEF Submit, NotifyOne
  <2>4. At("test")' = At("test") \cup {w} /\ w \notin At("test")
    BY <2>3 DEF At, Place, TypeOK
  <2>5. Cardinality(At("test")') = Cardinality(At("test")) + 1
    BY <1>a, <2>4, FS_AddElement
  <2>. QED  BY <1>a, <2>1, <2>2, <2>5 DEF NoTaskSleeps
<1>2. ASSUME NEW c \in Clients, NEW call \in {"Shutdown", "ShutdownNow"}, Stop(c, call)
      PROVE  Len(queue') <= Cardinality(At("test")')
  <2>1. CASE UNCHANGED <<queue, worker>>
    BY <1>c, <2>1 DEF At
  <2>2. CASE NotifyAll
    <3>1. At("wait")' = {}
      BY <2>2 DEF NotifyAll, At, Place
    <3>. QED  BY <3>1
  <2>. QED  BY <1>2, <2>1, <2>2 DEF Stop
<1>3. ASSUME NEW w \in Workers, Fetch(w), queue # <<>>
      PROVE  Len(queue') <= Cardinality(At("test")')
  <2>1. Len(queue') = Len(queue) - 1
    BY <1>3, <1>a DEF Fetch
  <2>a. /\ worker[w].at = "test" /\ worker'[w].at = "run"
        /\ \A v \in Workers : v # w => worker'[v] = worker[v]
    BY <1>3 DEF Fetch, TypeOK
  <2>2. /\ At("test")' = At("test") \ {w} /\ w \in At("test")
        /\ At("wait")' = At("wait")
    BY <2>a DEF At
  <2>3. Cardinality(At("test")') = Cardinality(At("test")) - 1
    BY <1>a, <2>2, FS_RemoveElement
  <2>. QED  BY <1>a, <2>1, <2>2, <2>3 DEF NoTaskSleeps
<1>4. ASSUME NEW w \in Workers, Fetch(w), queue = <<>>
      PROVE  Len(queue') <= Cardinality(At("test")')
  BY <1>4, <1>a DEF Fetch
<1>5. ASSUME NEW w \in Workers, SpuriousWakeup(w) \/ EndTask(w)
      PROVE  Len(queue') <= Cardinality(At("test")')
  <2>1. /\ worker'[w].at = "test"
        /\ \A v \in Workers : v # w => worker'[v] = worker[v]
    BY <1>5 DEF SpuriousWakeup, EndTask, Place, TypeOK
  <2>2. At("wait")' \subseteq At("wait") /\ At("test") \subseteq At("test")'
    BY <2>1 DEF At
  <2>. QED  BY <1>5, <1>c, <2>2 DEF SpuriousWakeup, EndTask
<1>6. ASSUME UNCHANGED <<queue, worker>>
      PROVE  Len(queue') <= Cardinality(At("test")')
  BY <1>6, <1>c DEF At
<1>. QED
  BY <1>1, <1>2, <1>3, <1>4, <1>5, <1>6 DEF Next, Shutdown, ShutdownNow, Join, vars

-----------------------------------------------------------------------------
(* Stops                                                                    *)

(* No step takes a worker back that has left, adds a task after a worker    *)
(* has left, or forgets a task that was started.                            *)
LEMMA NextDrain == TypeOK /\ DrainInv /\ [Next]_vars => DrainInv'
<1>. SUFFICES ASSUME TypeOK, DrainInv, [Next]_vars PROVE DrainInv'
  OBVIOUS
<1>a. /\ queue \in Seq(Tasks) /\ started \in Seq(Tasks) /\ Len(started) \in Nat
  BY DEF TypeOK
(* Waking workers disturbs nothing.                                         *)
<1>b. ASSUME NotifyOne \/ NotifyAll
      PROVE  \A w \in Workers :
                /\ worker'[w].at = "exited" <=> worker[w].at = "exited"
                /\ worker[w].at = "run" => worker'[w] = worker[w]
  BY <1>b DEF NotifyOne, NotifyAll, At, Place, TypeOK
<1>1. CASE Submit
  <2>1. \A w \in Workers : worker[w].at # "exited"
    BY <1>1 DEF Submit, DrainInv
  <2>2. \A c \in Clients : client'[c] # "joined"
    BY <1>1, <2>1, PoolAssumption DEF Submit, DrainInv
  <2>. QED  BY <1>1, <1>b, <2>1, <2>2 DEF Submit, DrainInv
<1>2. ASSUME NEW c \in Clients, NEW call \in {"Shutdown", "ShutdownNow"}, Stop(c, call)
      PROVE  DrainInv'
  <2>1. \A d \in Clients : client'[d] = "joined" => client[d] = "joined"
    BY <1>2 DEF Stop, TypeOK
  <2>2. CASE UNCHANGED <<queue, stop, worker>>
    BY <1>2, <2>1, <2>2 DEF Stop, DrainInv
  <2>3. CASE ~stop /\ stop' /\ NotifyAll
    <3>1. \A w \in Workers : worker[w].at # "exited"
      BY <2>3 DEF DrainInv
    <3>2. \A d \in Clients : client'[d] # "joined"
      BY <2>1, <3>1, PoolAssumption DEF DrainInv
    <3>. QED  BY <1>2, <1>b, <2>3, <3>1, <3>2 DEF Stop, DrainInv
  <2>. QED  BY <1>2, <2>2, <2>3 DEF Stop
<1>3. ASSUME NEW c \in Clients, Join(c) PROVE DrainInv'
  BY <1>3 DEF Join, DrainInv, At
<1>4. ASSUME NEW w \in Workers, Fetch(w), queue # <<>> PROVE DrainInv'
  <2>1. \A v \in Workers : worker[v].at # "exited"
    BY <1>4 DEF DrainInv
  <2>2. \A d \in Clients : client'[d] # "joined"
    BY <1>4, <2>1, PoolAssumption DEF Fetch, DrainInv
  <2>3. /\ worker' = [worker EXCEPT ![w] = [at |-> "run", task |-> Head(queue)]]
        /\ started' = Append(started, Head(queue))
        /\ finished' = finished
        /\ worker[w].at = "test"
    BY <1>4 DEF Fetch
  <2>4. /\ worker'[w].at = "run" /\ worker'[w].task = Head(queue)
        /\ \A v \in Workers : v # w => worker'[v] = worker[v]
    BY <2>3 DEF TypeOK
  <2>5. \A v \in Workers : worker'[v].at # "exited"
    BY <2>1, <2>4
  <2>6. Head(queue) \in Tasks
    BY <1>4, <1>a
  <2>7. /\ Len(started') = Len(started) + 1
        /\ \A i \in 1..Len(started) : started'[i] = started[i]
        /\ started'[Len(started) + 1] = Head(queue)
    BY <1>a, <2>3, <2>6
  <2>8. ASSUME NEW i \in 1..Len(started')
        PROVE  \/ started'[i] \in finished'
               \/ \E v \in Workers : worker'[v].at = "run" /\ worker'[v].task = started'[i]
    <3>1. CASE i \in 1..Len(started)
      BY <2>3, <2>4, <2>7, <3>1 DEF DrainInv
    <3>2. CASE i = Len(started) + 1
      BY <2>4, <2>7, <3>2
    <3>. QED  BY <1>a, <2>7, <3>1, <3>2
  <2>. QED  BY <2>2, <2>5, <2>8 DEF DrainInv
<1>5. ASSUME NEW w \in Workers, Fetch(w), queue = <<>> PROVE DrainInv'
  <2>1. /\ worker' = [worker EXCEPT ![w] = Place(IF stop THEN "exited" ELSE "wait")]
        /\ worker[w].at = "test"
        /\ UNCHANGED <<queue, started, stop, client, finished>>
    BY <1>5 DEF Fetch
  <2>2. /\ worker'[w] = Place(IF stop THEN "exited" ELSE "wait")
        /\ \A v \in Workers : v # w => worker'[v] = worker[v]
    BY <2>1 DEF TypeOK
  <2>3. worker'[w].at # "run" /\ (worker'[w].at = "exited" => stop)
    BY <2>2 DEF Place
  <2>4. \A d \in Clients : client'[d] # "joined"
    BY <2>1 DEF DrainInv
  <2>5. \A v \in Workers : worker'[v].at = "exited" => stop' /\ queue' = <<>>
    BY <1>5, <2>1, <2>2, <2>3 DEF DrainInv
  <2>6. \A i \in 1..Len(started') :
           \/ started'[i] \in finished'
           \/ \E v \in Workers : worker'[v].at = "run" /\ worker'[v].task = started'[i]
    BY <2>1, <2>2 DEF DrainInv
  <2>. QED  BY <2>4, <2>5, <2>6 DEF DrainInv
<1>6. ASSUME NEW w \in Workers, SpuriousWakeup(w) PROVE DrainInv'
  BY <1>6 DEF SpuriousWakeup, DrainInv, TypeOK, Place
<1>7. ASSUME NEW w \in Workers, EndTask(w) PROVE DrainInv'
  <2>1. \A v \in Workers : v # w => worker'[v] = worker[v]
    BY <1>7 DEF EndTask, TypeOK
  <2>2. worker[w].at = "run" /\ worker'[w].at = "test" /\ finished' = finished \cup {worker[w].task}
    BY <1>7 DEF EndTask, TypeOK, Place
  <2>. QED  BY <1>7, <2>1, <2>2 DEF EndTask, DrainInv
<1>8. CASE UNCHANGED vars
  BY <1>8 DEF vars, DrainInv
<1>. QED
  BY <1>1, <1>2, <1>3, <1>4, <1>5, <1>6, <1>7, <1>8 DEF Next, Shutdown, ShutdownNow

(* All parts of the invariant together.                                     *)
LEMMA PoolInvariant == Spec => []PoolInv
<1>1. Init => PoolInv
  <2>. SUFFICES ASSUME Init PROVE PoolInv
    OBVIOUS
  <2>1. TypeOK
    <3>1. queue \in Seq(Tasks) /\ started \in Seq(Tasks)
      BY EmptySeq DEF Init
    <3>2. [at |-> "test", task |-> 0]
             \in [at : {"test", "wait", "run", "exited"}, task : 0..MaxTasks]
      BY PoolAssumption
    <3>3. 0 \in 0..MaxTasks
      BY PoolAssumption
    <3>4. worker \in [Workers -> [at : {"test", "wait", "run", "exited"}, task : 0..MaxTasks]]
      BY <3>2 DEF Init
    <3>. QED  BY <3>1, <3>3, <3>4 DEF Init, TypeOK
  <2>2. NoTaskSleeps
    BY DEF Init, NoTaskSleeps, At
  <2>. QED  BY <2>1, <2>2 DEF Init, PoolInv, RunInv, OrderInv, DrainInv
<1>2. PoolInv /\ [Next]_vars => PoolInv'
  BY NextType, NextRun, NextOrder, NextSleep, NextDrain DEF PoolInv
<1>. QED  BY <1>1, <1>2, PTL DEF Spec

(* Tasks are started in the order Submit accepted them, each once, and none *)
(* is lost but by ShutdownNow, whatever the workers and the stops do.       *)
THEOREM TasksInOrder == Spec => []StartedInOrder
BY PoolInvariant, OrderImplies, PTL DEF PoolInv

(* notify_one once per Submit is enough: no task waits for a worker that is *)
(* asleep on the condition variable, for any number of workers.             *)
THEOREM NoneSleepsOnATask == Spec => []NoTaskSleeps
BY PoolInvariant, PTL DEF PoolInv

(* The stop that joins the workers returns from a drained pool: nothing is  *)
(* in the queue and nothing that was started is still running.              *)
THEOREM StopDrains == Spec => []JoinedMeansDrained
<1>1. PoolInv => JoinedMeansDrained
  BY PoolAssumption DEF PoolInv, DrainInv, JoinedMeansDrained
<1>. QED  BY <1>1, PoolInvariant, PTL

-----------------------------------------------------------------------------
(* Refinement                                                               *)

(* Every step of the pool is a step of the task pool or one it does not see. *)
LEMMA PoolStep == ASSUME TypeOK, OrderInv, [Next]_vars PROVE [Pool!Next]_(Pool!vars)
<1>a. queue \in Seq(Tasks) /\ Len(queue) \in Nat /\ stop \in BOOLEAN /\ accepted \in Nat
  BY DEF TypeOK
<1>1. CASE Submit
  <2>1. Len(queue') = Len(queue) + 1
    BY <1>1, <1>a, AppendProperties DEF Submit
  <2>. QED  BY <1>1, <2>1 DEF Submit, Pool!Next, Pool!Submit
<1>2. ASSUME NEW c \in Clients, NEW call \in {"Shutdown", "ShutdownNow"}, Stop(c, call)
      PROVE  [Pool!Next]_(Pool!vars)
  <2>1. CASE UNCHANGED <<queue, stop>>
    BY <2>1 DEF Pool!vars
  <2>2. CASE ~stop /\ stop' /\ (queue' = <<>> \/ queue' = queue)
    <3>1. Len(queue') \in {0, Len(queue)}
      BY <2>2, EmptySeq
    <3>. QED  BY <2>2, <3>1 DEF Pool!Next, Pool!Stop
  <2>. QED  BY <1>2, <2>1, <2>2 DEF Stop
<1>3. ASSUME NEW w \in Workers, Fetch(w) PROVE [Pool!Next]_(Pool!vars)
  <2>1. CASE queue # <<>>
    <3>1. Len(queue) > 0 /\ Len(queue') = Len(queue) - 1 /\ stop' = stop
      BY <1>3, <1>a, <2>1 DEF Fetch
    <3>. QED  BY <3>1 DEF Pool!Next, Pool!Start
  <2>2. CASE queue = <<>>
    BY <1>3, <2>2 DEF Fetch, Pool!vars
  <2>. QED  BY <2>1, <2>2
<1>4. ASSUME UNCHANGED <<queue, stop>> PROVE [Pool!Next]_(Pool!vars)
  BY <1>4 DEF Pool!vars
<1>. QED
  BY <1>1, <1>2, <1>3, <1>4
  DEF Next, Shutdown, ShutdownNow, Join, SpuriousWakeup, EndTask, vars

(* The pool with its workers, its condition variable and its two stops is   *)
(* the task pool that Mailbox takes its dispatcher for.                     *)
THEOREM PoolImplements == Spec => PoolSpec
<1>1. Init => Pool!Init
  BY EmptySeq DEF Init, Pool!Init
<1>2. PoolInv /\ [Next]_vars => [Pool!Next]_(Pool!vars)
  BY PoolStep DEF PoolInv
<1>. QED  BY <1>1, <1>2, PoolInvariant, PTL DEF Spec, PoolSpec, Pool!Spec
=============================================================================
