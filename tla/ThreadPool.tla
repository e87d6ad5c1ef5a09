----------------------------- MODULE ThreadPool -----------------------------
(***************************************************************************)
(* The thread pool behind the default dispatcher (src/actor/               *)
(* thread_pool.cpp): a mutex, a condition variable, a queue and two stop   *)
(* flags.  A section under the mutex is one step; waiting on the condition *)
(* variable, being notified and testing the predicate again are separate.  *)
(* A task is abstracted to: it may submit other tasks, and it ends (an     *)
(* exception is caught by the worker, so it is no different from an end).  *)
(***************************************************************************)
EXTENDS Naturals, Sequences, FiniteSets

CONSTANTS
    Workers,   \* workers_
    Clients,   \* threads of the application that use the pool
    MaxTasks,  \* bound: tasks accepted in a behaviour
    Calls      \* the stops clients perform: "Shutdown", "ShutdownNow"

ASSUME PoolAssumption ==
    /\ Workers \cap Clients = {}
    /\ IsFiniteSet(Workers) /\ Workers # {}
    /\ MaxTasks \in Nat
    /\ Calls \subseteq {"Shutdown", "ShutdownNow"}

VARIABLES
    queue,     \* queue_
    stop,      \* stop_
    stopNow,   \* stop_now_
    worker,    \* where each worker is in WorkerLoop
    client,    \* where each client is in Shutdown or ShutdownNow
    accepted,  \* history: number of tasks accepted; the tasks are 1..accepted
    started,   \* history: tasks in the order workers took them
    finished   \* history: tasks that have ended

vars == <<queue, stop, stopNow, worker, client, accepted, started, finished>>

(* "test": on the way to the mutex and the predicate; "wait": in cv_.wait;   *)
(* a number: running that task.                                             *)
Tasks == 1..MaxTasks

Init ==
    /\ queue = <<>>
    /\ stop = FALSE
    /\ stopNow = FALSE
    /\ worker = [w \in Workers |-> [at |-> "test", task |-> 0]]
    /\ client = [c \in Clients |-> "idle"]
    /\ accepted = 0
    /\ started = <<>>
    /\ finished = {}

At(place) == {w \in Workers : worker[w].at = place}

Place(place) == [at |-> place, task |-> 0]

(* notify_one and notify_all: a notified worker tests the predicate again.  *)
NotifyOne ==
    IF At("wait") = {}
    THEN worker' = worker
    ELSE \E w \in At("wait") : worker' = [worker EXCEPT ![w] = Place("test")]

NotifyAll ==
    worker' = [w \in Workers |->
                  IF worker[w].at = "wait" THEN Place("test") ELSE worker[w]]

(* Mutant: the newest task comes first.                                     *)
SubmitFront ==
    /\ \/ \E c \in Clients : client[c] = "idle"
       \/ At("run") # {}
    /\ accepted < MaxTasks
    /\ ~stop /\ ~stopNow
    /\ accepted' = accepted + 1
    /\ queue' = <<accepted + 1>> \o queue
    /\ NotifyOne
    /\ UNCHANGED <<stop, stopNow, client, started, finished>>

(* Mutant: a stopped pool still accepts tasks.                              *)
SubmitAlways ==
    /\ \/ \E c \in Clients : client[c] = "idle"
       \/ At("run") # {}
    /\ accepted < MaxTasks
    /\ accepted' = accepted + 1
    /\ queue' = Append(queue, accepted + 1)
    /\ NotifyOne
    /\ UNCHANGED <<stop, stopNow, client, started, finished>>

(* Mutant: Submit notifies nobody.                                          *)
SubmitSilent ==
    /\ \/ \E c \in Clients : client[c] = "idle"
       \/ At("run") # {}
    /\ accepted < MaxTasks
    /\ ~stop /\ ~stopNow
    /\ accepted' = accepted + 1
    /\ queue' = Append(queue, accepted + 1)
    /\ UNCHANGED <<worker, stop, stopNow, client, started, finished>>

(* Submit, by a client or by a running task; a no-op after a stop.          *)
Submit ==
    /\ \/ \E c \in Clients : client[c] = "idle"
       \/ At("run") # {}
    /\ accepted < MaxTasks
    /\ ~stop /\ ~stopNow
    /\ accepted' = accepted + 1
    /\ queue' = Append(queue, accepted + 1)
    /\ NotifyOne
    /\ UNCHANGED <<stop, stopNow, client, started, finished>>

(* Mutant: only one worker is told of the stop.                             *)
StopNotifiesOne(c, call) ==
    /\ client[c] = "idle"
    /\ call \in Calls
    /\ IF stop
       THEN /\ client' = [client EXCEPT ![c] = "late"]
            /\ UNCHANGED <<queue, stop, stopNow, worker>>
       ELSE /\ stop' = TRUE
            /\ stopNow' = (call = "ShutdownNow")
            /\ queue' = IF call = "ShutdownNow" THEN <<>> ELSE queue
            /\ NotifyOne
            /\ client' = [client EXCEPT ![c] = "join"]
    /\ UNCHANGED <<accepted, started, finished>>

(* The section under the mutex of both stops: only the first stop counts,   *)
(* a later one returns at once.                                             *)
Stop(c, call) ==
    /\ client[c] = "idle"
    /\ call \in Calls
    /\ IF stop
       THEN /\ client' = [client EXCEPT ![c] = "late"]
            /\ UNCHANGED <<queue, stop, stopNow, worker>>
       ELSE /\ stop' = TRUE
            /\ stopNow' = (call = "ShutdownNow")
            /\ queue' = IF call = "ShutdownNow" THEN <<>> ELSE queue
            /\ NotifyAll
            /\ client' = [client EXCEPT ![c] = "join"]
    /\ UNCHANGED <<accepted, started, finished>>

Shutdown(c) == Stop(c, "Shutdown")

ShutdownNow(c) == Stop(c, "ShutdownNow")

(* The joins of the first stop return when every worker has left its loop.  *)
Join(c) ==
    /\ client[c] = "join"
    /\ At("exited") = Workers
    /\ client' = [client EXCEPT ![c] = "joined"]
    /\ UNCHANGED <<queue, stop, stopNow, worker, accepted, started, finished>>

(* Mutant: the stop flag is looked at before the queue.                     *)
FetchStopFirst(w) ==
    /\ worker[w].at = "test"
    /\ IF ~stop /\ queue # <<>>
       THEN /\ worker' = [worker EXCEPT ![w] = [at |-> "run", task |-> Head(queue)]]
            /\ queue' = Tail(queue)
            /\ started' = Append(started, Head(queue))
       ELSE /\ worker' = [worker EXCEPT ![w] = Place(IF stop THEN "exited" ELSE "wait")]
            /\ UNCHANGED <<queue, started>>
    /\ UNCHANGED <<stop, stopNow, client, accepted, finished>>

(* WorkerLoop under the mutex: wait, leave, or take the first task.         *)
Fetch(w) ==
    /\ worker[w].at = "test"
    /\ IF queue # <<>>
       THEN /\ worker' = [worker EXCEPT ![w] = [at |-> "run", task |-> Head(queue)]]
            /\ queue' = Tail(queue)
            /\ started' = Append(started, Head(queue))
       ELSE /\ worker' = [worker EXCEPT ![w] = Place(IF stop THEN "exited" ELSE "wait")]
            /\ UNCHANGED <<queue, started>>
    /\ UNCHANGED <<stop, stopNow, client, accepted, finished>>

(* The condition variable may return without a notification.                *)
SpuriousWakeup(w) ==
    /\ worker[w].at = "wait"
    /\ worker' = [worker EXCEPT ![w] = Place("test")]
    /\ UNCHANGED <<queue, stop, stopNow, client, accepted, started, finished>>

(* The task returns or its exception is caught.                             *)
EndTask(w) ==
    /\ worker[w].at = "run"
    /\ finished' = finished \cup {worker[w].task}
    /\ worker' = [worker EXCEPT ![w] = Place("test")]
    /\ UNCHANGED <<queue, stop, stopNow, client, accepted, started>>

Next ==
    \/ Submit
    \/ \E c \in Clients : Shutdown(c)
    \/ \E c \in Clients : ShutdownNow(c)
    \/ \E c \in Clients : Join(c)
    \/ \E w \in Workers : Fetch(w)
    \/ \E w \in Workers : SpuriousWakeup(w)
    \/ \E w \in Workers : EndTask(w)

Spec == Init /\ [][Next]_vars

(* Workers are scheduled, tasks end, a finished join is noticed.            *)
FairSpec ==
    /\ Spec
    /\ \A w \in Workers : WF_vars(Fetch(w)) /\ WF_vars(EndTask(w))
    /\ \A c \in Clients : WF_vars(Join(c))

-----------------------------------------------------------------------------
(* Properties                                                               *)

TypeOK ==
    /\ queue \in Seq(Tasks)
    /\ stop \in BOOLEAN
    /\ stopNow \in BOOLEAN
    /\ worker \in [Workers -> [at : {"test", "wait", "run", "exited"}, task : 0..MaxTasks]]
    /\ client \in [Clients -> {"idle", "late", "join", "joined"}]
    /\ accepted \in 0..MaxTasks
    /\ started \in Seq(Tasks)
    /\ finished \in SUBSET Tasks

Running == {worker[w].task : w \in At("run")}

(* Tasks are started in the order they were accepted, each once, and every  *)
(* accepted task is started, waiting, or was discarded by ShutdownNow.      *)
StartedInOrder ==
    LET known == started \o queue
    IN  /\ \A i \in 1..Len(known) : known[i] = i
        /\ ~stopNow => Len(known) = accepted

(* A sleeping worker is never needed: while some worker waits, every task   *)
(* in the queue has an awake worker on its way to it, also with spurious    *)
(* wakeups and workers that take a task another one was woken for.          *)
NoTaskSleeps == At("wait") # {} => Len(queue) <= Cardinality(At("test"))

(* When the stop that joins the workers returns, every task that was        *)
(* accepted and not discarded has run to its end.                           *)
JoinedMeansDrained ==
    (\E c \in Clients : client[c] = "joined")
        => queue = <<>> /\ \A i \in 1..Len(started) : started[i] \in finished

(* Every accepted task runs to its end, unless ShutdownNow discards it.     *)
EveryTaskRuns == \A i \in Tasks : (accepted >= i) ~> (i \in finished \/ stopNow)

(* A stop returns: its joins do not wait for a worker that sleeps.          *)
StopReturns == \A c \in Clients : (client[c] = "join") ~> (client[c] = "joined")

(* The pool is the task pool its users assume.                              *)
Pool == INSTANCE TaskPool WITH tasks <- Len(queue), open <- ~stop

PoolSpec == Pool!Spec

=============================================================================
