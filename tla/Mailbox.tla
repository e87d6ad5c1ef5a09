------------------------------ MODULE Mailbox ------------------------------
(***************************************************************************)
(* The default mailbox (src/actor/mailbox.cpp) under a dispatcher          *)
(* (src/actor/dispatcher.cpp): two queues, two message counters and the    *)
(* scheduler status that decides which thread, if any, runs                *)
(* ProcessMessages.  Every atomic access of the code is a step of its own. *)
(* What happens inside a handler is abstracted to: it may post to its own  *)
(* mailbox, it returns, or it throws.                                      *)
(***************************************************************************)
EXTENDS Integers, Sequences, FiniteSets

CONSTANTS
    Producers,     \* threads of the application that send to the actor
    Workers,       \* threads of the pool behind DefaultDispatcherImpl
    Dispatchers,   \* DefaultDispatcherImpl ("pool"), SynchronizedDispatcherImpl ("inline")
    TSO,           \* TRUE if a store may be delayed past later loads
    Throughput,    \* Dispatcher::Throughput()
    MaxRounds,     \* max_rounds of ProcessMessages (1000 in the code)
    MaxPosts,      \* bound: messages posted in a behaviour
    MaxThrows,     \* bound: handlers that end with an exception
    PoolStops,     \* the stops of the pool the application performs
    None           \* no message

Threads == Producers \cup Workers
Kinds == {"user", "sys"}
Messages == [kind : Kinds, id : 1..MaxPosts]

ASSUME MailboxAssumption ==
    /\ Producers \cap Workers = {}
    /\ IsFiniteSet(Producers) /\ IsFiniteSet(Workers)
    /\ Dispatchers \subseteq {"pool", "inline"}
    /\ TSO \in BOOLEAN
    /\ Throughput \in Nat
    /\ MaxRounds \in Nat \ {0}
    /\ MaxPosts \in Nat
    /\ MaxThrows \in Nat
    /\ PoolStops \subseteq {"Shutdown", "ShutdownNow"}
    /\ None \notin Messages

VARIABLES
    status,   \* scheduler_status_
    counter,  \* user_messages_ and sys_messages_
    queue,    \* user_mailbox_ and system_mailbox_
    tasks,    \* ProcessMessages tasks waiting in the pool
    dispatcher, \* dispatcher_; "stopped" if its pool accepts no tasks any more
    pc,       \* where each thread is
    posting,  \* kind of the message a thread is posting
    resume,   \* where a posting thread continues: "off" or in its "handler"
    cur,      \* the message a thread has popped and not finished
    iter,     \* i of ProcessLoop
    round,    \* round of ProcessMessages
    buffer,   \* the thread's store of IDLE is not yet visible to others
    throws,   \* handlers that have thrown so far
    lost,     \* history: how the mailbox was left RUNNING with nobody to run it
    posted,   \* history: messages of each kind in the order of their Push
    done,     \* history: messages of each kind in the order they were finished
    overtaken \* history: system messages some user message was popped ahead of

shared == <<status, counter, queue, tasks, dispatcher>>
local == <<pc, posting, resume, cur, iter, round, buffer>>
history == <<posted, done, overtaken>>
vars == <<shared, local, throws, lost, history>>

(* The places of a thread.  "nested" would be a ProcessMessages called      *)
(* inside the handler of the same thread.                                   *)
PostPlaces == {"count", "schedule", "dispatch"}
RunPlaces == {"loop", "popUser", "sub", "handler", "store"}
CheckPlaces == {"loadSys", "loadUser", "recas"}
Places == {"off", "nested"} \cup PostPlaces \cup RunPlaces \cup CheckPlaces

Elements(s) == {s[j] : j \in DOMAIN s}
NextId == Len(posted["user"]) + Len(posted["sys"]) + 1

Init ==
    /\ status = "IDLE"
    /\ counter = [k \in Kinds |-> 0]
    /\ queue = [k \in Kinds |-> <<>>]
    /\ tasks = 0
    /\ dispatcher \in Dispatchers
    /\ pc = [t \in Threads |-> "off"]
    /\ posting = [t \in Threads |-> "user"]
    /\ resume = [t \in Threads |-> "off"]
    /\ cur = [t \in Threads |-> None]
    /\ iter = [t \in Threads |-> 0]
    /\ round = [t \in Threads |-> 0]
    /\ buffer = [t \in Threads |-> FALSE]
    /\ throws = 0
    /\ lost = "no"
    /\ posted = [k \in Kinds |-> <<>>]
    /\ done = [k \in Kinds |-> <<>>]
    /\ overtaken = {}

Goto(t, place) == pc' = [pc EXCEPT ![t] = place]

-----------------------------------------------------------------------------
(* Posting: a producer, or a handler that sends to its own actor.           *)

(* Mutant: the queue is filled at the end it is emptied from.               *)
PushFront(t, k) ==
    /\ \/ t \in Producers /\ pc[t] = "off"
       \/ pc[t] = "handler"
    /\ ~buffer[t]
    /\ NextId <= MaxPosts
    /\ LET m == [kind |-> k, id |-> NextId]
       IN  /\ queue' = [queue EXCEPT ![k] = <<m>> \o @]
           /\ posted' = [posted EXCEPT ![k] = Append(@, m)]
    /\ posting' = [posting EXCEPT ![t] = k]
    /\ resume' = [resume EXCEPT ![t] = pc[t]]
    /\ Goto(t, "count")
    /\ UNCHANGED <<status, counter, tasks, dispatcher, cur, iter, round, buffer,
                   throws, lost, done, overtaken>>

(* The queue's mutex makes the stores of the thread visible first.          *)
Push(t, k) ==
    /\ \/ t \in Producers /\ pc[t] = "off"
       \/ pc[t] = "handler"
    /\ ~buffer[t]
    /\ NextId <= MaxPosts
    /\ LET m == [kind |-> k, id |-> NextId]
       IN  /\ queue' = [queue EXCEPT ![k] = Append(@, m)]
           /\ posted' = [posted EXCEPT ![k] = Append(@, m)]
    /\ posting' = [posting EXCEPT ![t] = k]
    /\ resume' = [resume EXCEPT ![t] = pc[t]]
    /\ Goto(t, "count")
    /\ UNCHANGED <<status, counter, tasks, dispatcher, cur, iter, round, buffer,
                   throws, lost, done, overtaken>>

PostUserMessage(t) == Push(t, "user")

PostSystemMessage(t) == Push(t, "sys")

(* user_messages_.fetch_add or sys_messages_.fetch_add                      *)
Count(t) ==
    /\ pc[t] = "count"
    /\ counter' = [counter EXCEPT ![posting[t]] = @ + 1]
    /\ Goto(t, "schedule")
    /\ UNCHANGED <<status, queue, tasks, dispatcher, posting, resume, cur, iter,
                   round, buffer, throws, lost, history>>

(* Mutant: a plain store of RUNNING instead of the compare-and-swap.        *)
ScheduleByStore(t) ==
    /\ pc[t] = "schedule"
    /\ status' = "RUNNING"
    /\ Goto(t, "dispatch")
    /\ UNCHANGED <<counter, queue, tasks, dispatcher, posting, resume, cur, iter,
                   round, buffer, throws, lost, history>>

(* The compare-and-swap of Schedule: only its winner hands over a task.     *)
Schedule(t) ==
    /\ pc[t] = "schedule"
    /\ IF status = "IDLE"
       THEN status' = "RUNNING" /\ Goto(t, "dispatch")
       ELSE status' = status /\ Goto(t, resume[t])
    /\ UNCHANGED <<counter, queue, tasks, dispatcher, posting, resume, cur, iter,
                   round, buffer, throws, lost, history>>

(* ProcessMessages begins with round 0, ProcessLoop with i = 0.             *)
BeginProcessMessages(t) ==
    /\ Goto(t, "loop")
    /\ iter' = [iter EXCEPT ![t] = 0]
    /\ round' = [round EXCEPT ![t] = 0]

(* DefaultDispatcherImpl::Schedule: a stopped pool drops the task.          *)
SubmitTask(t) ==
    /\ pc[t] = "dispatch"
    /\ dispatcher # "inline"
    /\ IF dispatcher = "pool"
       THEN tasks' = tasks + 1 /\ lost' = lost
       ELSE tasks' = tasks /\ lost' = "dropped"
    /\ Goto(t, resume[t])
    /\ UNCHANGED <<status, counter, queue, dispatcher, posting, resume, cur, iter,
                   round, buffer, throws, history>>

(* SynchronizedDispatcherImpl::Schedule: the poster runs the task.          *)
RunInline(t) ==
    /\ pc[t] = "dispatch"
    /\ dispatcher = "inline"
    /\ IF resume[t] = "off"
       THEN BeginProcessMessages(t)
       ELSE Goto(t, "nested") /\ UNCHANGED <<iter, round>>
    /\ UNCHANGED <<shared, posting, resume, cur, buffer, throws, lost, history>>

(* Mutant: a worker does not look whether there is a task.                  *)
RunTaskUnchecked(t) ==
    /\ t \in Workers
    /\ pc[t] = "off"
    /\ ~buffer[t]
    /\ tasks' = tasks - 1
    /\ BeginProcessMessages(t)
    /\ UNCHANGED <<status, counter, queue, dispatcher, posting, resume, cur, buffer,
                   throws, lost, history>>

(* A thread of the pool takes a task.                                       *)
RunTask(t) ==
    /\ t \in Workers
    /\ pc[t] = "off"
    /\ ~buffer[t]
    /\ tasks > 0
    /\ tasks' = tasks - 1
    /\ BeginProcessMessages(t)
    /\ UNCHANGED <<status, counter, queue, dispatcher, posting, resume, cur, buffer,
                   throws, lost, history>>

(* Shutdown lets the queued tasks run, ShutdownNow discards them.           *)
StopPool(how) ==
    /\ how \in PoolStops
    /\ dispatcher = "pool"
    /\ dispatcher' = "stopped"
    /\ tasks' = IF how = "ShutdownNow" THEN 0 ELSE tasks
    /\ lost' = IF how = "ShutdownNow" /\ tasks > 0 THEN "dropped" ELSE lost
    /\ UNCHANGED <<status, counter, queue, local, throws, history>>

-----------------------------------------------------------------------------
(* ProcessLoop                                                              *)

(* i is set back to 0 before it is compared with the limit again, so the    *)
(* limit ends the loop only when the throughput is 0.                       *)
NextIter(t) == IF iter[t] > Throughput THEN 1 ELSE iter[t] + 1

Pop(t, k) ==
    /\ cur' = [cur EXCEPT ![t] = Head(queue[k])]
    /\ queue' = [queue EXCEPT ![k] = Tail(@)]
    /\ Goto(t, "sub")

(* The head of one iteration: the limit, then system_mailbox_->Pop().       *)
PopSystem(t) ==
    /\ pc[t] = "loop"
    /\ IF iter[t] >= Throughput * 10
       THEN Goto(t, "store") /\ UNCHANGED <<queue, cur, iter>>
       ELSE /\ iter' = [iter EXCEPT ![t] = NextIter(t)]
            /\ IF queue["sys"] # <<>>
               THEN Pop(t, "sys")
               ELSE Goto(t, "popUser") /\ UNCHANGED <<queue, cur>>
    /\ UNCHANGED <<status, counter, tasks, dispatcher, posting, resume, round,
                   buffer, throws, lost, history>>

(* user_mailbox_->Pop(); suspended_ is 0, no code of the repository sets it. *)
PopUser(t) ==
    /\ pc[t] = "popUser"
    /\ IF queue["user"] # <<>>
       THEN Pop(t, "user") /\ overtaken' = overtaken \cup Elements(queue["sys"])
       ELSE Goto(t, "store") /\ UNCHANGED <<queue, cur, overtaken>>
    /\ UNCHANGED <<status, counter, tasks, dispatcher, posting, resume, iter, round,
                   buffer, throws, lost, posted, done>>

(* Mutant: both kinds of message are taken off the user counter.            *)
InvokeCountsUser(t) ==
    /\ pc[t] = "sub"
    /\ counter' = [counter EXCEPT !["user"] = @ - 1]
    /\ Goto(t, "handler")
    /\ UNCHANGED <<status, queue, tasks, dispatcher, posting, resume, cur, iter,
                   round, buffer, throws, lost, history>>

(* fetch_sub, then InvokeSystemMessage or InvokeUserMessage is entered.     *)
Invoke(t) ==
    /\ pc[t] = "sub"
    /\ counter' = [counter EXCEPT ![cur[t].kind] = @ - 1]
    /\ Goto(t, "handler")
    /\ UNCHANGED <<status, queue, tasks, dispatcher, posting, resume, cur, iter,
                   round, buffer, throws, lost, history>>

Finish(t) ==
    /\ done' = [done EXCEPT ![cur[t].kind] = Append(@, cur[t])]
    /\ cur' = [cur EXCEPT ![t] = None]

(* Mutant: the loop goes on with the user queue.                            *)
HandlerReturnsToUser(t) ==
    /\ pc[t] = "handler"
    /\ Finish(t)
    /\ Goto(t, "popUser")
    /\ UNCHANGED <<shared, posting, resume, iter, round, buffer, throws, lost,
                   posted, overtaken>>

HandlerReturns(t) ==
    /\ pc[t] = "handler"
    /\ Finish(t)
    /\ Goto(t, "loop")
    /\ UNCHANGED <<shared, posting, resume, iter, round, buffer, throws, lost,
                   posted, overtaken>>

(* The exception leaves ProcessLoop and ProcessMessages; the dispatcher's   *)
(* catch, or the poster, ends it.  Nothing resets the status.               *)
HandlerThrows(t) ==
    /\ pc[t] = "handler"
    /\ throws < MaxThrows
    /\ throws' = throws + 1
    /\ lost' = "throw"
    /\ Finish(t)
    /\ Goto(t, "off")
    /\ UNCHANGED <<shared, posting, resume, iter, round, buffer, posted,
                   overtaken>>

-----------------------------------------------------------------------------
(* ProcessMessages after ProcessLoop                                        *)

(* Mutant: the status is not given back after ProcessLoop.                  *)
KeepRunning(t) ==
    /\ pc[t] = "store"
    /\ Goto(t, "loadSys")
    /\ UNCHANGED <<status, buffer, counter, queue, tasks, dispatcher, posting, resume, cur,
                   iter, round, throws, lost, history>>

StoreIdle(t) ==
    /\ pc[t] = "store"
    /\ IF TSO
       THEN buffer' = [buffer EXCEPT ![t] = TRUE] /\ status' = status
       ELSE status' = "IDLE" /\ buffer' = buffer
    /\ Goto(t, "loadSys")
    /\ UNCHANGED <<counter, queue, tasks, dispatcher, posting, resume, cur, iter,
                   round, throws, lost, history>>

(* The processor makes a delayed store visible at any time.                 *)
FlushStore(t) ==
    /\ buffer[t]
    /\ buffer' = [buffer EXCEPT ![t] = FALSE]
    /\ status' = "IDLE"
    /\ UNCHANGED <<counter, queue, tasks, dispatcher, pc, posting, resume, cur, iter,
                   round, throws, lost, history>>

LoadSys(t) ==
    /\ pc[t] = "loadSys"
    /\ Goto(t, IF counter["sys"] > 0 THEN "recas" ELSE "loadUser")
    /\ UNCHANGED <<shared, posting, resume, cur, iter, round, buffer, throws, lost,
                   history>>

(* Mutant: no second look at user_messages_ before leaving.                 *)
LeaveUnchecked(t) ==
    /\ pc[t] = "loadUser"
    /\ Goto(t, "off")
    /\ UNCHANGED <<shared, posting, resume, cur, iter, round, buffer, throws, lost,
                   history>>

LoadUser(t) ==
    /\ pc[t] = "loadUser"
    /\ Goto(t, IF counter["user"] > 0 THEN "recas" ELSE "off")
    /\ UNCHANGED <<shared, posting, resume, cur, iter, round, buffer, throws, lost,
                   history>>

(* The second compare-and-swap.  The round after the last one is not begun: *)
(* ProcessMessages then returns and leaves the status RUNNING.              *)
Reacquire(t) ==
    /\ pc[t] = "recas"
    /\ ~buffer[t]
    /\ IF status = "IDLE"
       THEN /\ status' = "RUNNING"
            /\ round' = [round EXCEPT ![t] = @ + 1]
            /\ iter' = [iter EXCEPT ![t] = 0]
            /\ IF round[t] + 1 < MaxRounds
               THEN Goto(t, "loop") /\ lost' = lost
               ELSE Goto(t, "off") /\ lost' = "limit"
       ELSE Goto(t, "off") /\ UNCHANGED <<status, round, iter, lost>>
    /\ UNCHANGED <<counter, queue, tasks, dispatcher, posting, resume, cur, buffer,
                   throws, history>>

-----------------------------------------------------------------------------
(* The steps a thread takes by itself once it has begun: the ones that the  *)
(* scheduler of the operating system guarantees.                            *)
Step(t) ==
    \/ Count(t) \/ Schedule(t) \/ SubmitTask(t) \/ RunInline(t) \/ RunTask(t)
    \/ PopSystem(t) \/ PopUser(t) \/ Invoke(t) \/ HandlerReturns(t)
    \/ StoreIdle(t) \/ LoadSys(t) \/ LoadUser(t) \/ Reacquire(t)

Next ==
    \/ \E t \in Threads : Step(t)
    \/ \E t \in Threads : PostUserMessage(t)
    \/ \E t \in Threads : PostSystemMessage(t)
    \/ \E t \in Threads : HandlerThrows(t)
    \/ \E t \in Threads : FlushStore(t)
    \/ \E how \in {"Shutdown", "ShutdownNow"} : StopPool(how)

Spec == Init /\ [][Next]_vars

(* Threads are scheduled, handlers return and stores become visible.        *)
FairSpec ==
    /\ Spec
    /\ \A t \in Threads : WF_vars(Step(t)) /\ WF_vars(FlushStore(t))

-----------------------------------------------------------------------------
(* Properties                                                               *)

SharedType ==
    /\ status \in {"IDLE", "RUNNING"}
    /\ counter \in [Kinds -> Int]
    /\ queue \in [Kinds -> Seq(Messages)]
    /\ tasks \in Nat
    /\ dispatcher \in {"pool", "stopped", "inline"}

LocalType ==
    /\ pc \in [Threads -> Places]
    /\ posting \in [Threads -> Kinds]
    /\ resume \in [Threads -> {"off", "handler"}]
    /\ cur \in [Threads -> Messages \cup {None}]
    /\ iter \in [Threads -> Nat]
    /\ round \in [Threads -> Nat]
    /\ buffer \in [Threads -> BOOLEAN]

HistoryType ==
    /\ posted \in [Kinds -> Seq(Messages)]
    /\ done \in [Kinds -> Seq(Messages)]
    /\ overtaken \in SUBSET Messages

TypeOK ==
    /\ SharedType /\ LocalType /\ HistoryType
    /\ throws \in Nat
    /\ lost \in {"no", "throw", "limit", "dropped"}

(* t is inside ProcessLoop, also while its handler posts to the mailbox.    *)
Active(t) ==
    \/ pc[t] \in RunPlaces \cup {"nested"}
    \/ pc[t] \in PostPlaces /\ resume[t] = "handler"

(* t won the status and has not given it back or handed it to the pool.     *)
Owner(t) == Active(t) \/ pc[t] = "dispatch" \/ buffer[t]

(* The scheduler status keeps threads apart: whatever the interleaving of   *)
(* posts, pool threads and the re-acquisition at the end of ProcessMessages, *)
(* at most one thread is inside ProcessLoop, so an actor's handler never    *)
(* runs twice at the same time.                                             *)
MutualExclusion == \A t, u \in Threads : Active(t) /\ Active(u) => t = u

(* With the synchronized dispatcher a handler that posts to its own mailbox *)
(* never re-enters ProcessMessages below itself: Schedule finds RUNNING.    *)
NoNestedProcessing == \A t \in Threads : pc[t] # "nested"

(* The messages that have been finished, then the one in some thread's      *)
(* hands, then the queue, are the messages of that kind in the order of     *)
(* their Push: nothing is lost, duplicated or finished out of order.        *)
DeliveryOrder ==
    \A k \in Kinds :
        LET inHand == {t \in Threads : cur[t] # None /\ cur[t].kind = k}
        IN  IF inHand = {}
            THEN posted[k] = done[k] \o queue[k]
            ELSE \E t \in inHand :
                    posted[k] = done[k] \o <<cur[t]>> \o queue[k]

(* ProcessLoop looks for system messages before every user message: when a  *)
(* user message is about to be popped no waiting system message has been    *)
(* overtaken by another one before.                                         *)
BoundedOvertaking ==
    \A t \in Threads :
        pc[t] = "popUser" => overtaken \cap Elements(queue["sys"]) = {}

(* The counters differ from the queues exactly by the posts between Push    *)
(* and fetch_add and the message between Pop and fetch_sub; the re-check of *)
(* ProcessMessages trusts them.                                             *)
CounterExact ==
    \A k \in Kinds :
        counter[k] = Len(queue[k])
            - Cardinality({t \in Threads : pc[t] = "count" /\ posting[t] = k})
            + Cardinality({t \in Threads : pc[t] = "sub" /\ cur[t].kind = k})

(* A mailbox marked RUNNING has exactly one of: a task in the pool, one     *)
(* thread that works on it, or a past event that left it RUNNING for good,  *)
(* after which every Schedule does nothing and the actor is dead.  There    *)
(* are three such events: a handler's exception, a task dropped by a        *)
(* stopped pool, and the last of max_rounds, which takes at least that many *)
(* messages.  An IDLE mailbox has none of them.                             *)
RunnerAccounted ==
    /\ tasks + Cardinality({t \in Threads : Owner(t)}) + (IF lost = "no" THEN 0 ELSE 1)
         = IF status = "RUNNING" THEN 1 ELSE 0
    /\ lost = "limit" /\ Throughput > 0 => NextId > MaxRounds

(* No wakeup is lost: when every thread has left the mailbox and nobody is  *)
(* due to run it, no message is left in a queue.                            *)
NoLostWakeup ==
    (status = "IDLE" /\ \A t \in Threads : pc[t] = "off" /\ ~buffer[t])
        => \A k \in Kinds : queue[k] = <<>>

(* Every message that was pushed is finished eventually.                    *)
EveryPostHandled ==
    \A k \in Kinds : \A n \in 1..MaxPosts :
        (Len(posted[k]) >= n) ~> (Len(done[k]) >= n)

(* The mailbox with all its threads implements the one-at-a-time actor.     *)
Serial == INSTANCE SerialActor
            WITH taking <- {cur[t] : t \in Threads} \ {None}

SerialSpec == Serial!Spec

=============================================================================
