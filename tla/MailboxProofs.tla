--------------------------- MODULE MailboxProofs ---------------------------
(***************************************************************************)
(* Machine-checked proofs about Mailbox, for any number of threads, with   *)
(* either dispatcher, with or without delayed stores, and with handlers    *)
(* that throw and pools that are stopped: what its status protects, its    *)
(* queues, the refinement of SerialActor, and last its counters and what   *)
(* rests on them: that no wakeup is lost, and who runs a mailbox that is   *)
(* marked as running.                                                      *)
(***************************************************************************)
EXTENDS Mailbox, SequenceTheorems, FiniteSetTheorems, TLAPS

(* Which thread may be where: a thread that is inside its handler never     *)
(* wins the status, and a delayed store belongs to a thread that has left   *)
(* ProcessLoop and done nothing since.                                      *)
PlaceInv ==
    \A t \in Threads :
        /\ pc[t] # "nested"
        /\ pc[t] = "dispatch" => resume[t] = "off"
        /\ buffer[t] => pc[t] \in CheckPlaces \cup {"off"}

(* The status is a token.  While it is IDLE nobody holds it; while it is    *)
(* RUNNING it is held by one thread or by the one task in the pool, or it   *)
(* has been lost (an exception, the last round, a stopped pool).            *)
TokenInv ==
    /\ tasks > 0 => status = "RUNNING"
    /\ tasks <= 1
    /\ \A t \in Threads : Owner(t) => status = "RUNNING" /\ tasks = 0
    /\ \A t, u \in Threads : Owner(t) /\ Owner(u) => t = u

(* A thread between Pop and the end of its handler holds a message.         *)
HoldInv ==
    \A t \in Threads :
        cur[t] # None <=> \/ pc[t] \in {"sub", "handler"}
                          \/ pc[t] \in PostPlaces /\ resume[t] = "handler"

OwnerInv == TypeOK /\ PlaceInv /\ TokenInv /\ HoldInv

-----------------------------------------------------------------------------
(* The initial state has the types of TypeOK.                               *)
LEMMA InitType == Init => TypeOK
BY MailboxAssumption
DEF Init, TypeOK, SharedType, LocalType, HistoryType, Kinds, Places, Threads

(* Push appends a message of the declared type: ids stay within MaxPosts.   *)
LEMMA NewMessage ==
    ASSUME HistoryType, NEW k \in Kinds, NextId <= MaxPosts
    PROVE  [kind |-> k, id |-> NextId] \in Messages
<1>1. NextId \in Nat /\ NextId > 0
  BY DEF HistoryType, Kinds, NextId
<1>2. NextId \in 1..MaxPosts
  BY <1>1, MailboxAssumption
<1>. QED  BY <1>2 DEF Messages

(* Moving the program counter of one thread keeps its type.                 *)
LEMMA GotoType ==
    ASSUME LocalType, NEW t \in Threads, NEW place \in Places, Goto(t, place)
    PROVE  pc' \in [Threads -> Places]
BY DEF LocalType, Goto

(* Every place a step moves to is a place.                                  *)
LEMMA PlacesType ==
    /\ PostPlaces \cup RunPlaces \cup CheckPlaces \cup {"off", "nested"} = Places
    /\ {"off", "nested", "count", "schedule", "dispatch", "loop", "popUser", "sub",
        "handler", "store", "loadSys", "loadUser", "recas"} \subseteq Places
BY DEF Places, PostPlaces, RunPlaces, CheckPlaces

(* Taking the head of a queue keeps its type and yields a message.          *)
LEMMA PopType ==
    ASSUME SharedType, LocalType, NEW t \in Threads, NEW k \in Kinds,
           queue[k] # <<>>, Pop(t, k)
    PROVE  /\ queue' \in [Kinds -> Seq(Messages)]
           /\ cur' \in [Threads -> Messages \cup {None}]
           /\ pc' \in [Threads -> Places]
<1>1. queue[k] \in Seq(Messages)
  BY DEF SharedType
<1>2. Head(queue[k]) \in Messages /\ Tail(queue[k]) \in Seq(Messages)
  BY <1>1
<1>3. queue' \in [Kinds -> Seq(Messages)]
  BY <1>2 DEF SharedType, Pop
<1>4. cur' \in [Threads -> Messages \cup {None}]
  BY <1>2 DEF LocalType, Pop
<1>. QED  BY <1>3, <1>4, GotoType, PlacesType DEF Pop

(* Finishing a message keeps the types of the history and the thread.       *)
LEMMA FinishType ==
    ASSUME LocalType, HistoryType, NEW t \in Threads, cur[t] # None, Finish(t)
    PROVE  /\ done' \in [Kinds -> Seq(Messages)]
           /\ cur' \in [Threads -> Messages \cup {None}]
<1>1. cur[t] \in Messages
  BY DEF LocalType
<1>2. PICK k \in Kinds : k = cur[t].kind
  BY <1>1 DEF Messages
<1>3. done[k] \in Seq(Messages)
  BY DEF HistoryType
<1>4. Append(done[k], cur[t]) \in Seq(Messages)
  BY <1>1, <1>3
<1>5. done' = [done EXCEPT ![k] = Append(done[k], cur[t])]
  BY <1>2 DEF Finish
<1>6. done' \in [Kinds -> Seq(Messages)]
  BY <1>4, <1>5 DEF HistoryType
<1>7. cur' \in [Threads -> Messages \cup {None}]
  BY DEF Finish, LocalType
<1>. QED  BY <1>6, <1>7

(* Every step preserves the types.                                          *)
LEMMA NextType == TypeOK /\ HoldInv /\ [Next]_vars => TypeOK'
<1>. SUFFICES ASSUME SharedType, LocalType, HistoryType, throws \in Nat, HoldInv,
                     lost \in {"no", "throw", "limit", "dropped"}, [Next]_vars
              PROVE  TypeOK'
  BY DEF TypeOK
<1>. USE GotoType, PlacesType
<1>1. ASSUME NEW t \in Threads, NEW k \in Kinds, Push(t, k) PROVE TypeOK'
  <2>. DEFINE m == [kind |-> k, id |-> NextId]
  <2>1. m \in Messages
    BY <1>1, NewMessage DEF Push
  <2>2. queue[k] \in Seq(Messages) /\ posted[k] \in Seq(Messages)
    BY DEF SharedType, HistoryType
  <2>3. queue' = [queue EXCEPT ![k] = Append(queue[k], m)]
    BY <1>1 DEF Push
  <2>4. posted' = [posted EXCEPT ![k] = Append(posted[k], m)]
    BY <1>1 DEF Push
  <2>5. SharedType'
    BY <1>1, <2>1, <2>2, <2>3 DEF Push, SharedType
  <2>6. LocalType'
    BY <1>1 DEF Push, LocalType
  <2>7. HistoryType'
    BY <1>1, <2>1, <2>2, <2>4 DEF Push, HistoryType
  <2>. QED  BY <1>1, <2>5, <2>6, <2>7 DEF Push, TypeOK
<1>2. ASSUME NEW t \in Threads, Count(t) PROVE TypeOK'
  <2>1. SharedType'
    BY <1>2 DEF Count, SharedType, LocalType
  <2>2. LocalType'
    BY <1>2 DEF Count, LocalType
  <2>. QED  BY <1>2, <2>1, <2>2 DEF Count, history, HistoryType, TypeOK
<1>3. ASSUME NEW t \in Threads, Schedule(t) PROVE TypeOK'
  <2>1. SharedType'
    BY <1>3 DEF Schedule, SharedType
  <2>2. resume[t] \in Places
    BY DEF LocalType
  <2>3. LocalType'
    BY <1>3, <2>2 DEF Schedule, LocalType
  <2>. QED  BY <1>3, <2>1, <2>3 DEF Schedule, history, HistoryType, TypeOK
<1>4. ASSUME NEW t \in Threads, SubmitTask(t) PROVE TypeOK'
  <2>1. SharedType'
    BY <1>4 DEF SubmitTask, SharedType
  <2>2. resume[t] \in Places
    BY DEF LocalType
  <2>3. LocalType'
    BY <1>4, <2>2 DEF SubmitTask, LocalType
  <2>. QED  BY <1>4, <2>1, <2>3 DEF SubmitTask, history, HistoryType, TypeOK
<1>5. ASSUME NEW t \in Threads, RunInline(t) PROVE TypeOK'
  <2>1. SharedType'
    BY <1>5 DEF RunInline, shared, SharedType
  <2>2. iter' \in [Threads -> Nat] /\ round' \in [Threads -> Nat]
    BY <1>5 DEF RunInline, BeginProcessMessages, LocalType
  <2>3. pc' \in [Threads -> Places]
    BY <1>5 DEF RunInline, BeginProcessMessages
  <2>4. LocalType'
    BY <1>5, <2>2, <2>3 DEF RunInline, LocalType
  <2>. QED  BY <1>5, <2>1, <2>4 DEF RunInline, history, HistoryType, TypeOK
<1>6. ASSUME NEW t \in Threads, RunTask(t) PROVE TypeOK'
  <2>1. SharedType'
    BY <1>6 DEF RunTask, SharedType
  <2>2. LocalType'
    BY <1>6 DEF RunTask, BeginProcessMessages, LocalType
  <2>. QED  BY <1>6, <2>1, <2>2 DEF RunTask, history, HistoryType, TypeOK
<1>7. ASSUME NEW t \in Threads, PopSystem(t) PROVE TypeOK'
  <2>1. iter' \in [Threads -> Nat]
    BY <1>7, MailboxAssumption DEF PopSystem, NextIter, LocalType
  <2>2. CASE Pop(t, "sys") /\ queue["sys"] # <<>>
    <3>1. SharedType'
      BY <1>7, <2>2, PopType DEF PopSystem, SharedType, Kinds
    <3>2. LocalType'
      BY <1>7, <2>1, <2>2, PopType DEF PopSystem, LocalType, Kinds
    <3>. QED  BY <1>7, <3>1, <3>2 DEF PopSystem, history, HistoryType, TypeOK
  <2>3. CASE (Goto(t, "store") \/ Goto(t, "popUser")) /\ UNCHANGED <<queue, cur>>
    <3>1. SharedType'
      BY <1>7, <2>3 DEF PopSystem, SharedType
    <3>2. LocalType'
      BY <1>7, <2>1, <2>3 DEF PopSystem, LocalType
    <3>. QED  BY <1>7, <3>1, <3>2 DEF PopSystem, history, HistoryType, TypeOK
  <2>. QED  BY <1>7, <2>2, <2>3 DEF PopSystem
<1>8. ASSUME NEW t \in Threads, PopUser(t) PROVE TypeOK'
  <2>1. CASE Pop(t, "user") /\ queue["user"] # <<>>
             /\ overtaken' = overtaken \cup Elements(queue["sys"])
    <3>1. SharedType'
      BY <1>8, <2>1, PopType DEF PopUser, SharedType, Kinds
    <3>2. LocalType'
      BY <1>8, <2>1, PopType DEF PopUser, LocalType, Kinds
    <3>3. Elements(queue["sys"]) \subseteq Messages
      BY DEF Elements, SharedType, Kinds
    <3>. QED  BY <1>8, <2>1, <3>1, <3>2, <3>3 DEF PopUser, HistoryType, TypeOK
  <2>2. CASE Goto(t, "store") /\ UNCHANGED <<queue, cur, overtaken>>
    <3>1. SharedType'
      BY <1>8, <2>2 DEF PopUser, SharedType
    <3>2. LocalType'
      BY <1>8, <2>2 DEF PopUser, LocalType
    <3>. QED  BY <1>8, <2>2, <3>1, <3>2 DEF PopUser, HistoryType, TypeOK
  <2>. QED  BY <1>8, <2>1, <2>2 DEF PopUser
<1>9. ASSUME NEW t \in Threads, Invoke(t) PROVE TypeOK'
  <2>1. PICK k \in Kinds : k = cur[t].kind
    BY <1>9 DEF Invoke, HoldInv, LocalType, Messages
  <2>2. counter' = [counter EXCEPT ![k] = counter[k] - 1]
    BY <1>9, <2>1 DEF Invoke
  <2>3. counter' \in [Kinds -> Int]
    BY <2>2 DEF SharedType
  <2>4. SharedType'
    BY <1>9, <2>3 DEF Invoke, SharedType
  <2>5. LocalType'
    BY <1>9 DEF Invoke, LocalType
  <2>. QED  BY <1>9, <2>4, <2>5 DEF Invoke, history, HistoryType, TypeOK
<1>10. ASSUME NEW t \in Threads, HandlerReturns(t) PROVE TypeOK'
  <2>1. cur[t] # None /\ Finish(t)
    BY <1>10 DEF HandlerReturns, HoldInv
  <2>2. LocalType'
    BY <1>10, <2>1, FinishType DEF HandlerReturns, LocalType
  <2>3. HistoryType'
    BY <1>10, <2>1, FinishType DEF HandlerReturns, HistoryType
  <2>. QED  BY <1>10, <2>2, <2>3 DEF HandlerReturns, shared, SharedType, TypeOK
<1>11. ASSUME NEW t \in Threads, HandlerThrows(t) PROVE TypeOK'
  <2>1. cur[t] # None /\ Finish(t)
    BY <1>11 DEF HandlerThrows, HoldInv
  <2>2. LocalType'
    BY <1>11, <2>1, FinishType DEF HandlerThrows, LocalType
  <2>3. HistoryType'
    BY <1>11, <2>1, FinishType DEF HandlerThrows, HistoryType
  <2>. QED  BY <1>11, <2>2, <2>3 DEF HandlerThrows, shared, SharedType, TypeOK
<1>12. ASSUME NEW t \in Threads, StoreIdle(t) PROVE TypeOK'
  <2>1. SharedType'
    BY <1>12 DEF StoreIdle, SharedType
  <2>2. LocalType'
    BY <1>12 DEF StoreIdle, LocalType
  <2>. QED  BY <1>12, <2>1, <2>2 DEF StoreIdle, history, HistoryType, TypeOK
<1>13. ASSUME NEW t \in Threads, FlushStore(t) PROVE TypeOK'
  BY <1>13 DEF FlushStore, history, TypeOK, SharedType, LocalType, HistoryType
<1>14. ASSUME NEW t \in Threads, LoadSys(t) \/ LoadUser(t) PROVE TypeOK'
  <2>1. LocalType'
    BY <1>14 DEF LoadSys, LoadUser, LocalType
  <2>. QED  BY <1>14, <2>1
            DEF LoadSys, LoadUser, shared, history, SharedType, HistoryType, TypeOK
<1>15. ASSUME NEW t \in Threads, Reacquire(t) PROVE TypeOK'
  <2>1. SharedType'
    BY <1>15 DEF Reacquire, SharedType
  <2>2. iter' \in [Threads -> Nat] /\ round' \in [Threads -> Nat]
    BY <1>15 DEF Reacquire, LocalType
  <2>3. pc' \in [Threads -> Places]
    BY <1>15 DEF Reacquire
  <2>4. LocalType'
    BY <1>15, <2>2, <2>3 DEF Reacquire, LocalType
  <2>. QED  BY <1>15, <2>1, <2>4 DEF Reacquire, history, HistoryType, TypeOK
<1>16. ASSUME NEW how \in {"Shutdown", "ShutdownNow"}, StopPool(how) PROVE TypeOK'
  BY <1>16 DEF StopPool, local, history, TypeOK, SharedType, LocalType, HistoryType
<1>17. CASE UNCHANGED vars
  BY <1>17 DEF vars, shared, local, history, TypeOK, SharedType, LocalType, HistoryType
<1>. QED
  BY <1>1, <1>2, <1>3, <1>4, <1>5, <1>6, <1>7, <1>8, <1>9, <1>10, <1>11, <1>12,
     <1>13, <1>14, <1>15, <1>16, <1>17
  DEF Next, Step, PostUserMessage, PostSystemMessage, Kinds, TypeOK

(* Every step preserves PlaceInv. *)
LEMMA NextPlace == OwnerInv /\ [Next]_vars => PlaceInv'
<1>. SUFFICES ASSUME OwnerInv, [Next]_vars PROVE PlaceInv'
  OBVIOUS
<1>. USE DEF OwnerInv, PlaceInv, TokenInv, Owner, Active, PostPlaces, RunPlaces, CheckPlaces
<1>1. ASSUME NEW t \in Threads, NEW k \in Kinds, Push(t, k) PROVE PlaceInv'
  BY <1>1 DEF Push, Goto, TypeOK, SharedType, LocalType
<1>2. ASSUME NEW t \in Threads, Count(t) PROVE PlaceInv'
  BY <1>2 DEF Count, Goto, history, TypeOK, SharedType, LocalType
<1>3. ASSUME NEW t \in Threads, Schedule(t) PROVE PlaceInv'
  BY <1>3 DEF Schedule, Goto, history, TypeOK, SharedType, LocalType
<1>4. ASSUME NEW t \in Threads, SubmitTask(t) PROVE PlaceInv'
  BY <1>4 DEF SubmitTask, Goto, history, TypeOK, SharedType, LocalType
<1>5. ASSUME NEW t \in Threads, RunInline(t) PROVE PlaceInv'
  BY <1>5 DEF RunInline, Goto, BeginProcessMessages, shared, history, TypeOK, SharedType, LocalType
<1>6. ASSUME NEW t \in Threads, RunTask(t) PROVE PlaceInv'
  BY <1>6 DEF RunTask, Goto, BeginProcessMessages, history, TypeOK, SharedType, LocalType
<1>7. ASSUME NEW t \in Threads, PopSystem(t) PROVE PlaceInv'
  BY <1>7 DEF PopSystem, Goto, Pop, history, TypeOK, SharedType, LocalType
<1>8. ASSUME NEW t \in Threads, PopUser(t) PROVE PlaceInv'
  BY <1>8 DEF PopUser, Goto, Pop, TypeOK, SharedType, LocalType
<1>9. ASSUME NEW t \in Threads, Invoke(t) PROVE PlaceInv'
  BY <1>9 DEF Invoke, Goto, history, TypeOK, SharedType, LocalType
<1>10. ASSUME NEW t \in Threads, HandlerReturns(t) PROVE PlaceInv'
  BY <1>10 DEF HandlerReturns, Goto, Finish, shared, TypeOK, SharedType, LocalType
<1>11. ASSUME NEW t \in Threads, HandlerThrows(t) PROVE PlaceInv'
  BY <1>11 DEF HandlerThrows, Goto, Finish, shared, TypeOK, SharedType, LocalType
<1>12. ASSUME NEW t \in Threads, StoreIdle(t) PROVE PlaceInv'
  BY <1>12 DEF StoreIdle, Goto, history, TypeOK, SharedType, LocalType
<1>13. ASSUME NEW t \in Threads, FlushStore(t) PROVE PlaceInv'
  BY <1>13 DEF FlushStore, Goto, history, TypeOK, SharedType, LocalType
<1>14. ASSUME NEW t \in Threads, LoadSys(t) PROVE PlaceInv'
  BY <1>14 DEF LoadSys, Goto, shared, history, TypeOK, SharedType, LocalType
<1>15. ASSUME NEW t \in Threads, LoadUser(t) PROVE PlaceInv'
  BY <1>15 DEF LoadUser, Goto, shared, history, TypeOK, SharedType, LocalType
<1>16. ASSUME NEW t \in Threads, Reacquire(t) PROVE PlaceInv'
  BY <1>16 DEF Reacquire, Goto, history, TypeOK, SharedType, LocalType
<1>17. ASSUME NEW how \in {"Shutdown", "ShutdownNow"}, StopPool(how) PROVE PlaceInv'
  BY <1>17 DEF StopPool, local, history, TypeOK, SharedType
<1>18. CASE UNCHANGED vars
  BY <1>18 DEF vars, shared, local, history
<1>. QED
  BY <1>1, <1>2, <1>3, <1>4, <1>5, <1>6, <1>7, <1>8, <1>9, <1>10, <1>11, <1>12, <1>13, <1>14, <1>15, <1>16, <1>17, <1>18
  DEF Next, Step, PostUserMessage, PostSystemMessage, Kinds

(* Every step preserves TokenInv. *)
LEMMA NextToken == OwnerInv /\ [Next]_vars => TokenInv'
<1>. SUFFICES ASSUME OwnerInv, [Next]_vars PROVE TokenInv'
  OBVIOUS
<1>. USE DEF OwnerInv, PlaceInv, TokenInv, Owner, Active, PostPlaces, RunPlaces, CheckPlaces
<1>1. ASSUME NEW t \in Threads, NEW k \in Kinds, Push(t, k) PROVE TokenInv'
  <2>1. \A u \in Threads : u # t => (Owner(u)' <=> Owner(u))
    BY <1>1 DEF Push, Goto, TypeOK, LocalType
  <2>2. Owner(t)' <=> Owner(t)
    BY <1>1 DEF Push, Goto, TypeOK, LocalType
  <2>3. UNCHANGED <<tasks, status>>
    BY <1>1 DEF Push
  <2>. QED  BY <2>1, <2>2, <2>3
<1>2. ASSUME NEW t \in Threads, Count(t) PROVE TokenInv'
  BY <1>2 DEF Count, Goto, history, TypeOK, SharedType, LocalType
<1>3. ASSUME NEW t \in Threads, Schedule(t) PROVE TokenInv'
  <2>1. \A u \in Threads : u # t => (Owner(u)' <=> Owner(u))
    BY <1>3 DEF Schedule, Goto, TypeOK, LocalType
  <2>2. CASE status = "IDLE"
    <3>1. tasks = 0 /\ \A u \in Threads : ~Owner(u)
      BY <2>2 DEF TypeOK, SharedType
    <3>2. tasks' = 0 /\ status' = "RUNNING"
      BY <1>3, <2>2, <3>1 DEF Schedule
    <3>. QED  BY <2>1, <3>1, <3>2
  <2>3. CASE status # "IDLE"
    <3>1. Owner(t)' <=> Owner(t)
      BY <1>3, <2>3 DEF Schedule, Goto, TypeOK, LocalType
    <3>2. UNCHANGED <<tasks, status>>
      BY <1>3, <2>3 DEF Schedule
    <3>. QED  BY <2>1, <3>1, <3>2
  <2>. QED  BY <2>2, <2>3
<1>4. ASSUME NEW t \in Threads, SubmitTask(t) PROVE TokenInv'
  <2>1. Owner(t) /\ status = "RUNNING" /\ tasks = 0 /\ ~buffer[t]
    BY <1>4 DEF SubmitTask
  <2>2. \A u \in Threads : u # t => ~Owner(u)
    BY <2>1
  <2>3. \A u \in Threads : u # t => ~Owner(u)'
    BY <1>4, <2>2 DEF SubmitTask, Goto, TypeOK, LocalType
  <2>4. pc'[t] = "off" /\ ~Owner(t)'
    BY <1>4, <2>1 DEF SubmitTask, Goto, TypeOK, LocalType
  <2>5. tasks' \in {0, 1} /\ status' = "RUNNING"
    BY <1>4, <2>1 DEF SubmitTask
  <2>. QED  BY <2>3, <2>4, <2>5
<1>5. ASSUME NEW t \in Threads, RunInline(t) PROVE TokenInv'
  <2>1. \A u \in Threads : u # t => (Owner(u)' <=> Owner(u))
    BY <1>5 DEF RunInline, Goto, BeginProcessMessages, TypeOK, LocalType
  <2>2. Owner(t) /\ UNCHANGED <<tasks, status>>
    BY <1>5 DEF RunInline, shared
  <2>. QED  BY <2>1, <2>2
<1>6. ASSUME NEW t \in Threads, RunTask(t) PROVE TokenInv'
  BY <1>6 DEF RunTask, Goto, BeginProcessMessages, history, TypeOK, SharedType, LocalType
<1>7. ASSUME NEW t \in Threads, PopSystem(t) PROVE TokenInv'
  <2>1. Owner(t) /\ status = "RUNNING" /\ tasks = 0 /\ ~buffer[t]
    BY <1>7 DEF PopSystem
  <2>2. \A u \in Threads : u # t => ~Owner(u)
    BY <2>1
  <2>3. \A u \in Threads : u # t => ~Owner(u)'
    BY <1>7, <2>2 DEF PopSystem, Pop, Goto, TypeOK, LocalType
  <2>4. tasks' = 0 /\ status' = "RUNNING"
    BY <1>7, <2>1 DEF PopSystem
  <2>. QED  BY <2>3, <2>4
<1>8. ASSUME NEW t \in Threads, PopUser(t) PROVE TokenInv'
  <2>1. Owner(t) /\ status = "RUNNING" /\ tasks = 0 /\ ~buffer[t]
    BY <1>8 DEF PopUser
  <2>2. \A u \in Threads : u # t => ~Owner(u)
    BY <2>1
  <2>3. \A u \in Threads : u # t => ~Owner(u)'
    BY <1>8, <2>2 DEF PopUser, Pop, Goto, TypeOK, LocalType
  <2>4. tasks' = 0 /\ status' = "RUNNING"
    BY <1>8, <2>1 DEF PopUser
  <2>. QED  BY <2>3, <2>4
<1>9. ASSUME NEW t \in Threads, Invoke(t) PROVE TokenInv'
  BY <1>9 DEF Invoke, Goto, history, TypeOK, SharedType, LocalType
<1>10. ASSUME NEW t \in Threads, HandlerReturns(t) PROVE TokenInv'
  BY <1>10 DEF HandlerReturns, Goto, Finish, shared, TypeOK, SharedType, LocalType
<1>11. ASSUME NEW t \in Threads, HandlerThrows(t) PROVE TokenInv'
  BY <1>11 DEF HandlerThrows, Goto, Finish, shared, TypeOK, SharedType, LocalType
<1>12. ASSUME NEW t \in Threads, StoreIdle(t) PROVE TokenInv'
  <2>1. Owner(t) /\ status = "RUNNING" /\ tasks = 0 /\ ~buffer[t]
    BY <1>12 DEF StoreIdle
  <2>2. \A u \in Threads : u # t => ~Owner(u)
    BY <2>1
  <2>3. \A u \in Threads : u # t => ~Owner(u)'
    BY <1>12, <2>2 DEF StoreIdle, Goto, TypeOK, LocalType
  <2>4. tasks' = 0
    BY <1>12, <2>1 DEF StoreIdle
  <2>5. CASE TSO
    <3>1. status' = "RUNNING"
      BY <1>12, <2>1, <2>5 DEF StoreIdle
    <3>. QED  BY <2>3, <2>4, <3>1
  <2>6. CASE ~TSO
    <3>1. ~Owner(t)'
      BY <1>12, <2>1, <2>6 DEF StoreIdle, Goto, TypeOK, LocalType
    <3>. QED  BY <2>3, <2>4, <3>1
  <2>. QED  BY <2>5, <2>6
<1>13. ASSUME NEW t \in Threads, FlushStore(t) PROVE TokenInv'
  <2>1. Owner(t) /\ tasks = 0
    BY <1>13 DEF FlushStore
  <2>2. \A u \in Threads : u # t => ~Owner(u)
    BY <2>1
  <2>3. \A u \in Threads : u # t => ~Owner(u)'
    BY <1>13, <2>2 DEF FlushStore, TypeOK, LocalType
  <2>4. ~Owner(t)'
    BY <1>13 DEF FlushStore, TypeOK, LocalType
  <2>5. tasks' = 0
    BY <1>13, <2>1 DEF FlushStore
  <2>. QED  BY <2>3, <2>4, <2>5
<1>14. ASSUME NEW t \in Threads, LoadSys(t) PROVE TokenInv'
  BY <1>14 DEF LoadSys, Goto, shared, history, TypeOK, SharedType, LocalType
<1>15. ASSUME NEW t \in Threads, LoadUser(t) PROVE TokenInv'
  BY <1>15 DEF LoadUser, Goto, shared, history, TypeOK, SharedType, LocalType
<1>16. ASSUME NEW t \in Threads, Reacquire(t) PROVE TokenInv'
  <2>1. \A u \in Threads : u # t => (Owner(u)' <=> Owner(u))
    BY <1>16 DEF Reacquire, Goto, TypeOK, LocalType
  <2>2. ~Owner(t)
    BY <1>16 DEF Reacquire
  <2>3. CASE status = "IDLE"
    <3>1. tasks = 0 /\ \A u \in Threads : ~Owner(u)
      BY <2>3 DEF TypeOK, SharedType
    <3>2. tasks' = 0 /\ status' = "RUNNING"
      BY <1>16, <2>3, <3>1 DEF Reacquire
    <3>. QED  BY <2>1, <3>1, <3>2
  <2>4. CASE status # "IDLE"
    <3>1. ~Owner(t)'
      BY <1>16, <2>4 DEF Reacquire, Goto, TypeOK, LocalType
    <3>2. UNCHANGED <<tasks, status>>
      BY <1>16, <2>4 DEF Reacquire
    <3>. QED  BY <2>1, <3>1, <3>2
  <2>. QED  BY <2>3, <2>4
<1>17. ASSUME NEW how \in {"Shutdown", "ShutdownNow"}, StopPool(how) PROVE TokenInv'
  BY <1>17 DEF StopPool, local, history, TypeOK, SharedType
<1>18. CASE UNCHANGED vars
  BY <1>18 DEF vars, shared, local, history
<1>. QED
  BY <1>1, <1>2, <1>3, <1>4, <1>5, <1>6, <1>7, <1>8, <1>9, <1>10, <1>11, <1>12, <1>13, <1>14, <1>15, <1>16, <1>17, <1>18
  DEF Next, Step, PostUserMessage, PostSystemMessage, Kinds

(* Every step preserves HoldInv. *)
LEMMA NextHold == OwnerInv /\ [Next]_vars => HoldInv'
<1>. SUFFICES ASSUME OwnerInv, [Next]_vars PROVE HoldInv'
  OBVIOUS
<1>. USE DEF OwnerInv, PlaceInv, HoldInv, PostPlaces
<1>1. ASSUME NEW t \in Threads, NEW k \in Kinds, Push(t, k) PROVE HoldInv'
  <2>1. \A u \in Threads : u # t => UNCHANGED <<pc[u], resume[u], cur[u]>>
    BY <1>1 DEF Push, Goto, TypeOK, LocalType
  <2>2. cur'[t] = cur[t] /\ resume'[t] = pc[t] /\ pc'[t] = "count" /\ pc[t] \in {"off", "handler"}
    BY <1>1 DEF Push, Goto, TypeOK, LocalType
  <2>. QED  BY <2>1, <2>2
<1>2. ASSUME NEW t \in Threads, Count(t) PROVE HoldInv'
  <2>1. \A u \in Threads : u # t => UNCHANGED <<pc[u], resume[u], cur[u]>>
    BY <1>2 DEF Count, Goto, TypeOK, LocalType
  <2>2. cur'[t] = cur[t] /\ resume'[t] = resume[t] /\ pc'[t] = "schedule"
    BY <1>2 DEF Count, Goto, TypeOK, LocalType
  <2>. QED  BY <1>2, <2>1, <2>2 DEF Count
<1>3. ASSUME NEW t \in Threads, Schedule(t) PROVE HoldInv'
  <2>1. \A u \in Threads : u # t => UNCHANGED <<pc[u], resume[u], cur[u]>>
    BY <1>3 DEF Schedule, Goto, TypeOK, LocalType
  <2>2. cur'[t] = cur[t] /\ resume'[t] = resume[t] /\ pc'[t] \in {"dispatch", resume[t]}
    BY <1>3 DEF Schedule, Goto, TypeOK, LocalType
  <2>. QED  BY <1>3, <2>1, <2>2 DEF Schedule, TypeOK, LocalType
<1>4. ASSUME NEW t \in Threads, SubmitTask(t) PROVE HoldInv'
  <2>1. \A u \in Threads : u # t => UNCHANGED <<pc[u], resume[u], cur[u]>>
    BY <1>4 DEF SubmitTask, Goto, TypeOK, LocalType
  <2>2. cur'[t] = cur[t] /\ pc'[t] = "off"
    BY <1>4 DEF SubmitTask, Goto, TypeOK, LocalType
  <2>. QED  BY <1>4, <2>1, <2>2 DEF SubmitTask
<1>5. ASSUME NEW t \in Threads, RunInline(t) PROVE HoldInv'
  <2>1. \A u \in Threads : u # t => UNCHANGED <<pc[u], resume[u], cur[u]>>
    BY <1>5 DEF RunInline, Goto, BeginProcessMessages, TypeOK, LocalType
  <2>2. cur'[t] = None /\ pc'[t] = "loop"
    BY <1>5 DEF RunInline, Goto, BeginProcessMessages, TypeOK, LocalType
  <2>. QED  BY <2>1, <2>2
<1>6. ASSUME NEW t \in Threads, RunTask(t) PROVE HoldInv'
  <2>1. \A u \in Threads : u # t => UNCHANGED <<pc[u], resume[u], cur[u]>>
    BY <1>6 DEF RunTask, Goto, BeginProcessMessages, TypeOK, LocalType
  <2>2. cur'[t] = None /\ pc'[t] = "loop"
    BY <1>6 DEF RunTask, Goto, BeginProcessMessages, TypeOK, LocalType
  <2>. QED  BY <2>1, <2>2
<1>7. ASSUME NEW t \in Threads, PopSystem(t) PROVE HoldInv'
  <2>1. \A u \in Threads : u # t => UNCHANGED <<pc[u], resume[u], cur[u]>>
    BY <1>7 DEF PopSystem, Goto, Pop, TypeOK, LocalType
  <2>2. cur[t] = None
    BY <1>7 DEF PopSystem
  <2>3. CASE queue["sys"] # <<>> /\ Pop(t, "sys")
    <3>1. Head(queue["sys"]) \in Messages
      BY <2>3 DEF TypeOK, SharedType, Kinds
    <3>2. cur'[t] # None /\ pc'[t] = "sub"
      BY <2>3, <3>1, MailboxAssumption DEF Pop, Goto, TypeOK, LocalType
    <3>. QED  BY <2>1, <3>2
  <2>4. CASE cur' = cur /\ (Goto(t, "store") \/ Goto(t, "popUser"))
    <3>1. cur'[t] = None /\ pc'[t] \in {"store", "popUser"}
      BY <2>2, <2>4 DEF Goto, TypeOK, LocalType
    <3>. QED  BY <2>1, <3>1
  <2>. QED  BY <1>7, <2>3, <2>4 DEF PopSystem
<1>8. ASSUME NEW t \in Threads, PopUser(t) PROVE HoldInv'
  <2>1. \A u \in Threads : u # t => UNCHANGED <<pc[u], resume[u], cur[u]>>
    BY <1>8 DEF PopUser, Goto, Pop, TypeOK, LocalType
  <2>2. cur[t] = None
    BY <1>8 DEF PopUser
  <2>3. CASE queue["user"] # <<>> /\ Pop(t, "user")
    <3>1. Head(queue["user"]) \in Messages
      BY <2>3 DEF TypeOK, SharedType, Kinds
    <3>2. cur'[t] # None /\ pc'[t] = "sub"
      BY <2>3, <3>1, MailboxAssumption DEF Pop, Goto, TypeOK, LocalType
    <3>. QED  BY <2>1, <3>2
  <2>4. CASE cur' = cur /\ (Goto(t, "store") \/ Goto(t, "popUser"))
    <3>1. cur'[t] = None /\ pc'[t] \in {"store", "popUser"}
      BY <2>2, <2>4 DEF Goto, TypeOK, LocalType
    <3>. QED  BY <2>1, <3>1
  <2>. QED  BY <1>8, <2>3, <2>4 DEF PopUser
<1>9. ASSUME NEW t \in Threads, Invoke(t) PROVE HoldInv'
  <2>1. \A u \in Threads : u # t => UNCHANGED <<pc[u], resume[u], cur[u]>>
    BY <1>9 DEF Invoke, Goto, TypeOK, LocalType
  <2>2. cur'[t] = cur[t] /\ pc'[t] = "handler"
    BY <1>9 DEF Invoke, Goto, TypeOK, LocalType
  <2>. QED  BY <1>9, <2>1, <2>2 DEF Invoke
<1>10. ASSUME NEW t \in Threads, HandlerReturns(t) PROVE HoldInv'
  <2>1. \A u \in Threads : u # t => UNCHANGED <<pc[u], resume[u], cur[u]>>
    BY <1>10 DEF HandlerReturns, Goto, Finish, TypeOK, LocalType
  <2>2. cur'[t] = None /\ pc'[t] = "loop"
    BY <1>10 DEF HandlerReturns, Goto, Finish, TypeOK, LocalType
  <2>. QED  BY <2>1, <2>2
<1>11. ASSUME NEW t \in Threads, HandlerThrows(t) PROVE HoldInv'
  <2>1. \A u \in Threads : u # t => UNCHANGED <<pc[u], resume[u], cur[u]>>
    BY <1>11 DEF HandlerThrows, Goto, Finish, TypeOK, LocalType
  <2>2. cur'[t] = None /\ pc'[t] = "off"
    BY <1>11 DEF HandlerThrows, Goto, Finish, TypeOK, LocalType
  <2>. QED  BY <2>1, <2>2
<1>12. ASSUME NEW t \in Threads, StoreIdle(t) PROVE HoldInv'
  <2>1. \A u \in Threads : u # t => UNCHANGED <<pc[u], resume[u], cur[u]>>
    BY <1>12 DEF StoreIdle, Goto, TypeOK, LocalType
  <2>2. cur'[t] = None /\ pc'[t] = "loadSys"
    BY <1>12 DEF StoreIdle, Goto, TypeOK, LocalType
  <2>. QED  BY <2>1, <2>2
<1>13. ASSUME NEW t \in Threads, FlushStore(t) PROVE HoldInv'
  BY <1>13, MailboxAssumption DEF FlushStore, Goto, history, TypeOK, SharedType, LocalType
<1>14. ASSUME NEW t \in Threads, LoadSys(t) PROVE HoldInv'
  <2>1. \A u \in Threads : u # t => UNCHANGED <<pc[u], resume[u], cur[u]>>
    BY <1>14 DEF LoadSys, Goto, TypeOK, LocalType
  <2>2. cur'[t] = None /\ pc'[t] \in {"recas", "loadUser"}
    BY <1>14 DEF LoadSys, Goto, TypeOK, LocalType
  <2>. QED  BY <2>1, <2>2
<1>15. ASSUME NEW t \in Threads, LoadUser(t) PROVE HoldInv'
  <2>1. \A u \in Threads : u # t => UNCHANGED <<pc[u], resume[u], cur[u]>>
    BY <1>15 DEF LoadUser, Goto, TypeOK, LocalType
  <2>2. cur'[t] = None /\ pc'[t] \in {"recas", "off"}
    BY <1>15 DEF LoadUser, Goto, TypeOK, LocalType
  <2>. QED  BY <2>1, <2>2
<1>16. ASSUME NEW t \in Threads, Reacquire(t) PROVE HoldInv'
  <2>1. \A u \in Threads : u # t => UNCHANGED <<pc[u], resume[u], cur[u]>>
    BY <1>16 DEF Reacquire, Goto, TypeOK, LocalType
  <2>2. cur'[t] = None /\ pc'[t] \in {"loop", "off"}
    BY <1>16 DEF Reacquire, Goto, TypeOK, LocalType
  <2>. QED  BY <2>1, <2>2
<1>17. ASSUME NEW how \in {"Shutdown", "ShutdownNow"}, StopPool(how) PROVE HoldInv'
  BY <1>17 DEF StopPool, local, history, TypeOK, SharedType
<1>18. CASE UNCHANGED vars
  BY <1>18 DEF vars, shared, local, history
<1>. QED
  BY <1>1, <1>2, <1>3, <1>4, <1>5, <1>6, <1>7, <1>8, <1>9, <1>10, <1>11, <1>12, <1>13, <1>14, <1>15, <1>16, <1>17, <1>18
  DEF Next, Step, PostUserMessage, PostSystemMessage, Kinds

(* The initial state satisfies the strengthened invariant.                  *)
LEMMA InitOwner == Init => OwnerInv
BY InitType, MailboxAssumption
DEF Init, OwnerInv, PlaceInv, TokenInv, HoldInv, Owner, Active, PostPlaces, RunPlaces

(* OwnerInv is an invariant of the mailbox.                                 *)
THEOREM OwnerInvariant == Spec => []OwnerInv
<1>1. OwnerInv /\ [Next]_vars => OwnerInv'
  BY NextType, NextPlace, NextToken, NextHold DEF OwnerInv
<1>. QED  BY <1>1, InitOwner, PTL DEF Spec

(* Type correctness of the mailbox and of its histories.                    *)
THEOREM TypeCorrect == Spec => []TypeOK
<1>1. OwnerInv => TypeOK
  BY DEF OwnerInv
<1>. QED  BY <1>1, OwnerInvariant, PTL

(* Whatever the number of posting threads and pool threads, an actor's      *)
(* ProcessLoop, and with it the handler, is run by one thread at a time.    *)
THEOREM OneThreadAtATime == Spec => []MutualExclusion
<1>1. OwnerInv => MutualExclusion
  BY DEF OwnerInv, TokenInv, Owner, MutualExclusion
<1>. QED  BY <1>1, OwnerInvariant, PTL

(* A handler that posts to its own mailbox is never re-entered through the  *)
(* synchronized dispatcher.                                                 *)
THEOREM NeverNested == Spec => []NoNestedProcessing
<1>1. OwnerInv => NoNestedProcessing
  BY DEF OwnerInv, PlaceInv, NoNestedProcessing
<1>. QED  BY <1>1, OwnerInvariant, PTL

-----------------------------------------------------------------------------
(* Delivery order                                                           *)

(* At most one thread holds a popped message, and a thread at a Pop holds   *)
(* none and is the only one that could.                                     *)
LEMMA OneHolder ==
    ASSUME OwnerInv
    PROVE  /\ \A t, u \in Threads : cur[t] # None /\ cur[u] # None => t = u
           /\ \A t \in Threads : pc[t] \in {"loop", "popUser"}
                                    => \A u \in Threads : cur[u] = None
<1>1. \A t \in Threads : cur[t] # None => Owner(t) /\ pc[t] \notin {"loop", "popUser"}
  BY DEF OwnerInv, HoldInv, Owner, Active, PostPlaces, RunPlaces
<1>2. \A t \in Threads : pc[t] \in {"loop", "popUser"} => Owner(t)
  BY DEF Owner, Active, RunPlaces
<1>3. \A t, u \in Threads : Owner(t) /\ Owner(u) => t = u
  BY DEF OwnerInv, TokenInv
<1>. QED  BY <1>1, <1>2, <1>3

(* What a step does to the queues, the histories and the hands of threads:  *)
(* it posts, pops, finishes, or leaves them alone.                          *)
Posts(k) ==
    \E m \in Messages :
        /\ m.kind = k
        /\ m.id = NextId
        /\ queue' = [queue EXCEPT ![k] = Append(queue[k], m)]
        /\ posted' = [posted EXCEPT ![k] = Append(posted[k], m)]
        /\ UNCHANGED <<cur, done, overtaken>>

Pops(t, k) ==
    /\ pc[t] = IF k = "sys" THEN "loop" ELSE "popUser"
    /\ queue[k] # <<>>
    /\ queue' = [queue EXCEPT ![k] = Tail(queue[k])]
    /\ cur' = [cur EXCEPT ![t] = Head(queue[k])]
    /\ pc' = [pc EXCEPT ![t] = "sub"]
    /\ overtaken' = IF k = "sys" THEN overtaken
                    ELSE overtaken \cup Elements(queue["sys"])
    /\ UNCHANGED <<posted, done>>

Finishes(t) ==
    /\ cur[t] \in Messages
    /\ done' = [done EXCEPT ![cur[t].kind] = Append(done[cur[t].kind], cur[t])]
    /\ cur' = [cur EXCEPT ![t] = None]
    /\ UNCHANGED <<queue, posted, overtaken>>

(* Every step of the mailbox is one of these four.                          *)
LEMMA StepKinds ==
    ASSUME OwnerInv, [Next]_vars
    PROVE  \/ \E k \in Kinds : Posts(k)
           \/ \E t \in Threads, k \in Kinds : Pops(t, k)
           \/ \E t \in Threads : Finishes(t)
           \/ UNCHANGED <<queue, posted, done, cur, overtaken>>
<1>. DEFINE Goal == \/ \E k \in Kinds : Posts(k)
                    \/ \E t \in Threads, k \in Kinds : Pops(t, k)
                    \/ \E t \in Threads : Finishes(t)
                    \/ UNCHANGED <<queue, posted, done, cur, overtaken>>
<1>1. ASSUME NEW t \in Threads, NEW k \in Kinds, Push(t, k) PROVE Goal
  <2>. DEFINE m == [kind |-> k, id |-> NextId]
  <2>1. m \in Messages /\ m.kind = k /\ m.id = NextId
    BY <1>1, NewMessage DEF Push, OwnerInv, TypeOK
  <2>2. /\ queue' = [queue EXCEPT ![k] = Append(queue[k], m)]
        /\ posted' = [posted EXCEPT ![k] = Append(posted[k], m)]
        /\ UNCHANGED <<cur, done, overtaken>>
    BY <1>1 DEF Push
  <2>3. Posts(k)
    BY <2>1, <2>2 DEF Posts
  <2>. QED  BY <2>3
<1>2. ASSUME NEW t \in Threads, PopSystem(t) PROVE Goal
  <2>1. Pops(t, "sys") \/ UNCHANGED <<queue, posted, done, cur, overtaken>>
    BY <1>2 DEF PopSystem, Pop, Pops, Goto, history
  <2>. QED  BY <2>1 DEF Kinds
<1>3. ASSUME NEW t \in Threads, PopUser(t) PROVE Goal
  <2>1. Pops(t, "user") \/ UNCHANGED <<queue, posted, done, cur, overtaken>>
    BY <1>3 DEF PopUser, Pop, Pops, Goto
  <2>. QED  BY <2>1 DEF Kinds
<1>4. ASSUME NEW t \in Threads, HandlerReturns(t) \/ HandlerThrows(t) PROVE Goal
  <2>1. cur[t] \in Messages
    BY <1>4 DEF HandlerReturns, HandlerThrows, OwnerInv, HoldInv, TypeOK, LocalType
  <2>2. Finishes(t)
    BY <1>4, <2>1 DEF HandlerReturns, HandlerThrows, Finish, Finishes, shared
  <2>. QED  BY <2>2
<1>5. ASSUME NEW t \in Threads,
             \/ Count(t) \/ Schedule(t) \/ SubmitTask(t) \/ RunInline(t) \/ RunTask(t)
             \/ Invoke(t) \/ StoreIdle(t) \/ FlushStore(t) \/ LoadSys(t) \/ LoadUser(t)
             \/ Reacquire(t)
      PROVE Goal
  <2>1. UNCHANGED <<queue, posted, done, cur, overtaken>>
    BY <1>5 DEF Count, Schedule, SubmitTask, RunInline, RunTask, Invoke, StoreIdle,
         FlushStore, LoadSys, LoadUser, Reacquire, shared, history
  <2>. QED  BY <2>1
<1>6. ASSUME NEW how \in {"Shutdown", "ShutdownNow"}, StopPool(how) PROVE Goal
  BY <1>6 DEF StopPool, local, history
<1>7. CASE UNCHANGED vars
  BY <1>7 DEF vars, shared, local, history
<1>. QED
  BY <1>1, <1>2, <1>3, <1>4, <1>5, <1>6, <1>7
  DEF Next, Step, PostUserMessage, PostSystemMessage, Kinds

(* Appending to a concatenation appends to its second part.                 *)
LEMMA AppendConcat ==
    \A a, b \in Seq(Messages), m \in Messages :
        Append(a \o b, m) = a \o Append(b, m)
<1>. TAKE a, b \in Seq(Messages), m \in Messages
<1>1. <<m>> \in Seq(Messages) /\ a \o b \in Seq(Messages)
  BY ConcatProperties
<1>2. Append(a \o b, m) = (a \o b) \o <<m>> /\ Append(b, m) = b \o <<m>>
  BY <1>1, AppendIsConcat
<1>. QED  BY <1>1, <1>2, ConcatAssociative

(* A non-empty sequence is its head followed by its tail.                   *)
LEMMA HeadTail ==
    ASSUME NEW S, NEW q \in Seq(S), q # <<>>
    PROVE  /\ Head(q) \in S /\ Tail(q) \in Seq(S)
           /\ <<Head(q)>> \o Tail(q) = q
<1>1. Head(q) \in S /\ Tail(q) \in Seq(S) /\ <<Head(q)>> \in Seq(S)
  BY HeadTailProperties
<1>2. <<Head(q)>> \o Tail(q) \in Seq(S)
  BY <1>1, ConcatProperties
<1>3. Len(<<Head(q)>> \o Tail(q)) = Len(q)
  BY <1>1, ConcatProperties, HeadTailProperties, EmptySeq
<1>4. \A i \in 1..Len(q) : (<<Head(q)>> \o Tail(q))[i] = q[i]
  BY <1>1, ConcatProperties, HeadTailProperties, EmptySeq
<1>. QED  BY <1>1, <1>2, <1>3, <1>4, SeqEqual

InHand(k) == {t \in Threads : cur[t] # None /\ cur[t].kind = k}

(* The elements of a queue carry the kind of the queue.                     *)
KindInv == \A k \in Kinds : \A j \in 1..Len(queue[k]) : queue[k][j].kind = k

(* Every step preserves KindInv.                                            *)
LEMMA NextKind == OwnerInv /\ KindInv /\ [Next]_vars => KindInv'
<1>. SUFFICES ASSUME OwnerInv, KindInv, [Next]_vars PROVE KindInv'
  OBVIOUS
<1>0. \A k \in Kinds : queue[k] \in Seq(Messages)
  BY DEF OwnerInv, TypeOK, SharedType
<1>a. DOMAIN queue = Kinds
  BY DEF OwnerInv, TypeOK, SharedType
<1>1. ASSUME NEW k \in Kinds, Posts(k) PROVE KindInv'
  <2>1. PICK m \in Messages : /\ m.kind = k
                              /\ queue' = [queue EXCEPT ![k] = Append(queue[k], m)]
    BY <1>1 DEF Posts
  <2>2. \A j \in 1..Len(queue'[k]) : queue'[k][j].kind = k
    <3>1. queue'[k] = Append(queue[k], m)
      BY <2>1, <1>a
    <3>2. Len(queue'[k]) = Len(queue[k]) + 1 /\ Len(queue[k]) \in Nat
      BY <1>0, <3>1, AppendProperties, LenProperties
    <3>3. \A j \in 1..Len(queue[k]) : queue'[k][j] = queue[k][j]
      BY <1>0, <3>1, AppendProperties
    <3>4. queue'[k][Len(queue[k]) + 1] = m
      BY <1>0, <3>1, AppendProperties
    <3>. QED  BY <2>1, <3>2, <3>3, <3>4 DEF KindInv
  <2>3. \A l \in Kinds : l # k => queue'[l] = queue[l]
    BY <2>1, <1>a
  <2>. QED  BY <2>2, <2>3 DEF KindInv
<1>2. ASSUME NEW t \in Threads, NEW k \in Kinds, Pops(t, k) PROVE KindInv'
  <2>1. queue'[k] = Tail(queue[k]) /\ queue[k] # <<>>
    BY <1>2, <1>a DEF Pops
  <2>2. \A j \in 1..Len(queue'[k]) : queue'[k][j].kind = k
    <3>1. Len(Tail(queue[k])) = Len(queue[k]) - 1 /\ Len(queue[k]) \in Nat
      BY <1>0, <2>1, HeadTailProperties, LenProperties
    <3>2. \A j \in 1..Len(Tail(queue[k])) : Tail(queue[k])[j] = queue[k][j + 1]
      BY <1>0, <2>1, HeadTailProperties
    <3>. QED  BY <2>1, <3>1, <3>2 DEF KindInv
  <2>3. \A l \in Kinds : l # k => queue'[l] = queue[l]
    BY <1>2, <1>a DEF Pops
  <2>. QED  BY <2>2, <2>3 DEF KindInv
<1>3. CASE queue' = queue
  BY <1>3 DEF KindInv
<1>. QED  BY <1>1, <1>2, <1>3, StepKinds DEF Finishes

(* Every step preserves the order of delivery.                              *)
LEMMA NextOrder == OwnerInv /\ KindInv /\ DeliveryOrder /\ [Next]_vars => DeliveryOrder'
<1>. SUFFICES ASSUME OwnerInv, KindInv, DeliveryOrder, [Next]_vars, NEW l \in Kinds
              PROVE  IF InHand(l)' = {}
                     THEN posted'[l] = done'[l] \o queue'[l]
                     ELSE \E t \in InHand(l)' :
                             posted'[l] = done'[l] \o <<cur'[t]>> \o queue'[l]
  BY DEF DeliveryOrder, InHand
<1>a. /\ queue[l] \in Seq(Messages) /\ done[l] \in Seq(Messages)
      /\ posted[l] \in Seq(Messages)
  BY DEF OwnerInv, TypeOK, SharedType, HistoryType
<1>b. DOMAIN queue = Kinds /\ DOMAIN done = Kinds /\ DOMAIN posted = Kinds
      /\ DOMAIN cur = Threads
  BY DEF OwnerInv, TypeOK, SharedType, HistoryType, LocalType
<1>c. IF InHand(l) = {} THEN posted[l] = done[l] \o queue[l]
      ELSE \E t \in InHand(l) : posted[l] = done[l] \o <<cur[t]>> \o queue[l]
  BY DEF DeliveryOrder, InHand
<1>d. \A a, b, c \in Seq(Messages) : (a \o b) \o c = a \o (b \o c)
  BY ConcatAssociative
<1>1. ASSUME NEW k \in Kinds, Posts(k)
      PROVE  IF InHand(l)' = {}
             THEN posted'[l] = done'[l] \o queue'[l]
             ELSE \E t \in InHand(l)' : posted'[l] = done'[l] \o <<cur'[t]>> \o queue'[l]
  <2>1. PICK m \in Messages :
            /\ queue' = [queue EXCEPT ![k] = Append(queue[k], m)]
            /\ posted' = [posted EXCEPT ![k] = Append(posted[k], m)]
            /\ cur' = cur /\ done' = done
    BY <1>1 DEF Posts
  <2>2. InHand(l)' = InHand(l)
    BY <2>1 DEF InHand
  <2>3. CASE k # l
    BY <1>b, <1>c, <2>1, <2>2, <2>3
  <2>4. CASE k = l
    <3>1. queue'[l] = Append(queue[l], m) /\ posted'[l] = Append(posted[l], m)
      BY <1>b, <2>1, <2>4
    <3>2. CASE InHand(l) = {}
      <4>1. posted[l] = done[l] \o queue[l]
        BY <1>c, <3>2
      <4>2. Append(done[l] \o queue[l], m) = done[l] \o Append(queue[l], m)
        BY <1>a, AppendConcat, Zenon
      <4>. QED  BY <2>1, <2>2, <3>1, <3>2, <4>1, <4>2
    <3>3. CASE InHand(l) # {}
      <4>1. PICK t \in InHand(l) : posted[l] = done[l] \o <<cur[t]>> \o queue[l]
        BY <1>c, <3>3
      <4>2. cur[t] \in Messages
        BY <4>1 DEF InHand, OwnerInv, TypeOK, LocalType
      <4>3. done[l] \o <<cur[t]>> \in Seq(Messages)
        BY <1>a, <4>2, ConcatProperties
      <4>4. Append((done[l] \o <<cur[t]>>) \o queue[l], m)
              = (done[l] \o <<cur[t]>>) \o Append(queue[l], m)
        BY <1>a, AppendConcat, <4>3, Zenon
      <4>. QED  BY <2>1, <2>2, <3>1, <3>3, <4>1, <4>4
    <3>. QED  BY <3>2, <3>3
  <2>. QED  BY <2>3, <2>4
<1>2. ASSUME NEW t \in Threads, NEW k \in Kinds, Pops(t, k)
      PROVE  IF InHand(l)' = {}
             THEN posted'[l] = done'[l] \o queue'[l]
             ELSE \E u \in InHand(l)' : posted'[l] = done'[l] \o <<cur'[u]>> \o queue'[l]
  <2>1. \A u \in Threads : cur[u] = None
    BY <1>2, OneHolder DEF Pops
  <2>2. posted[l] = done[l] \o queue[l]
    BY <1>c, <2>1 DEF InHand
  <2>3. UNCHANGED <<posted, done>>
    BY <1>2 DEF Pops
  <2>4. queue[k] \in Seq(Messages) /\ queue[k] # <<>>
    BY <1>2 DEF Pops, OwnerInv, TypeOK, SharedType
  <2>5. Head(queue[k]) \in Messages /\ Head(queue[k]).kind = k
    <3>1. Len(queue[k]) > 0 /\ Head(queue[k]) = queue[k][1]
      BY <2>4, EmptySeq
    <3>. QED  BY <2>4, <3>1, HeadTail DEF KindInv
  <2>6. cur' = [cur EXCEPT ![t] = Head(queue[k])]
    BY <1>2 DEF Pops
  <2>7. cur'[t] = Head(queue[k]) /\ \A u \in Threads : u # t => cur'[u] = None
    BY <1>b, <2>1, <2>6
  <2>8. InHand(l)' = IF k = l THEN {t} ELSE {}
    BY <2>5, <2>7, MailboxAssumption DEF InHand
  <2>9. CASE k # l
    <3>1. queue'[l] = queue[l]
      BY <1>2, <1>b, <2>9 DEF Pops
    <3>. QED  BY <2>2, <2>3, <2>8, <2>9, <3>1
  <2>10. CASE k = l
    <3>1. queue'[l] = Tail(queue[l])
      BY <1>2, <1>b, <2>10 DEF Pops
    <3>2. <<Head(queue[l])>> \o Tail(queue[l]) = queue[l]
          /\ <<Head(queue[l])>> \in Seq(Messages) /\ Tail(queue[l]) \in Seq(Messages)
      BY <2>4, <2>5, <2>10, HeadTail
    <3>3. (done[l] \o <<Head(queue[l])>>) \o Tail(queue[l])
            = done[l] \o (<<Head(queue[l])>> \o Tail(queue[l]))
      BY <1>a, <1>d, <3>2, Zenon
    <3>. QED  BY <2>2, <2>3, <2>7, <2>8, <2>10, <3>1, <3>2, <3>3
  <2>. QED  BY <2>9, <2>10
<1>3. ASSUME NEW t \in Threads, Finishes(t)
      PROVE  IF InHand(l)' = {}
             THEN posted'[l] = done'[l] \o queue'[l]
             ELSE \E u \in InHand(l)' : posted'[l] = done'[l] \o <<cur'[u]>> \o queue'[l]
  <2>1. cur[t] \in Messages /\ cur[t] # None /\ cur[t].kind \in Kinds
    BY <1>3, MailboxAssumption DEF Finishes, Messages
  <2>2. cur'[t] = None /\ \A u \in Threads : u # t => cur[u] = None /\ cur'[u] = None
    BY <1>3, <1>b, <2>1, OneHolder DEF Finishes
  <2>3. InHand(l)' = {}
    BY <2>2 DEF InHand
  <2>4. UNCHANGED <<queue, posted>>
    BY <1>3 DEF Finishes
  <2>5. CASE cur[t].kind # l
    <3>1. InHand(l) = {}
      BY <2>2, <2>5 DEF InHand
    <3>2. done'[l] = done[l]
      BY <1>3, <1>b, <2>5 DEF Finishes
    <3>. QED  BY <1>c, <2>3, <2>4, <3>1, <3>2
  <2>6. CASE cur[t].kind = l
    <3>1. InHand(l) = {t}
      BY <2>1, <2>2, <2>6 DEF InHand
    <3>2. done'[l] = Append(done[l], cur[t])
      BY <1>3, <1>b, <2>6 DEF Finishes
    <3>3. Append(done[l], cur[t]) = done[l] \o <<cur[t]>>
      BY <1>a, <2>1, AppendIsConcat
    <3>. QED  BY <1>c, <2>3, <2>4, <3>1, <3>2, <3>3
  <2>. QED  BY <2>5, <2>6
<1>4. ASSUME UNCHANGED <<queue, posted, done, cur>>
      PROVE  IF InHand(l)' = {}
             THEN posted'[l] = done'[l] \o queue'[l]
             ELSE \E u \in InHand(l)' : posted'[l] = done'[l] \o <<cur'[u]>> \o queue'[l]
  BY <1>c, <1>4 DEF InHand
<1>. QED  BY <1>1, <1>2, <1>3, <1>4, StepKinds

(* Nothing a mailbox accepts is lost, duplicated or finished out of order,  *)
(* whatever the threads, the dispatcher and the handlers do.                *)
THEOREM OrderPreserved == Spec => []DeliveryOrder
<1>1. Init => KindInv /\ DeliveryOrder
  <2>. SUFFICES ASSUME Init PROVE KindInv /\ DeliveryOrder
    OBVIOUS
  <2>1. \A k \in Kinds : queue[k] = <<>> /\ posted[k] = <<>> /\ done[k] = <<>>
    BY DEF Init
  <2>2. \A k \in Kinds : InHand(k) = {}
    BY DEF Init, InHand
  <2>3. <<>> \o <<>> = <<>>
    BY ConcatEmptySeq, EmptySeq
  <2>4. KindInv
    BY <2>1 DEF KindInv
  <2>. QED  BY <2>1, <2>2, <2>3, <2>4 DEF DeliveryOrder, InHand
<1>2. OwnerInv /\ KindInv /\ DeliveryOrder /\ [Next]_vars => (KindInv /\ DeliveryOrder)'
  BY NextKind, NextOrder
<1>. QED  BY <1>1, <1>2, OwnerInvariant, PTL DEF Spec

-----------------------------------------------------------------------------
(* Priority of system messages                                              *)

(* Ids grow: what waits or was overtaken is older than the next message.    *)
AgeInv ==
    /\ \A j \in 1..Len(queue["sys"]) : queue["sys"][j].id < NextId
    /\ \A m \in overtaken : m.id < NextId

(* A thread arrives at the user queue only after finding the system queue   *)
(* empty.                                                                   *)
LEMMA ArriveAtPopUser ==
    ASSUME OwnerInv, [Next]_vars, NEW t \in Threads, pc'[t] = "popUser"
    PROVE  pc[t] = "popUser" \/ (queue["sys"] = <<>> /\ queue' = queue)
<1>. USE DEF OwnerInv, TypeOK, LocalType
<1>1. ASSUME NEW u \in Threads, NEW k \in Kinds, Push(u, k) PROVE pc[t] = "popUser"
  BY <1>1 DEF Push, Goto
<1>2. ASSUME NEW u \in Threads,
             \/ Count(u) \/ Schedule(u) \/ SubmitTask(u) \/ RunInline(u) \/ RunTask(u)
      PROVE  pc[t] = "popUser"
  BY <1>2 DEF Count, Schedule, SubmitTask, RunInline, RunTask, BeginProcessMessages, Goto
<1>3. ASSUME NEW u \in Threads, PopSystem(u)
      PROVE  pc[t] = "popUser" \/ (queue["sys"] = <<>> /\ queue' = queue)
  BY <1>3 DEF PopSystem, Pop, Goto
<1>4. ASSUME NEW u \in Threads,
             PopUser(u) \/ Invoke(u) \/ HandlerReturns(u) \/ HandlerThrows(u)
      PROVE  pc[t] = "popUser"
  BY <1>4 DEF PopUser, Pop, Invoke, HandlerReturns, HandlerThrows, Goto
<1>5. ASSUME NEW u \in Threads,
             \/ StoreIdle(u) \/ FlushStore(u) \/ LoadSys(u) \/ LoadUser(u)
             \/ Reacquire(u)
      PROVE  pc[t] = "popUser"
  BY <1>5 DEF StoreIdle, FlushStore, LoadSys, LoadUser, Reacquire, Goto
<1>6. ASSUME NEW how \in {"Shutdown", "ShutdownNow"}, StopPool(how)
      PROVE  pc[t] = "popUser"
  BY <1>6 DEF StopPool, local
<1>7. CASE UNCHANGED vars
  BY <1>7 DEF vars, local
<1>. QED
  BY <1>1, <1>2, <1>3, <1>4, <1>5, <1>6, <1>7
  DEF Next, Step, PostUserMessage, PostSystemMessage, Kinds

(* Every step preserves the ages and the bound on overtaking.               *)
LEMMA NextOvertake ==
    OwnerInv /\ AgeInv /\ BoundedOvertaking /\ [Next]_vars
        => (AgeInv /\ BoundedOvertaking)'
<1>. SUFFICES ASSUME OwnerInv, AgeInv, BoundedOvertaking, [Next]_vars
              PROVE  AgeInv' /\ BoundedOvertaking'
  OBVIOUS
<1>a. /\ queue["sys"] \in Seq(Messages) /\ posted["sys"] \in Seq(Messages)
      /\ posted["user"] \in Seq(Messages)
      /\ Len(queue["sys"]) \in Nat
  BY DEF OwnerInv, TypeOK, SharedType, HistoryType, Kinds
<1>b. NextId \in Nat
  BY DEF OwnerInv, TypeOK, HistoryType, Kinds, NextId
<1>c. DOMAIN queue = Kinds /\ DOMAIN posted = Kinds /\ DOMAIN pc = Threads
      /\ "sys" \in Kinds /\ "user" \in Kinds
  BY DEF OwnerInv, TypeOK, SharedType, HistoryType, LocalType, Kinds
<1>d. \A m \in Messages : m.id \in Nat
  BY MailboxAssumption DEF Messages
<1>e. overtaken \subseteq Messages /\ \A j \in 1..Len(queue["sys"]) : queue["sys"][j] \in Messages
  BY <1>a DEF OwnerInv, TypeOK, HistoryType
<1>1. ASSUME NEW k \in Kinds, Posts(k) PROVE AgeInv' /\ BoundedOvertaking'
  <2>1. PICK m \in Messages :
            /\ m.kind = k /\ m.id = NextId
            /\ queue' = [queue EXCEPT ![k] = Append(queue[k], m)]
            /\ posted' = [posted EXCEPT ![k] = Append(posted[k], m)]
            /\ overtaken' = overtaken
    BY <1>1 DEF Posts
  <2>2. NextId' = NextId + 1
    <3>0. /\ posted \in [Kinds -> Seq(Messages)]
          /\ posted' \in [Kinds -> Seq(Messages)]
      BY NextType DEF OwnerInv, TypeOK, HistoryType
    <3>1. CASE k = "user"
      <4>1. posted'["user"] = Append(posted["user"], m) /\ posted'["sys"] = posted["sys"]
        BY <1>c, <2>1, <3>1
      <4>2. Len(posted'["user"]) = Len(posted["user"]) + 1
        BY <1>a, <4>1, AppendProperties
      <4>. QED  BY <3>0, <4>1, <4>2 DEF NextId, Kinds
    <3>2. CASE k = "sys"
      <4>1. posted'["sys"] = Append(posted["sys"], m) /\ posted'["user"] = posted["user"]
        BY <1>c, <2>1, <3>2
      <4>2. Len(posted'["sys"]) = Len(posted["sys"]) + 1
        BY <1>a, <4>1, AppendProperties
      <4>. QED  BY <3>0, <4>1, <4>2 DEF NextId, Kinds
    <3>. QED  BY <3>1, <3>2 DEF Kinds
  <2>3. \A j \in 1..Len(queue'["sys"]) :
            queue'["sys"][j] = m \/ \E i \in 1..Len(queue["sys"]) : queue'["sys"][j] = queue["sys"][i]
    <3>1. CASE k = "user"
      BY <1>c, <2>1, <3>1
    <3>2. CASE k = "sys"
      <4>1. queue'["sys"] = Append(queue["sys"], m)
        BY <1>c, <2>1, <3>2
      <4>2. Len(queue'["sys"]) = Len(queue["sys"]) + 1
        BY <1>a, <4>1, AppendProperties
      <4>3. \A j \in 1..Len(queue["sys"]) : queue'["sys"][j] = queue["sys"][j]
        BY <1>a, <4>1, AppendProperties
      <4>4. queue'["sys"][Len(queue["sys"]) + 1] = m
        BY <1>a, <4>1, AppendProperties
      <4>5. Len(queue["sys"]) \in Nat
        BY <1>a
      <4>. QED  BY <4>2, <4>3, <4>4, <4>5
    <3>. QED  BY <3>1, <3>2 DEF Kinds
  <2>4. AgeInv'
    <3>1. \A j \in 1..Len(queue'["sys"]) : queue'["sys"][j].id < NextId'
      BY <1>b, <1>d, <1>e, <2>1, <2>2, <2>3 DEF AgeInv
    <3>2. \A n \in overtaken' : n.id < NextId'
      BY <1>b, <1>d, <1>e, <2>1, <2>2 DEF AgeInv
    <3>. QED  BY <3>1, <3>2 DEF AgeInv
  <2>5. m \notin overtaken
    BY <1>b, <2>1 DEF AgeInv
  <2>6. queue'["sys"] \in Seq(Messages)
    BY <1>a, <1>c, <2>1, AppendProperties DEF Kinds
  <2>7. DOMAIN queue'["sys"] = 1..Len(queue'["sys"]) /\ DOMAIN queue["sys"] = 1..Len(queue["sys"])
    BY <1>a, <2>6, LenProperties
  <2>8. \A t \in Threads : pc'[t] = "popUser" => pc[t] = "popUser" \/ queue["sys"] = <<>>
    BY ArriveAtPopUser
  <2>9. queue["sys"] = <<>> => Elements(queue["sys"]) = {}
    BY DEF Elements
  <2>10. Elements(queue'["sys"]) \subseteq Elements(queue["sys"]) \cup {m}
    BY <2>3, <2>7 DEF Elements
  <2>11. BoundedOvertaking'
    <3>1. SUFFICES ASSUME NEW t \in Threads, pc'[t] = "popUser"
                   PROVE  overtaken' \cap Elements(queue'["sys"]) = {}
      BY DEF BoundedOvertaking, Elements
    <3>2. overtaken \cap Elements(queue["sys"]) = {}
      BY <2>8, <2>9, <3>1 DEF BoundedOvertaking
    <3>. QED  BY <2>1, <2>5, <2>10, <3>2
  <2>. QED  BY <2>4, <2>11
<1>2. ASSUME NEW t \in Threads, NEW k \in Kinds, Pops(t, k)
      PROVE  AgeInv' /\ BoundedOvertaking'
  <2>1. NextId' = NextId
    BY <1>2 DEF Pops, NextId
  <2>2. \A j \in 1..Len(queue'["sys"]) :
            \E i \in 1..Len(queue["sys"]) : queue'["sys"][j] = queue["sys"][i]
    <3>1. CASE k = "user"
      BY <1>2, <1>c, <3>1 DEF Pops
    <3>2. CASE k = "sys"
      <4>1. queue'["sys"] = Tail(queue["sys"]) /\ queue["sys"] # <<>>
        BY <1>2, <1>c, <3>2 DEF Pops
      <4>2. Len(Tail(queue["sys"])) = Len(queue["sys"]) - 1
        BY <1>a, <4>1, HeadTailProperties
      <4>3. \A i \in 1..Len(Tail(queue["sys"])) : Tail(queue["sys"])[i] = queue["sys"][i + 1]
        BY <1>a, <4>1, HeadTailProperties
      <4>. QED  BY <1>a, <4>1, <4>2, <4>3
    <3>. QED  BY <3>1, <3>2 DEF Kinds
  <2>3. queue'["sys"] \in Seq(Messages)
    BY <1>2, <1>a, <1>c, HeadTail DEF Pops, Kinds
  <2>4. DOMAIN queue'["sys"] = 1..Len(queue'["sys"]) /\ DOMAIN queue["sys"] = 1..Len(queue["sys"])
    BY <1>a, <2>3, LenProperties
  <2>5. Elements(queue'["sys"]) \subseteq Elements(queue["sys"])
    BY <2>2, <2>4 DEF Elements
  <2>6. \A n \in Elements(queue["sys"]) : n.id < NextId
    BY <2>4 DEF Elements, AgeInv
  <2>7. overtaken' \subseteq overtaken \cup Elements(queue["sys"])
    BY <1>2 DEF Pops
  <2>8. AgeInv'
    <3>1. \A j \in 1..Len(queue'["sys"]) : queue'["sys"][j].id < NextId
      BY <2>2 DEF AgeInv
    <3>2. \A n \in overtaken' : n.id < NextId
      BY <2>6, <2>7 DEF AgeInv
    <3>. QED  BY <2>1, <3>1, <3>2 DEF AgeInv
  <2>9. Owner(t) /\ pc'[t] = "sub"
    BY <1>2, <1>c DEF Pops, Owner, Active, RunPlaces
  <2>10. \A u \in Threads : pc'[u] # "popUser"
    <3>1. SUFFICES ASSUME NEW u \in Threads, u # t PROVE pc'[u] # "popUser"
      BY <2>9
    <3>2. ~Owner(u)
      BY <2>9, <3>1 DEF OwnerInv, TokenInv
    <3>3. pc'[u] = pc[u]
      BY <1>2, <1>c, <3>1 DEF Pops
    <3>. QED  BY <3>2, <3>3 DEF Owner, Active, RunPlaces
  <2>. QED  BY <2>8, <2>10 DEF BoundedOvertaking
<1>3. ASSUME UNCHANGED <<queue, posted, overtaken>>
      PROVE  AgeInv' /\ BoundedOvertaking'
  <2>1. AgeInv'
    BY <1>3 DEF AgeInv, NextId
  <2>2. queue["sys"] = <<>> => Elements(queue["sys"]) = {}
    BY DEF Elements
  <2>. QED  BY <1>3, <2>1, <2>2, ArriveAtPopUser DEF BoundedOvertaking, Elements
<1>. QED  BY <1>1, <1>2, <1>3, StepKinds DEF Finishes

(* A system message waits for at most one user message taken ahead of it.   *)
THEOREM SystemMessagesFirst == Spec => []BoundedOvertaking
<1>1. Init => AgeInv /\ BoundedOvertaking
  BY DEF Init, AgeInv, BoundedOvertaking, Kinds
<1>2. OwnerInv /\ AgeInv /\ BoundedOvertaking /\ [Next]_vars
         => (AgeInv /\ BoundedOvertaking)'
  BY NextOvertake
<1>. QED  BY <1>1, <1>2, OwnerInvariant, PTL DEF Spec

-----------------------------------------------------------------------------
(* Refinement                                                               *)

(* What the abstract actor has in its hands.                                *)
Taking == {cur[t] : t \in Threads} \ {None}

(* Every step of the mailbox is a step of the serial actor or changes       *)
(* nothing it can see.                                                      *)
LEMMA SerialStep ==
    ASSUME OwnerInv, KindInv, BoundedOvertaking, [Next]_vars
    PROVE  [Serial!Next]_(Serial!vars)
<1>a. DOMAIN cur = Threads
  BY DEF OwnerInv, TypeOK, LocalType
<1>1. ASSUME NEW k \in Kinds, Posts(k) PROVE Serial!Next
  <2>1. PICK m \in Messages :
            /\ m.kind = k
            /\ queue' = [queue EXCEPT ![k] = Append(queue[k], m)]
            /\ UNCHANGED <<cur, done, overtaken>>
    BY <1>1 DEF Posts
  <2>2. Serial!Post(m)
    BY <2>1 DEF Serial!Post
  <2>. QED  BY <2>2 DEF Serial!Next
<1>2. ASSUME NEW t \in Threads, NEW k \in Kinds, Pops(t, k) PROVE Serial!Next
  <2>1. \A u \in Threads : cur[u] = None
    BY <1>2, OneHolder DEF Pops
  <2>2. Taking = {}
    BY <2>1 DEF Taking
  <2>3. Head(queue[k]) \in Messages
    BY <1>2, HeadTail DEF Pops, OwnerInv, TypeOK, SharedType
  <2>4. cur'[t] = Head(queue[k]) /\ \A u \in Threads : u # t => cur'[u] = None
    BY <1>2, <1>a, <2>1 DEF Pops
  <2>5. Taking' = {Head(queue[k])}
    BY <2>3, <2>4, MailboxAssumption DEF Taking
  <2>6. CASE k = "sys"
    <3>1. Serial!TakeSystem
      BY <1>2, <2>2, <2>5, <2>6 DEF Pops, Serial!TakeSystem, Taking
    <3>. QED  BY <3>1 DEF Serial!Next
  <2>7. CASE k = "user"
    <3>1. overtaken \cap Elements(queue["sys"]) = {}
      BY <1>2, <2>7 DEF Pops, BoundedOvertaking
    <3>2. Serial!TakeUser
      BY <1>2, <2>2, <2>5, <2>7, <3>1
      DEF Pops, Serial!TakeUser, Serial!Waiting, Elements, Taking
    <3>. QED  BY <3>2 DEF Serial!Next
  <2>. QED  BY <2>6, <2>7 DEF Kinds
<1>3. ASSUME NEW t \in Threads, Finishes(t) PROVE Serial!Next
  <2>1. cur[t] \in Messages /\ cur[t] # None
    BY <1>3, MailboxAssumption DEF Finishes
  <2>2. \A u \in Threads : u # t => cur[u] = None
    BY <2>1, OneHolder
  <2>3. Taking = {cur[t]}
    BY <2>1, <2>2 DEF Taking
  <2>4. \A u \in Threads : cur'[u] = None
    BY <1>3, <1>a, <2>2 DEF Finishes
  <2>5. Taking' = {}
    BY <2>4 DEF Taking
  <2>6. PICK m \in Messages : m = cur[t]
    BY <2>1
  <2>7. Serial!Finish(m)
    BY <1>3, <2>3, <2>5, <2>6 DEF Finishes, Serial!Finish, Taking
  <2>. QED  BY <2>7 DEF Serial!Next
<1>4. ASSUME UNCHANGED <<queue, posted, done, cur, overtaken>>
      PROVE  UNCHANGED Serial!vars
  BY <1>4 DEF Serial!vars
<1>. QED  BY <1>1, <1>2, <1>3, <1>4, StepKinds

(* The mailbox, with all its threads, exceptions and stopped pools, is a    *)
(* serial actor: one message at a time, in order, system messages first.    *)
THEOREM MailboxIsSerial == Spec => SerialSpec
<1>1. Init => Serial!Init /\ KindInv /\ AgeInv /\ BoundedOvertaking
  BY DEF Init, Serial!Init, Kinds, KindInv, AgeInv, BoundedOvertaking
<1>2. OwnerInv /\ KindInv /\ AgeInv /\ BoundedOvertaking /\ [Next]_vars
         => (KindInv /\ AgeInv /\ BoundedOvertaking)' /\ [Serial!Next]_(Serial!vars)
  BY NextKind, NextOvertake, SerialStep
<1>. QED  BY <1>1, <1>2, OwnerInvariant, PTL DEF Spec, SerialSpec, Serial!Spec

-----------------------------------------------------------------------------
(* Posts on their way                                                       *)

(* Posts between Push and fetch_add, messages between Pop and fetch_sub.    *)
Counting(k) == {t \in Threads : pc[t] = "count" /\ posting[t] = k}
Subtracting(k) == {t \in Threads : pc[t] = "sub" /\ cur[t].kind = k}

(* The mailbox's invariants so far.                                         *)
BaseInv == OwnerInv /\ KindInv

(* BaseInv is an invariant.                                                 *)
LEMMA BaseInvariant == Spec => []BaseInv
<1>1. Init => KindInv
  BY DEF Init, KindInv
<1>2. OwnerInv /\ KindInv /\ [Next]_vars => KindInv'
  BY NextKind
<1>. QED  BY <1>1, <1>2, OwnerInvariant, PTL DEF Spec, BaseInv

-----------------------------------------------------------------------------
(* The counters                                                             *)

(* Threads are finitely many, and so are those of each set.                 *)
LEMMA SetsFinite ==
    ASSUME NEW k
    PROVE  /\ IsFiniteSet(Counting(k)) /\ Cardinality(Counting(k)) \in Nat
           /\ IsFiniteSet(Subtracting(k)) /\ Cardinality(Subtracting(k)) \in Nat
<1>1. IsFiniteSet(Threads)
  BY MailboxAssumption, FS_Union DEF Threads
<1>2. Counting(k) \in SUBSET Threads /\ Subtracting(k) \in SUBSET Threads
  BY DEF Counting, Subtracting
<1>3. IsFiniteSet(Counting(k)) /\ IsFiniteSet(Subtracting(k))
  BY <1>1, <1>2, FS_Subset
<1>. QED  BY <1>3, FS_CardinalityType

(* A step of t that neither begins nor ends at an update of a counter       *)
(* leaves both sets alone.                                                  *)
LEMMA SetsKept ==
    ASSUME NEW t \in Threads,
           {pc[t], pc'[t]} \cap {"count", "sub"} = {},
           \A u \in Threads : u # t => /\ pc'[u] = pc[u] /\ cur'[u] = cur[u]
                                       /\ posting'[u] = posting[u]
    PROVE  \A k \in Kinds : Counting(k)' = Counting(k) /\ Subtracting(k)' = Subtracting(k)
BY DEF Counting, Subtracting

(* Push puts t among the posts that are not counted yet.                    *)
LEMMA PushCounts ==
    ASSUME OwnerInv, NEW t \in Threads, NEW k \in Kinds, Push(t, k)
    PROVE  /\ Counting(k)' = Counting(k) \cup {t} /\ t \notin Counting(k)
           /\ \A l \in Kinds : l # k => Counting(l)' = Counting(l)
           /\ \A l \in Kinds : Subtracting(l)' = Subtracting(l)
<1>1. /\ pc[t] \notin {"count", "sub"} /\ pc'[t] = "count" /\ posting'[t] = k
      /\ \A u \in Threads : u # t => pc'[u] = pc[u] /\ posting'[u] = posting[u]
      /\ cur' = cur
  BY DEF Push, Goto, OwnerInv, TypeOK, LocalType
<1>. QED  BY <1>1 DEF Counting, Subtracting

(* fetch_add takes t out of them.                                           *)
LEMMA CountCounts ==
    ASSUME OwnerInv, NEW t \in Threads, Count(t)
    PROVE  /\ Counting(posting[t])' = Counting(posting[t]) \ {t} /\ t \in Counting(posting[t])
           /\ \A l \in Kinds : l # posting[t] => Counting(l)' = Counting(l)
           /\ \A l \in Kinds : Subtracting(l)' = Subtracting(l)
<1>1. /\ pc[t] = "count" /\ pc'[t] = "schedule"
      /\ \A u \in Threads : u # t => pc'[u] = pc[u]
      /\ cur' = cur /\ posting' = posting
  BY DEF Count, Goto, OwnerInv, TypeOK, LocalType
<1>. QED  BY <1>1 DEF Counting, Subtracting

(* Pop puts t among the messages that are still counted.                    *)
LEMMA PopCounts ==
    ASSUME BaseInv, NEW t \in Threads, NEW k \in Kinds, Pops(t, k), posting' = posting
    PROVE  /\ Subtracting(k)' = Subtracting(k) \cup {t} /\ t \notin Subtracting(k)
           /\ \A l \in Kinds : l # k => Subtracting(l)' = Subtracting(l)
           /\ \A l \in Kinds : Counting(l)' = Counting(l)
<1>1. queue[k] \in Seq(Messages) /\ queue[k] # <<>>
  BY DEF BaseInv, OwnerInv, TypeOK, SharedType, Pops
<1>2. Head(queue[k]).kind = k
  BY <1>1 DEF BaseInv, KindInv
<1>3. /\ pc[t] \notin {"count", "sub"} /\ pc'[t] = "sub" /\ cur'[t] = Head(queue[k])
      /\ \A u \in Threads : u # t => pc'[u] = pc[u] /\ cur'[u] = cur[u]
  BY DEF Pops, BaseInv, OwnerInv, TypeOK, LocalType
<1>. QED  BY <1>2, <1>3 DEF Counting, Subtracting

(* fetch_sub takes t out of them.                                           *)
LEMMA InvokeCounts ==
    ASSUME OwnerInv, NEW t \in Threads, Invoke(t)
    PROVE  /\ cur[t].kind \in Kinds
           /\ Subtracting(cur[t].kind)' = Subtracting(cur[t].kind) \ {t}
           /\ t \in Subtracting(cur[t].kind)
           /\ \A l \in Kinds : l # cur[t].kind => Subtracting(l)' = Subtracting(l)
           /\ \A l \in Kinds : Counting(l)' = Counting(l)
<1>1. /\ pc[t] = "sub" /\ pc'[t] = "handler"
      /\ \A u \in Threads : u # t => pc'[u] = pc[u]
      /\ cur' = cur /\ posting' = posting
  BY DEF Invoke, Goto, OwnerInv, TypeOK, LocalType
<1>2. cur[t] \in Messages
  BY <1>1 DEF OwnerInv, HoldInv, TypeOK, LocalType
<1>. QED  BY <1>1, <1>2 DEF Counting, Subtracting, Messages

(* The other steps of t.                                                    *)
Elsewhere(t) ==
    \/ Schedule(t) \/ SubmitTask(t) \/ RunInline(t) \/ RunTask(t)
    \/ HandlerReturns(t) \/ HandlerThrows(t) \/ StoreIdle(t) \/ FlushStore(t)
    \/ LoadSys(t) \/ LoadUser(t) \/ Reacquire(t)

(* None of them begins or ends at an update of a counter.                   *)
LEMMA ElsewhereKeeps ==
    ASSUME OwnerInv, NEW t \in Threads,
           Elsewhere(t) \/ ((PopSystem(t) \/ PopUser(t)) /\ UNCHANGED <<queue, cur>>)
    PROVE  /\ {pc[t], pc'[t]} \cap {"count", "sub"} = {}
           /\ \A u \in Threads : u # t => /\ pc'[u] = pc[u] /\ cur'[u] = cur[u]
                                          /\ posting'[u] = posting[u]
           /\ UNCHANGED <<counter, queue>>
<1>. USE DEF Goto, OwnerInv, TypeOK, LocalType
<1>1. CASE Schedule(t) \/ SubmitTask(t)
  BY <1>1 DEF Schedule, SubmitTask
<1>2. CASE RunInline(t) \/ RunTask(t)
  BY <1>2 DEF RunInline, RunTask, BeginProcessMessages, shared
<1>3. CASE HandlerReturns(t) \/ HandlerThrows(t)
  BY <1>3 DEF HandlerReturns, HandlerThrows, Finish, shared
<1>4. CASE StoreIdle(t) \/ FlushStore(t)
  BY <1>4 DEF StoreIdle, FlushStore, PlaceInv, CheckPlaces
<1>5. CASE LoadSys(t) \/ LoadUser(t) \/ Reacquire(t)
  BY <1>5 DEF LoadSys, LoadUser, Reacquire, shared
<1>6. CASE (PopSystem(t) \/ PopUser(t)) /\ UNCHANGED <<queue, cur>>
  <2>1. SharedType
    OBVIOUS
  <2>2. \A k \in Kinds : queue[k] # <<>> => queue[k] # Tail(queue[k])
    BY <2>1 DEF SharedType
  <2>3. ~Pop(t, "sys") \/ queue["sys"] = <<>>
    BY <1>6, <2>1, <2>2 DEF Pop, SharedType, Kinds
  <2>4. ~Pop(t, "user") \/ queue["user"] = <<>>
    BY <1>6, <2>1, <2>2 DEF Pop, SharedType, Kinds
  <2>. QED  BY <1>6, <2>3, <2>4 DEF PopSystem, PopUser
<1>. QED  BY <1>1, <1>2, <1>3, <1>4, <1>5, <1>6 DEF Elsewhere

(* A Pop of the loop that finds its queue empty.                            *)
IdlePop(t) == (PopSystem(t) \/ PopUser(t)) /\ UNCHANGED <<queue, cur>>

(* The steps of the mailbox, as the counters tell them apart.               *)
LEMMA CounterSteps ==
    ASSUME [Next]_vars
    PROVE  \/ \E t \in Threads, k \in Kinds : Push(t, k)
           \/ \E t \in Threads : Count(t)
           \/ \E t \in Threads, k \in Kinds :
                 Pops(t, k) /\ (PopSystem(t) \/ PopUser(t)) /\ UNCHANGED <<posting, counter>>
           \/ \E t \in Threads : Invoke(t)
           \/ \E t \in Threads : Elsewhere(t) \/ IdlePop(t)
           \/ UNCHANGED <<counter, queue, local>>
<1>1. ASSUME NEW t \in Threads, PopSystem(t)
      PROVE  (Pops(t, "sys") /\ UNCHANGED <<posting, counter>>) \/ IdlePop(t)
  BY <1>1 DEF PopSystem, Pop, Pops, Goto, history, IdlePop
<1>2. ASSUME NEW t \in Threads, PopUser(t)
      PROVE  (Pops(t, "user") /\ UNCHANGED <<posting, counter>>) \/ IdlePop(t)
  BY <1>2 DEF PopUser, Pop, Pops, Goto, IdlePop
<1>3. ASSUME NEW t \in Threads, Step(t)
      PROVE  \/ Count(t) \/ Invoke(t) \/ Elsewhere(t) \/ PopSystem(t) \/ PopUser(t)
  BY <1>3 DEF Step, Elsewhere
<1>4. ASSUME NEW t \in Threads, HandlerThrows(t) \/ FlushStore(t)
      PROVE  Elsewhere(t)
  BY <1>4 DEF Elsewhere
<1>5. ASSUME NEW how, StopPool(how) PROVE UNCHANGED <<counter, queue, local>>
  BY <1>5 DEF StopPool
<1>6. CASE UNCHANGED vars
  BY <1>6 DEF vars, shared
<1>. QED
  BY <1>1, <1>2, <1>3, <1>4, <1>5, <1>6
  DEF Next, PostUserMessage, PostSystemMessage, Kinds

(* CounterExact in terms of the two sets.                                   *)
Exact(k) ==
    counter[k] = Len(queue[k]) - Cardinality(Counting(k)) + Cardinality(Subtracting(k))

(* Exact is what CounterExact says of each kind.                            *)
LEMMA ExactIs == CounterExact <=> \A k \in Kinds : Exact(k)
BY DEF CounterExact, Exact, Counting, Subtracting

(* A step of the mailbox keeps the counters exact.                          *)
LEMMA NextCounter ==
    ASSUME BaseInv, \A k \in Kinds : Exact(k), [Next]_vars
    PROVE  \A k \in Kinds : Exact(k)'
<1>. SUFFICES ASSUME NEW l \in Kinds PROVE Exact(l)'
  OBVIOUS
<1>a. /\ queue \in [Kinds -> Seq(Messages)] /\ counter \in [Kinds -> Int]
      /\ OwnerInv /\ posting \in [Threads -> Kinds]
  BY DEF BaseInv, OwnerInv, TypeOK, SharedType, LocalType
<1>b. Exact(l) /\ Len(queue[l]) \in Nat
  BY <1>a, LenProperties
<1>c. /\ IsFiniteSet(Counting(l)) /\ Cardinality(Counting(l)) \in Nat
      /\ IsFiniteSet(Subtracting(l)) /\ Cardinality(Subtracting(l)) \in Nat
  BY SetsFinite
<1>1. ASSUME NEW t \in Threads, NEW k \in Kinds, Push(t, k) PROVE Exact(l)'
  <2>1. /\ counter' = counter
        /\ queue' = [queue EXCEPT ![k] = Append(@, [kind |-> k, id |-> NextId])]
    BY <1>1 DEF Push
  <2>2. Subtracting(l)' = Subtracting(l)
    BY <1>a, <1>1, PushCounts
  <2>3. CASE l # k
    <3>1. Counting(l)' = Counting(l)
      BY <1>a, <1>1, <2>3, PushCounts
    <3>. QED  BY <1>a, <1>b, <2>1, <2>2, <2>3, <3>1 DEF Exact
  <2>4. CASE l = k
    <3>1. Counting(l)' = Counting(l) \cup {t} /\ t \notin Counting(l)
      BY <1>a, <1>1, <2>4, PushCounts
    <3>2. Cardinality(Counting(l)') = Cardinality(Counting(l)) + 1
      BY <1>c, <3>1, FS_AddElement
    <3>3. [kind |-> k, id |-> NextId] \in Messages
      BY <1>1, NewMessage DEF Push, BaseInv, OwnerInv, TypeOK
    <3>4. Len(queue'[l]) = Len(queue[l]) + 1
      BY <1>a, <2>1, <2>4, <3>3, AppendProperties
    <3>. QED  BY <1>b, <1>c, <2>1, <2>2, <3>2, <3>4 DEF Exact
  <2>. QED  BY <2>3, <2>4
<1>2. ASSUME NEW t \in Threads, Count(t) PROVE Exact(l)'
  <2>1. queue' = queue /\ counter' = [counter EXCEPT ![posting[t]] = @ + 1]
    BY <1>2 DEF Count
  <2>2. Subtracting(l)' = Subtracting(l)
    BY <1>a, <1>2, CountCounts
  <2>3. CASE l # posting[t]
    <3>1. Counting(l)' = Counting(l)
      BY <1>a, <1>2, <2>3, CountCounts
    <3>. QED  BY <1>a, <1>b, <2>1, <2>2, <2>3, <3>1 DEF Exact
  <2>4. CASE l = posting[t]
    <3>1. posting' = posting
      BY <1>2 DEF Count
    <3>2. Counting(l)' = Counting(l) \ {t} /\ t \in Counting(l)
      BY <1>a, <1>2, <2>4, <3>1, CountCounts DEF Counting
    <3>3. Cardinality(Counting(l)') = Cardinality(Counting(l)) - 1
      BY <1>c, <3>2, FS_RemoveElement
    <3>4. counter'[l] = counter[l] + 1
      BY <1>a, <2>1, <2>4
    <3>. QED  BY <1>a, <1>b, <1>c, <2>1, <2>2, <3>3, <3>4 DEF Exact
  <2>. QED  BY <2>3, <2>4
<1>3. ASSUME NEW t \in Threads, NEW k \in Kinds, Pops(t, k), UNCHANGED <<posting, counter>>
      PROVE  Exact(l)'
  <2>1. queue' = [queue EXCEPT ![k] = Tail(queue[k])] /\ queue[k] # <<>> /\ counter' = counter
    BY <1>3 DEF Pops
  <2>2. Counting(l)' = Counting(l)
    BY <1>3, PopCounts
  <2>3. CASE l # k
    <3>1. Subtracting(l)' = Subtracting(l)
      BY <1>3, <2>3, PopCounts
    <3>. QED  BY <1>a, <1>b, <2>1, <2>2, <2>3, <3>1 DEF Exact
  <2>4. CASE l = k
    <3>1. Subtracting(l)' = Subtracting(l) \cup {t} /\ t \notin Subtracting(l)
      BY <1>3, <2>4, PopCounts
    <3>2. Cardinality(Subtracting(l)') = Cardinality(Subtracting(l)) + 1
      BY <1>c, <3>1, FS_AddElement
    <3>3. Len(queue'[l]) = Len(queue[l]) - 1
      <4>1. queue'[l] = Tail(queue[l])
        BY <1>a, <2>1, <2>4
      <4>2. queue[l] \in Seq(Messages) /\ queue[l] # <<>>
        BY <1>a, <2>1, <2>4
      <4>3. Len(Tail(queue[l])) = Len(queue[l]) - 1
        BY <4>2, HeadTailProperties
      <4>. QED  BY <4>1, <4>3
    <3>4. \A n, i, j \in Int : n - i + j = (n - 1) - i + (j + 1)
      OBVIOUS
    <3>5. /\ Len(queue[l]) \in Int /\ Cardinality(Counting(l)) \in Int
          /\ Cardinality(Subtracting(l)) \in Int
      BY <1>a, <1>c, FS_CardinalityType, LenProperties
    <3>. QED  BY <1>b, <2>1, <2>2, <3>2, <3>3, <3>4, <3>5 DEF Exact
  <2>. QED  BY <2>3, <2>4
<1>4. ASSUME NEW t \in Threads, Invoke(t) PROVE Exact(l)'
  <2>1. queue' = queue /\ counter' = [counter EXCEPT ![cur[t].kind] = @ - 1]
    BY <1>4 DEF Invoke
  <2>2. Counting(l)' = Counting(l)
    BY <1>a, <1>4, InvokeCounts
  <2>3. CASE l # cur[t].kind
    <3>1. Subtracting(l)' = Subtracting(l)
      BY <1>a, <1>4, <2>3, InvokeCounts
    <3>. QED  BY <1>a, <1>b, <2>1, <2>2, <2>3, <3>1 DEF Exact
  <2>4. CASE l = cur[t].kind
    <3>1. cur' = cur
      BY <1>4 DEF Invoke
    <3>2. Subtracting(l)' = Subtracting(l) \ {t} /\ t \in Subtracting(l)
      BY <1>a, <1>4, <2>4, <3>1, InvokeCounts DEF Subtracting
    <3>3. Cardinality(Subtracting(l)') = Cardinality(Subtracting(l)) - 1
      BY <1>c, <3>2, FS_RemoveElement
    <3>4. counter'[l] = counter[l] - 1
      BY <1>a, <2>1, <2>4
    <3>. QED  BY <1>a, <1>b, <1>c, <2>1, <2>2, <3>3, <3>4 DEF Exact
  <2>. QED  BY <2>3, <2>4
<1>5. ASSUME NEW t \in Threads, Elsewhere(t) \/ IdlePop(t) PROVE Exact(l)'
  <2>1. /\ {pc[t], pc'[t]} \cap {"count", "sub"} = {}
        /\ \A u \in Threads : u # t => /\ pc'[u] = pc[u] /\ cur'[u] = cur[u]
                                       /\ posting'[u] = posting[u]
        /\ UNCHANGED <<counter, queue>>
    BY <1>a, <1>5, ElsewhereKeeps DEF IdlePop
  <2>2. Counting(l)' = Counting(l) /\ Subtracting(l)' = Subtracting(l)
    BY <2>1, SetsKept
  <2>. QED  BY <1>b, <2>1, <2>2 DEF Exact
<1>6. CASE UNCHANGED <<counter, queue, local>>
  <2>1. Counting(l)' = Counting(l) /\ Subtracting(l)' = Subtracting(l)
    BY <1>6 DEF local, Counting, Subtracting
  <2>. QED  BY <1>b, <1>6, <2>1 DEF Exact
<1>. QED  BY <1>1, <1>2, <1>3, <1>4, <1>5, <1>6, CounterSteps

(* The counters are exact at the beginning.                                 *)
LEMMA InitCounter == Init => \A k \in Kinds : Exact(k)
<1>. SUFFICES ASSUME Init, NEW k \in Kinds PROVE Exact(k)
  OBVIOUS
<1>1. Counting(k) = {} /\ Subtracting(k) = {}
  BY DEF Init, Counting, Subtracting
<1>2. counter[k] = 0 /\ queue[k] = <<>>
  BY DEF Init
<1>. QED  BY <1>1, <1>2, FS_EmptySet, EmptySeq DEF Exact

(* The counters that ProcessMessages and Schedule rely on are exact: each   *)
(* differs from its queue by the posts between Push and fetch_add and the   *)
(* message between Pop and fetch_sub, whatever throws or is stopped.        *)
THEOREM CountersAreExact == Spec => []CounterExact
<1>1. Init => \A k \in Kinds : Exact(k)
  BY InitCounter
<1>2. BaseInv /\ (\A k \in Kinds : Exact(k)) /\ [Next]_vars => (\A k \in Kinds : Exact(k))'
  BY NextCounter
<1>3. (\A k \in Kinds : Exact(k)) => CounterExact
  BY ExactIs
<1>. QED  BY <1>1, <1>2, <1>3, BaseInvariant, PTL DEF Spec

-----------------------------------------------------------------------------
(* Wakeups                                                                  *)

(* t will look at the queue of kind k, or take the status for it, before it *)
(* leaves the mailbox: it has posted and not scheduled yet, or it re-checks *)
(* the counters after ProcessLoop.                                          *)
Waker(t, k) ==
    \/ pc[t] \in {"count", "schedule", "loadSys", "recas"}
    \/ k = "user" /\ pc[t] = "loadUser"

(* While the mailbox is idle every message in it has such a thread.         *)
WakeInv ==
    /\ \A t \in Threads : ~buffer[t]
    /\ status = "IDLE" =>
          \A k \in Kinds : queue[k] # <<>> => \E t \in Threads : Waker(t, k)

CountedInv == BaseInv /\ \A k \in Kinds : Exact(k)

(* A counter that is not positive although its queue is not empty, while    *)
(* the mailbox is idle, means that a post is about to be counted.           *)
LEMMA PostUnderWay ==
    ASSUME CountedInv, status = "IDLE", NEW k \in Kinds, queue[k] # <<>>, ~(counter[k] > 0)
    PROVE  \E u \in Threads : pc[u] = "count"
<1>1. Subtracting(k) = {}
  BY DEF CountedInv, BaseInv, OwnerInv, TokenInv, Owner, Active, RunPlaces, Subtracting
<1>2. Cardinality(Subtracting(k)) = 0
  BY <1>1, FS_EmptySet
<1>3. counter[k] = Len(queue[k]) - Cardinality(Counting(k)) + Cardinality(Subtracting(k))
  BY DEF CountedInv, Exact
<1>4. Len(queue[k]) \in Nat \ {0} /\ counter[k] \in Int
  <2>1. queue[k] \in Seq(Messages) /\ counter[k] \in Int
    BY DEF CountedInv, BaseInv, OwnerInv, TypeOK, SharedType
  <2>. QED  BY <2>1, LenProperties, EmptySeq
<1>5. Cardinality(Counting(k)) # 0
  BY <1>2, <1>3, <1>4, SetsFinite
<1>6. Counting(k) # {}
  BY <1>5, FS_EmptySet
<1>. QED  BY <1>6 DEF Counting

(* Without delayed stores every step preserves WakeInv.                     *)
LEMMA NextWake ==
    ASSUME ~TSO, CountedInv, WakeInv, [Next]_vars
    PROVE  WakeInv'
<1>a. /\ pc \in [Threads -> Places] /\ queue \in [Kinds -> Seq(Messages)]
      /\ buffer \in [Threads -> BOOLEAN] /\ OwnerInv
      /\ status \in {"IDLE", "RUNNING"}
  BY DEF CountedInv, BaseInv, OwnerInv, TypeOK, SharedType, LocalType
<1>b. \A t \in Threads : status = "IDLE" => ~Owner(t)
  BY DEF CountedInv, BaseInv, OwnerInv, TokenInv
<1>1. ASSUME NEW t \in Threads, NEW k \in Kinds, Push(t, k) PROVE WakeInv'
  <2>1. pc'[t] = "count" /\ buffer' = buffer
    BY <1>a, <1>1 DEF Push, Goto
  <2>. QED  BY <2>1 DEF WakeInv, Waker
<1>2. ASSUME NEW t \in Threads, Count(t) PROVE WakeInv'
  <2>1. pc'[t] = "schedule" /\ buffer' = buffer
    BY <1>a, <1>2 DEF Count, Goto
  <2>. QED  BY <2>1 DEF WakeInv, Waker
<1>3. ASSUME NEW t \in Threads, StoreIdle(t) PROVE WakeInv'
  <2>1. pc'[t] = "loadSys" /\ buffer' = buffer
    BY <1>a, <1>3 DEF StoreIdle, Goto
  <2>. QED  BY <2>1 DEF WakeInv, Waker
<1>4. ASSUME NEW t \in Threads, status' = "RUNNING", buffer' = buffer PROVE WakeInv'
  BY <1>4 DEF WakeInv
<1>5. ASSUME NEW t \in Threads, Schedule(t) \/ Reacquire(t) PROVE WakeInv'
  <2>1. status' = "RUNNING" /\ buffer' = buffer
    BY <1>a, <1>5 DEF Schedule, Reacquire
  <2>. QED  BY <2>1, <1>4, <1>5
<1>6. ASSUME NEW t \in Threads, Owner(t), status' = status, buffer' = buffer PROVE WakeInv'
  <2>1. status = "RUNNING"
    BY <1>a, <1>b, <1>6
  <2>. QED  BY <2>1, <1>4, <1>6
<1>7. ASSUME NEW t \in Threads,
             \/ SubmitTask(t) \/ RunInline(t) \/ PopSystem(t) \/ PopUser(t)
             \/ Invoke(t) \/ HandlerReturns(t) \/ HandlerThrows(t)
      PROVE  WakeInv'
  <2>1. Owner(t)
    BY <1>7 DEF SubmitTask, RunInline, PopSystem, PopUser, Invoke, HandlerReturns,
         HandlerThrows, Owner, Active, RunPlaces
  <2>2. status' = status /\ buffer' = buffer
    BY <1>7 DEF SubmitTask, RunInline, PopSystem, PopUser, Invoke, HandlerReturns,
         HandlerThrows, shared
  <2>. QED  BY <1>6, <2>1, <2>2
<1>8. ASSUME NEW t \in Threads, RunTask(t) PROVE WakeInv'
  <2>1. status = "RUNNING" /\ status' = status /\ buffer' = buffer
    BY <1>8, <1>a DEF RunTask, OwnerInv, TokenInv
  <2>. QED  BY <1>4, <1>8, <2>1
<1>9. ASSUME NEW t \in Threads, LoadSys(t) \/ LoadUser(t) PROVE WakeInv'
  <2>1. UNCHANGED <<status, queue, buffer, counter>>
    BY <1>9 DEF LoadSys, LoadUser, shared
  <2>2. \A u \in Threads : u # t => pc'[u] = pc[u]
    BY <1>a, <1>9 DEF LoadSys, LoadUser, Goto
  <2>. SUFFICES ASSUME status = "IDLE", NEW k \in Kinds, queue[k] # <<>>
                PROVE  \E u \in Threads : Waker(u, k)'
    BY <2>1 DEF WakeInv
  <2>3. PICK u \in Threads : Waker(u, k)
    BY DEF WakeInv
  <2>4. CASE u # t
    BY <2>2, <2>3, <2>4 DEF Waker
  <2>5. ASSUME NEW v \in Threads, pc[v] = "count" PROVE \E w \in Threads : Waker(w, k)'
    <3>1. v # t
      BY <1>9, <2>5 DEF LoadSys, LoadUser
    <3>. QED  BY <2>2, <2>5, <3>1 DEF Waker
  <2>6. CASE u = t /\ LoadSys(t)
    <3>1. pc'[t] = IF counter["sys"] > 0 THEN "recas" ELSE "loadUser"
      BY <1>a, <2>6 DEF LoadSys, Goto
    <3>2. CASE counter["sys"] > 0 \/ k = "user"
      BY <3>1, <3>2 DEF Waker
    <3>3. CASE ~(counter["sys"] > 0) /\ k = "sys"
      BY <2>5, <3>3, PostUnderWay
    <3>. QED  BY <3>2, <3>3 DEF Kinds
  <2>7. CASE u = t /\ LoadUser(t)
    <3>1. pc'[t] = (IF counter["user"] > 0 THEN "recas" ELSE "off") /\ pc[t] = "loadUser"
      BY <1>a, <2>7 DEF LoadUser, Goto
    <3>2. k = "user"
      BY <2>3, <2>7, <3>1 DEF Waker
    <3>3. CASE counter["user"] > 0
      BY <3>1, <3>3 DEF Waker
    <3>4. CASE ~(counter["user"] > 0)
      BY <2>5, <3>2, <3>4, PostUnderWay
    <3>. QED  BY <3>3, <3>4
  <2>. QED  BY <1>9, <2>4, <2>6, <2>7
<1>10. ASSUME NEW t \in Threads, FlushStore(t) PROVE WakeInv'
  BY <1>10 DEF FlushStore, WakeInv
<1>11. CASE UNCHANGED <<status, queue, local>>
  BY <1>11 DEF WakeInv, Waker, local
<1>12. ASSUME NEW how, StopPool(how) PROVE UNCHANGED <<status, queue, local>>
  BY <1>12 DEF StopPool
<1>13. UNCHANGED vars => UNCHANGED <<status, queue, local>>
  BY DEF vars, shared
<1>. QED
  BY <1>1, <1>2, <1>3, <1>5, <1>7, <1>8, <1>9, <1>10, <1>11, <1>12, <1>13
  DEF Next, Step, PostUserMessage, PostSystemMessage, Kinds

(* CountedInv is an invariant.                                              *)
LEMMA CountedInvariant == Spec => []CountedInv
<1>1. Init => \A k \in Kinds : Exact(k)
  BY InitCounter
<1>2. BaseInv /\ (\A k \in Kinds : Exact(k)) /\ [Next]_vars => (\A k \in Kinds : Exact(k))'
  BY NextCounter
<1>. QED  BY <1>1, <1>2, BaseInvariant, PTL DEF Spec, CountedInv

(* No wakeup is lost, on a machine that does not delay the store of IDLE    *)
(* past the loads of the counters: when every thread has left an idle       *)
(* mailbox its queues are empty.  (With delayed stores it is false, which   *)
(* the run mailbox_store_delay shows.)                                      *)
THEOREM WakeupsKept == ASSUME ~TSO PROVE Spec => []NoLostWakeup
<1>1. Init => WakeInv
  BY DEF Init, WakeInv
<1>2. CountedInv /\ WakeInv /\ [Next]_vars => WakeInv'
  BY NextWake
<1>3. WakeInv => NoLostWakeup
  BY DEF WakeInv, Waker, NoLostWakeup
<1>. QED  BY <1>1, <1>2, <1>3, CountedInvariant, PTL DEF Spec

-----------------------------------------------------------------------------
(* The runner                                                               *)

Finished == Len(done["user"]) + Len(done["sys"])
Waiting == \E k \in Kinds : queue[k] # <<>>
Pending == Waiting \/ \E t \in Threads : cur[t] # None

(* A round costs a message: a thread has not begun more rounds than         *)
(* messages have been finished, and a round more than that only while there *)
(* is a message for it.                                                     *)
RoundAt(t) ==
    /\ iter[t] <= Throughput + 1
    /\ pc[t] = "loop" => round[t] <= Finished \/ (round[t] <= Finished + 1 /\ Waiting)
    /\ pc[t] = "popUser" =>
          round[t] <= Finished \/ (round[t] <= Finished + 1 /\ queue["user"] # <<>>)
    /\ cur[t] # None => round[t] <= Finished + 1
    /\ pc[t] \in {"store", "loadSys", "loadUser", "recas"} => round[t] <= Finished
    /\ pc[t] = "recas" => round[t] + 1 <= Finished \/ Pending

RoundInv == \A t \in Threads : RoundAt(t)

(* The status, while it is RUNNING, is held or was lost, and not both.      *)
HeldOrLost ==
    /\ status = "RUNNING" /\ lost = "no" => tasks > 0 \/ \E t \in Threads : Owner(t)
    /\ lost # "no" => status = "RUNNING" /\ tasks = 0 /\ \A t \in Threads : ~Owner(t)

(* Messages are posted for every round of a mailbox that ran out of them.   *)
LimitInv == lost = "limit" => NextId > MaxRounds

RunContext == CountedInv /\ DeliveryOrder

(* What the earlier invariants say about types.                             *)
LEMMA RunTypes ==
    ASSUME RunContext
    PROVE  /\ OwnerInv /\ TypeOK
           /\ pc \in [Threads -> Places] /\ queue \in [Kinds -> Seq(Messages)]
           /\ done \in [Kinds -> Seq(Messages)] /\ posted \in [Kinds -> Seq(Messages)]
           /\ iter \in [Threads -> Nat] /\ round \in [Threads -> Nat]
           /\ cur \in [Threads -> Messages \cup {None}]
           /\ Finished \in Nat
           /\ \A k \in Kinds : Len(done[k]) \in Nat /\ Len(posted[k]) \in Nat
<1>1. OwnerInv /\ TypeOK
  BY DEF RunContext, CountedInv, BaseInv, OwnerInv
<1>2. done \in [Kinds -> Seq(Messages)] /\ posted \in [Kinds -> Seq(Messages)]
  BY <1>1 DEF TypeOK, HistoryType
<1>3. \A k \in Kinds : Len(done[k]) \in Nat /\ Len(posted[k]) \in Nat
  BY <1>2, LenProperties
<1>4. Finished \in Nat
  <2>. DEFINE d(k) == Len(done[k])
  <2>1. \A k \in Kinds : d(k) \in Nat
    BY <1>3
  <2>2. Finished = d("user") + d("sys")
    BY DEF Finished
  <2>. HIDE DEF d
  <2>. QED  BY <2>1, <2>2 DEF Kinds
<1>. QED  BY <1>1, <1>2, <1>3, <1>4 DEF TypeOK, SharedType, LocalType

(* What is finished was posted, and what is pending is not finished.        *)
LEMMA FinishedBelowPosted ==
    ASSUME RunContext
    PROVE  Finished + 1 <= NextId /\ (Pending => Finished + 2 <= NextId)
<1>. DEFINE d(k) == Len(done[k])
            p(k) == Len(posted[k])
            q(k) == Len(queue[k])
<1>1. ASSUME NEW k \in Kinds
      PROVE  /\ p(k) >= d(k)
             /\ queue[k] # <<>> \/ InHand(k) # {} => p(k) >= d(k) + 1
  <2>1. done[k] \in Seq(Messages) /\ queue[k] \in Seq(Messages)
    BY RunTypes
  <2>2. q(k) \in Nat /\ d(k) \in Nat /\ (queue[k] # <<>> => q(k) >= 1)
    BY <2>1, LenProperties, EmptySeq
  <2>3. CASE InHand(k) = {}
    <3>1. posted[k] = done[k] \o queue[k]
      BY <2>3 DEF RunContext, DeliveryOrder, InHand
    <3>2. p(k) = d(k) + q(k)
      BY <2>1, <3>1, ConcatProperties
    <3>. HIDE DEF d, p, q
    <3>. QED  BY <2>2, <2>3, <3>2
  <2>4. CASE InHand(k) # {}
    <3>1. PICK t \in InHand(k) : posted[k] = done[k] \o <<cur[t]>> \o queue[k]
      BY <2>4 DEF RunContext, DeliveryOrder, InHand
    <3>2. cur[t] \in Messages
      BY RunTypes DEF InHand
    <3>3. <<cur[t]>> \in Seq(Messages) /\ Len(<<cur[t]>>) = 1
      BY <3>2
    <3>4. /\ done[k] \o <<cur[t]>> \in Seq(Messages)
          /\ Len(done[k] \o <<cur[t]>>) = Len(done[k]) + 1
      BY <2>1, <3>3, ConcatProperties
    <3>5. p(k) = d(k) + 1 + q(k)
      BY <2>1, <3>1, <3>4, ConcatProperties
    <3>. HIDE DEF d, p, q
    <3>. QED  BY <2>2, <3>5
  <2>. QED  BY <2>3, <2>4
<1>2. Pending => \E k \in Kinds : queue[k] # <<>> \/ InHand(k) # {}
  <2>1. ASSUME NEW t \in Threads, cur[t] # None PROVE \E k \in Kinds : InHand(k) # {}
    <3>1. cur[t].kind \in Kinds
      BY <2>1, RunTypes DEF Messages
    <3>. QED  BY <2>1, <3>1 DEF InHand
  <2>. QED  BY <2>1 DEF Pending, Waiting
<1>3. \A k \in Kinds : d(k) \in Nat /\ p(k) \in Nat
  BY RunTypes
<1>4. Finished = d("user") + d("sys") /\ NextId = p("user") + p("sys") + 1
  BY DEF Finished, NextId
<1>. HIDE DEF d, p
<1>5. p("user") >= d("user") /\ p("sys") >= d("sys")
  BY <1>1 DEF Kinds
<1>6. Pending => p("user") >= d("user") + 1 \/ p("sys") >= d("sys") + 1
  BY <1>1, <1>2 DEF Kinds
<1>. QED  BY <1>3, <1>4, <1>5, <1>6 DEF Kinds

(* A counter above 0 stands for a message.                                  *)
LEMMA CountedPending ==
    ASSUME RunContext, NEW k \in Kinds, counter[k] > 0
    PROVE  Pending
<1>1. counter[k] = Len(queue[k]) - Cardinality(Counting(k)) + Cardinality(Subtracting(k))
  BY DEF RunContext, CountedInv, Exact
<1>2. queue[k] \in Seq(Messages)
  BY RunTypes
<1>3. CASE queue[k] # <<>>
  BY <1>3 DEF Pending, Waiting
<1>4. CASE Subtracting(k) # {}
  <2>1. PICK t \in Threads : pc[t] = "sub"
    BY <1>4 DEF Subtracting
  <2>2. cur[t] # None
    BY <2>1, RunTypes DEF OwnerInv, HoldInv
  <2>. QED  BY <2>2 DEF Pending
<1>5. CASE queue[k] = <<>> /\ Subtracting(k) = {}
  <2>1. Len(queue[k]) = 0 /\ Cardinality(Subtracting(k)) = 0
    BY <1>5, EmptySeq, FS_EmptySet
  <2>. QED  BY <1>1, <2>1, SetsFinite
<1>. QED  BY <1>3, <1>4, <1>5

(* A finished message is one more.                                          *)
LEMMA FinishCounts ==
    ASSUME RunContext, NEW t \in Threads, Finishes(t)
    PROVE  Finished' = Finished + 1
<1>1. done'[cur[t].kind] = Append(done[cur[t].kind], cur[t]) /\ cur[t].kind \in Kinds
  BY RunTypes DEF Finishes, Messages
<1>2. \A k \in Kinds : k # cur[t].kind => done'[k] = done[k]
  BY RunTypes DEF Finishes
<1>3. cur[t] \in Messages
  BY DEF Finishes
<1>. DEFINE d(k) == Len(done[k])
            e(k) == Len(done'[k])
<1>4. e(cur[t].kind) = d(cur[t].kind) + 1
  BY <1>1, <1>3, RunTypes, AppendProperties
<1>5. \A k \in Kinds : d(k) \in Nat /\ (k # cur[t].kind => e(k) = d(k))
  BY <1>2, RunTypes
<1>6. Finished = d("user") + d("sys") /\ Finished' = e("user") + e("sys")
  BY DEF Finished
<1>. HIDE DEF d, e
<1>. QED  BY <1>1, <1>4, <1>5, <1>6 DEF Kinds

(* The rounds of a thread that does not move stay accounted for.            *)
LEMMA RoundElsewhere ==
    ASSUME RunContext, [Next]_vars, NEW u \in Threads, RoundAt(u),
           pc'[u] = pc[u], round'[u] = round[u], cur'[u] = cur[u], iter'[u] = iter[u]
    PROVE  RoundAt(u)'
<1>a. Finished \in Nat /\ round[u] \in Nat /\ OwnerInv
  BY RunTypes
<1>1. ASSUME NEW k \in Kinds, Posts(k) PROVE RoundAt(u)'
  <2>1. Finished' = Finished
    BY <1>1 DEF Posts, Finished
  <2>2. \A l \in Kinds : queue[l] # <<>> => queue'[l] # <<>>
    <3>1. PICK m \in Messages : queue' = [queue EXCEPT ![k] = Append(queue[k], m)]
      BY <1>1 DEF Posts
    <3>2. Append(queue[k], m) # <<>>
      BY RunTypes, AppendProperties
    <3>. QED  BY <3>1, <3>2, RunTypes
  <2>3. Waiting => Waiting'
    BY <2>2 DEF Waiting
  <2>4. Pending => Pending'
    BY <1>1, <2>3 DEF Pending, Posts
  <2>5. queue["user"] # <<>> => queue'["user"] # <<>>
    BY <2>2 DEF Kinds
  <2>. QED  BY <2>1, <2>3, <2>4, <2>5 DEF RoundAt
<1>2. ASSUME NEW t \in Threads, NEW k \in Kinds, Pops(t, k) PROVE RoundAt(u)'
  <2>1. Finished' = Finished
    BY <1>2 DEF Pops, Finished
  <2>2. u # t
    BY <1>2, RunTypes DEF Pops
  <2>3. pc[u] \notin {"loop", "popUser"}
    <3>1. Owner(t)
      BY <1>2 DEF Pops, Owner, Active, RunPlaces
    <3>2. pc[u] \in {"loop", "popUser"} => Owner(u)
      BY DEF Owner, Active, RunPlaces
    <3>. QED  BY <1>a, <2>2, <3>1, <3>2 DEF OwnerInv, TokenInv
  <2>4. Pending'
    <3>1. cur'[t] = Head(queue[k]) /\ queue[k] # <<>> /\ queue[k] \in Seq(Messages)
      BY <1>2, RunTypes DEF Pops
    <3>2. cur'[t] \in Messages
      BY <3>1, HeadTailProperties
    <3>. QED  BY <3>2, MailboxAssumption DEF Pending
  <2>. QED  BY <2>1, <2>3, <2>4 DEF RoundAt
<1>3. ASSUME NEW t \in Threads, Finishes(t) PROVE RoundAt(u)'
  <2>1. Finished' = Finished + 1
    BY <1>3, FinishCounts
  <2>. QED  BY <1>a, <2>1 DEF RoundAt
<1>4. CASE UNCHANGED <<queue, posted, done, cur, overtaken>>
  BY <1>4 DEF RoundAt, Finished, Waiting, Pending
<1>. QED  BY <1>1, <1>2, <1>3, <1>4, <1>a, StepKinds

(* The thread that moves pays for its rounds too.                           *)
LEMMA RoundOwn ==
    ASSUME Throughput > 0, RunContext, RoundInv, NEW t \in Threads,
           Step(t) \/ (\E k \in Kinds : Push(t, k)),
           [Next]_vars
    PROVE  RoundAt(t)'
<1>a. /\ Finished \in Nat /\ round[t] \in Nat /\ iter[t] \in Nat
      /\ pc \in [Threads -> Places] /\ cur \in [Threads -> Messages \cup {None}]
      /\ round \in [Threads -> Nat] /\ iter \in [Threads -> Nat]
      /\ OwnerInv /\ Throughput \in Nat \ {0} /\ RoundAt(t)
      /\ queue \in [Kinds -> Seq(Messages)]
  BY RunTypes, MailboxAssumption DEF RoundInv
<1>b. resume[t] \in {"off", "handler"}
  BY RunTypes DEF TypeOK, LocalType
<1>1. ASSUME pc'[t] \in {"count", "schedule", "dispatch", "off", "handler", "nested"},
             cur' = cur, iter' = iter, round' = round, done' = done
      PROVE  RoundAt(t)'
  <2>1. Finished' = Finished
    BY <1>1 DEF Finished
  <2>. QED  BY <1>a, <1>1, <2>1 DEF RoundAt
<1>2. CASE \/ \E k \in Kinds : Push(t, k)
           \/ Count(t) \/ Schedule(t) \/ SubmitTask(t) \/ Invoke(t)
  BY <1>a, <1>b, <1>1, <1>2 DEF Push, Count, Schedule, SubmitTask, Invoke, Goto, history
<1>3. CASE RunInline(t) \/ RunTask(t)
  <2>1. /\ pc'[t] \in {"loop", "nested"} /\ cur'[t] = cur[t] /\ done' = done
        /\ iter'[t] = 0 /\ round'[t] = 0
    BY <1>a, <1>3 DEF RunInline, RunTask, BeginProcessMessages, Goto, history,
       OwnerInv, PlaceInv
  <2>2. Finished' = Finished
    BY <2>1 DEF Finished
  <2>. QED  BY <1>a, <2>1, <2>2 DEF RoundAt
<1>4. CASE PopSystem(t)
  <2>0. pc[t] = "loop" /\ round' = round /\ done' = done /\ cur[t] = None
    BY <1>a, <1>4, OneHolder DEF PopSystem, history
  <2>1. Finished' = Finished
    BY <2>0 DEF Finished
  <2>2. iter[t] <= Throughput + 1
    BY <1>a DEF RoundAt
  <2>3. ~(iter[t] >= Throughput * 10)
    BY <1>a, <2>2
  <2>4. iter'[t] = NextIter(t)
    BY <1>a, <1>4, <2>3 DEF PopSystem
  <2>5. iter'[t] <= Throughput + 1
    BY <1>a, <2>2, <2>4 DEF NextIter
  <2>6. round[t] <= Finished \/ (round[t] <= Finished + 1 /\ Waiting)
    BY <1>a, <2>0 DEF RoundAt
  <2>7. CASE queue["sys"] # <<>>
    <3>1. pc'[t] = "sub"
      BY <1>a, <1>4, <2>3, <2>7 DEF PopSystem, Pop, Goto
    <3>. QED  BY <1>a, <2>0, <2>1, <2>5, <2>6, <3>1 DEF RoundAt
  <2>8. CASE queue["sys"] = <<>>
    <3>1. pc'[t] = "popUser" /\ queue' = queue /\ cur' = cur
      BY <1>a, <1>4, <2>3, <2>8 DEF PopSystem, Goto
    <3>2. Waiting => queue["user"] # <<>>
      BY <2>8 DEF Waiting, Kinds
    <3>. QED  BY <1>a, <2>0, <2>1, <2>5, <2>6, <3>1, <3>2 DEF RoundAt
  <2>. QED  BY <2>7, <2>8
<1>5. CASE PopUser(t)
  <2>0. pc[t] = "popUser" /\ round' = round /\ iter' = iter /\ done' = done /\ cur[t] = None
    BY <1>a, <1>5, OneHolder DEF PopUser
  <2>1. Finished' = Finished
    BY <2>0 DEF Finished
  <2>2. round[t] <= Finished \/ (round[t] <= Finished + 1 /\ queue["user"] # <<>>)
    BY <1>a, <2>0 DEF RoundAt
  <2>3. CASE queue["user"] # <<>>
    <3>1. pc'[t] = "sub"
      BY <1>a, <1>5, <2>3 DEF PopUser, Pop, Goto
    <3>. QED  BY <1>a, <2>0, <2>1, <2>2, <3>1 DEF RoundAt
  <2>4. CASE queue["user"] = <<>>
    <3>1. pc'[t] = "store" /\ cur' = cur
      BY <1>a, <1>5, <2>4 DEF PopUser, Goto
    <3>. QED  BY <1>a, <2>0, <2>1, <2>2, <2>4, <3>1 DEF RoundAt
  <2>. QED  BY <2>3, <2>4
<1>6. CASE HandlerReturns(t)
  <2>1. cur[t] # None /\ cur[t] \in Messages
    BY <1>a, <1>6 DEF HandlerReturns, OwnerInv, HoldInv
  <2>2. Finishes(t)
    BY <1>6, <2>1 DEF HandlerReturns, Finish, Finishes, shared
  <2>3. Finished' = Finished + 1
    BY <2>2, FinishCounts
  <2>4. pc'[t] = "loop" /\ cur'[t] = None /\ iter' = iter /\ round' = round
    BY <1>a, <1>6 DEF HandlerReturns, Finish, Goto
  <2>. QED  BY <1>a, <2>1, <2>3, <2>4 DEF RoundAt
<1>7. CASE StoreIdle(t)
  <2>1. /\ pc[t] = "store" /\ pc'[t] = "loadSys" /\ cur' = cur
        /\ iter' = iter /\ round' = round /\ done' = done
    BY <1>a, <1>7 DEF StoreIdle, Goto, history
  <2>2. Finished' = Finished
    BY <2>1 DEF Finished
  <2>. QED  BY <1>a, <2>1, <2>2 DEF RoundAt
<1>8. CASE LoadSys(t) \/ LoadUser(t)
  <2>1. /\ pc[t] \in {"loadSys", "loadUser"} /\ pc'[t] \in {"recas", "loadUser", "off"}
        /\ UNCHANGED <<cur, iter, round, done, queue>>
        /\ pc'[t] = "recas" => \E k \in Kinds : counter[k] > 0
    BY <1>a, <1>8 DEF LoadSys, LoadUser, Goto, history, shared, Kinds
  <2>2. Finished' = Finished
    BY <2>1 DEF Finished
  <2>3. pc'[t] = "recas" => Pending'
    BY <2>1, CountedPending DEF Pending, Waiting
  <2>. QED  BY <1>a, <2>1, <2>2, <2>3 DEF RoundAt
<1>9. CASE Reacquire(t)
  <2>1. pc[t] = "recas" /\ UNCHANGED <<cur, done, queue>>
    BY <1>9 DEF Reacquire, history
  <2>2. Finished' = Finished
    BY <2>1 DEF Finished
  <2>3. CASE status = "IDLE"
    <3>1. \A u \in Threads : cur[u] = None
      BY <1>a, <2>3 DEF OwnerInv, HoldInv, TokenInv, Owner, Active, PostPlaces, RunPlaces
    <3>2. /\ pc'[t] \in {"loop", "off"} /\ round'[t] = round[t] + 1 /\ iter'[t] = 0
      BY <1>a, <1>9, <2>3 DEF Reacquire, Goto
    <3>3. Pending => Waiting
      BY <3>1 DEF Pending
    <3>4. Waiting' = Waiting
      BY <2>1 DEF Waiting
    <3>. QED  BY <1>a, <2>1, <2>2, <3>1, <3>2, <3>3, <3>4 DEF RoundAt
  <2>4. CASE status # "IDLE"
    BY <1>a, <1>1, <1>9, <2>1, <2>4 DEF Reacquire, Goto
  <2>. QED  BY <2>3, <2>4
<1>. QED  BY <1>2, <1>3, <1>4, <1>5, <1>6, <1>7, <1>8, <1>9 DEF Step

(* The rounds of all threads stay accounted for.                            *)
LEMMA NextRound ==
    ASSUME Throughput > 0, RunContext, RoundInv, [Next]_vars
    PROVE  RoundInv'
<1>. SUFFICES ASSUME NEW u \in Threads PROVE RoundAt(u)'
  BY DEF RoundInv
<1>a. /\ pc \in [Threads -> Places] /\ cur \in [Threads -> Messages \cup {None}]
      /\ round \in [Threads -> Nat] /\ iter \in [Threads -> Nat] /\ RoundAt(u)
  BY RunTypes DEF RoundInv
<1>1. ASSUME NEW t \in Threads, Step(t) \/ (\E k \in Kinds : Push(t, k)) PROVE RoundAt(u)'
  <2>1. CASE u = t
    BY <1>1, <2>1, RoundOwn
  <2>2. CASE u # t
    <3>1. pc'[u] = pc[u]
      BY <1>a, <1>1, <2>2
      DEF Step, Push, Count, Schedule, SubmitTask, RunInline, RunTask, PopSystem, PopUser, Pop,
          Invoke, HandlerReturns, StoreIdle, LoadSys, LoadUser, Reacquire, Goto,
          BeginProcessMessages
    <3>2. cur'[u] = cur[u]
      BY <1>a, <1>1, <2>2
      DEF Step, Push, Count, Schedule, SubmitTask, RunInline, RunTask, PopSystem, PopUser, Pop,
          Invoke, HandlerReturns, Finish, StoreIdle, LoadSys, LoadUser, Reacquire
    <3>3. iter'[u] = iter[u] /\ round'[u] = round[u]
      BY <1>a, <1>1, <2>2
      DEF Step, Push, Count, Schedule, SubmitTask, RunInline, RunTask, PopSystem, PopUser, Pop,
          Invoke, HandlerReturns, StoreIdle, LoadSys, LoadUser, Reacquire,
          BeginProcessMessages
    <3>. QED  BY <1>a, <3>1, <3>2, <3>3, RoundElsewhere
  <2>. QED  BY <2>1, <2>2
<1>2. ASSUME NEW t \in Threads, HandlerThrows(t) PROVE RoundAt(u)'
  <2>1. /\ pc' = [pc EXCEPT ![t] = "off"] /\ cur' = [cur EXCEPT ![t] = None]
        /\ UNCHANGED <<round, iter>>
    BY <1>2 DEF HandlerThrows, Finish, Goto
  <2>2. CASE u = t
    BY <1>a, <2>1, <2>2 DEF RoundAt
  <2>3. CASE u # t
    BY <1>a, <2>1, <2>3, RoundElsewhere
  <2>. QED  BY <2>2, <2>3
<1>3. ASSUME UNCHANGED <<pc, cur, round, iter>> PROVE RoundAt(u)'
  BY <1>a, <1>3, RoundElsewhere
<1>4. ASSUME NEW t \in Threads, FlushStore(t) PROVE UNCHANGED <<pc, cur, round, iter>>
  BY <1>4 DEF FlushStore
<1>5. ASSUME NEW how, StopPool(how) PROVE UNCHANGED <<pc, cur, round, iter>>
  BY <1>5 DEF StopPool, local
<1>6. UNCHANGED vars => UNCHANGED <<pc, cur, round, iter>>
  BY DEF vars, local
<1>. QED
  BY <1>1, <1>2, <1>3, <1>4, <1>5, <1>6
  DEF Next, PostUserMessage, PostSystemMessage, Kinds

(* Every step leaves the number of messages or makes it larger.             *)
LEMMA PostedGrows ==
    ASSUME RunContext, [Next]_vars
    PROVE  NextId \in Nat /\ NextId' \in Nat /\ NextId' >= NextId
<1>. DEFINE p(k) == Len(posted[k])
            r(k) == Len(posted'[k])
<1>a. /\ \A k \in Kinds : p(k) \in Nat
      /\ NextId = p("user") + p("sys") + 1 /\ NextId' = r("user") + r("sys") + 1
      /\ posted \in [Kinds -> Seq(Messages)]
  BY RunTypes DEF NextId
<1>1. ASSUME NEW k \in Kinds, NEW t \in Threads, Push(t, k)
      PROVE  NextId' = NextId + 1 /\ NextId \in Nat
  <2>1. NextId <= MaxPosts
    BY <1>1 DEF Push
  <2>2. /\ posted'[k] = Append(posted[k], [kind |-> k, id |-> NextId])
        /\ \A l \in Kinds : l # k => posted'[l] = posted[l]
    BY <1>a, <1>1 DEF Push
  <2>3. [kind |-> k, id |-> NextId] \in Messages
    <3>1. HistoryType
      BY RunTypes DEF TypeOK
    <3>. QED  BY <1>1, <2>1, <3>1, NewMessage
  <2>4. r(k) = p(k) + 1 /\ \A l \in Kinds : l # k => r(l) = p(l)
    BY <1>a, <2>2, <2>3, AppendProperties
  <2>. HIDE DEF p, r
  <2>. QED  BY <1>a, <2>4 DEF Kinds
<1>2. ASSUME posted' = posted PROVE NextId' = NextId /\ NextId \in Nat
  <2>1. NextId' = NextId
    BY <1>2 DEF NextId
  <2>. HIDE DEF p, r
  <2>. QED  BY <1>a, <2>1 DEF Kinds
<1>3. ASSUME NEW t \in Threads, Step(t) \/ HandlerThrows(t) \/ FlushStore(t)
      PROVE  posted' = posted
  BY <1>3 DEF Step, Count, Schedule, SubmitTask, RunInline, RunTask, PopSystem, PopUser,
     Invoke, HandlerReturns, StoreIdle, LoadSys, LoadUser, Reacquire, HandlerThrows,
     FlushStore, history
<1>4. ASSUME NEW how, StopPool(how) PROVE posted' = posted
  BY <1>4 DEF StopPool, history
<1>5. UNCHANGED vars => posted' = posted
  BY DEF vars, history
<1>6. \/ \E k \in Kinds, t \in Threads : Push(t, k)
      \/ posted' = posted
  BY <1>3, <1>4, <1>5 DEF Next, PostUserMessage, PostSystemMessage, Kinds
<1>. HIDE DEF p, r
<1>. QED  BY <1>1, <1>2, <1>6

(* Steps after which the same threads own the status as before.             *)
OwnersKept == \A u \in Threads : Owner(u)' <=> Owner(u)

(* A thread that moves outside ProcessLoop, or inside it, stays there.      *)
LEMMA OwnersStay ==
    ASSUME OwnerInv, NEW t \in Threads,
           \/ \E k \in Kinds : Push(t, k)
           \/ Count(t) \/ RunInline(t) \/ PopSystem(t) \/ PopUser(t)
           \/ Invoke(t) \/ HandlerReturns(t) \/ LoadSys(t) \/ LoadUser(t)
           \/ Schedule(t) /\ status # "IDLE"
           \/ Reacquire(t) /\ status # "IDLE"
    PROVE  OwnersKept /\ UNCHANGED <<status, tasks, lost>>
<1>a. /\ pc \in [Threads -> Places]
      /\ resume \in [Threads -> {"off", "handler"}] /\ buffer \in [Threads -> BOOLEAN]
  BY DEF OwnerInv, TypeOK, LocalType
<1>1. UNCHANGED <<status, tasks, lost>> /\ buffer' = buffer
  BY DEF Push, Count, RunInline, PopSystem, PopUser, Invoke, HandlerReturns, LoadSys, LoadUser,
     Schedule, Reacquire, shared
<1>2. \A u \in Threads : u # t => pc'[u] = pc[u] /\ resume'[u] = resume[u]
  BY <1>a DEF Push, Count, RunInline, PopSystem, PopUser, Pop, Invoke, HandlerReturns, LoadSys,
     LoadUser, Schedule, Reacquire, Goto, BeginProcessMessages
<1>3. \A u \in Threads : u # t => (Owner(u)' <=> Owner(u))
  BY <1>1, <1>2 DEF Owner, Active
<1>4. ASSUME \E k \in Kinds : Push(t, k) PROVE Owner(t)' <=> Owner(t)
  <2>1. pc'[t] = "count" /\ resume'[t] = pc[t] /\ pc[t] \in {"off", "handler"}
    BY <1>a, <1>4 DEF Push, Goto
  <2>. QED  BY <1>1, <2>1 DEF Owner, Active, PostPlaces, RunPlaces
<1>5. ASSUME Count(t) PROVE Owner(t)' <=> Owner(t)
  <2>1. pc[t] = "count" /\ pc'[t] = "schedule" /\ resume' = resume
    BY <1>a, <1>5 DEF Count, Goto
  <2>. QED  BY <1>1, <2>1 DEF Owner, Active, PostPlaces, RunPlaces
<1>6. ASSUME RunInline(t) PROVE Owner(t)' <=> Owner(t)
  <2>1. pc[t] = "dispatch" /\ pc'[t] \in {"loop", "nested"}
    BY <1>a, <1>6 DEF RunInline, BeginProcessMessages, Goto
  <2>. QED  BY <2>1 DEF Owner, Active, RunPlaces
<1>7. ASSUME PopSystem(t) \/ PopUser(t) \/ Invoke(t) \/ HandlerReturns(t) PROVE Owner(t)' <=> Owner(t)
  <2>1. pc[t] \in RunPlaces /\ pc'[t] \in RunPlaces
    BY <1>a, <1>7 DEF PopSystem, PopUser, Pop, Invoke, HandlerReturns, Goto, RunPlaces
  <2>. QED  BY <2>1 DEF Owner, Active
<1>8. ASSUME LoadSys(t) \/ LoadUser(t) \/ (Reacquire(t) /\ status # "IDLE") PROVE Owner(t)' <=> Owner(t)
  <2>1. /\ pc[t] \in {"loadSys", "loadUser", "recas"}
        /\ pc'[t] \in {"recas", "loadUser", "off"}
    BY <1>a, <1>8 DEF LoadSys, LoadUser, Reacquire, Goto
  <2>. QED  BY <1>1, <2>1 DEF Owner, Active, PostPlaces, RunPlaces
<1>9. ASSUME Schedule(t) /\ status # "IDLE" PROVE Owner(t)' <=> Owner(t)
  <2>1. pc[t] = "schedule" /\ pc'[t] = resume[t] /\ resume[t] \in {"off", "handler"}
    BY <1>a, <1>9 DEF Schedule, Goto
  <2>2. resume[t] = "handler" <=> Active(t)
    BY <2>1 DEF Active, PostPlaces, RunPlaces
  <2>3. resume[t] = "handler" <=> Active(t)'
    BY <2>1 DEF Active, PostPlaces, RunPlaces
  <2>4. pc'[t] # "dispatch" /\ pc[t] # "dispatch"
    BY <2>1
  <2>. QED  BY <1>1, <2>2, <2>3, <2>4 DEF Owner
<1>10. Owner(t)' <=> Owner(t)
  BY <1>4, <1>5, <1>6, <1>7, <1>8, <1>9
<1>. QED  BY <1>1, <1>3, <1>10 DEF OwnersKept

(* Every step keeps HeldOrLost.                                             *)
LEMMA NextHeldOrLost ==
    ASSUME OwnerInv, OwnerInv', HeldOrLost, [Next]_vars
    PROVE  HeldOrLost'
<1>a. /\ pc \in [Threads -> Places]
      /\ status \in {"IDLE", "RUNNING"} /\ tasks \in Nat
      /\ resume \in [Threads -> {"off", "handler"}] /\ buffer \in [Threads -> BOOLEAN]
      /\ tasks' \in Nat
  BY DEF OwnerInv, TypeOK, SharedType, LocalType
<1>b. /\ tasks <= 1
      /\ tasks > 0 => status = "RUNNING"
      /\ \A t \in Threads : Owner(t) => status = "RUNNING" /\ tasks = 0
      /\ \A t, u \in Threads : Owner(t) /\ Owner(u) => t = u
  BY DEF OwnerInv, TokenInv
<1>c. /\ tasks' <= 1
      /\ tasks' > 0 => status' = "RUNNING"
      /\ \A t \in Threads : Owner(t)' => status' = "RUNNING" /\ tasks' = 0
      /\ \A t, u \in Threads : Owner(t)' /\ Owner(u)' => t = u
  BY DEF OwnerInv, TokenInv
<1>1. ASSUME OwnersKept, UNCHANGED <<status, tasks, lost>> PROVE HeldOrLost'
  BY <1>1 DEF HeldOrLost, OwnersKept
<1>2. ASSUME NEW t \in Threads, Owner(t)', lost = "no", lost' = lost PROVE HeldOrLost'
  BY <1>2 DEF HeldOrLost
<1>3. ASSUME lost = "no", lost' = lost, status' = "IDLE" PROVE HeldOrLost'
  BY <1>3 DEF HeldOrLost
<1>4. ASSUME status' = "RUNNING", tasks' = 0, \A u \in Threads : ~Owner(u)', lost' # "no"
      PROVE  HeldOrLost'
  BY <1>4 DEF HeldOrLost
<1>5. ASSUME NEW t \in Threads, Owner(t) PROVE lost = "no" /\ \A u \in Threads : u # t => ~Owner(u)
  BY <1>5, <1>b DEF HeldOrLost
<1>6. status = "IDLE" => lost = "no" /\ tasks = 0 /\ \A u \in Threads : ~Owner(u)
  BY <1>a, <1>b DEF HeldOrLost
<1>7. ASSUME NEW t \in Threads, Schedule(t), status = "IDLE" PROVE HeldOrLost'
  <2>1. pc'[t] = "dispatch" /\ lost' = lost
    BY <1>a, <1>7 DEF Schedule, Goto
  <2>. QED  BY <1>2, <1>6, <1>7, <2>1 DEF Owner
<1>8. ASSUME NEW t \in Threads, SubmitTask(t) PROVE HeldOrLost'
  <2>1. Owner(t) /\ pc[t] = "dispatch"
    BY <1>8 DEF SubmitTask, Owner
  <2>2. lost = "no" /\ status = "RUNNING" /\ tasks = 0
    BY <1>5, <1>b, <2>1
  <2>3. CASE dispatcher = "pool"
    <3>1. tasks' = 1 /\ lost' = "no" /\ status' = "RUNNING"
      BY <1>8, <2>2, <2>3 DEF SubmitTask
    <3>. QED  BY <3>1 DEF HeldOrLost
  <2>4. CASE dispatcher # "pool"
    <3>1. tasks' = 0 /\ lost' = "dropped" /\ status' = "RUNNING"
      BY <1>8, <2>2, <2>4 DEF SubmitTask
    <3>2. \A u \in Threads : u # t => (Owner(u)' <=> Owner(u))
      BY <1>8, <1>a DEF SubmitTask, Goto, Owner, Active
    <3>3. ~Owner(t)'
      <4>1. pc'[t] = resume[t] /\ buffer' = buffer /\ resume[t] = "off" /\ ~buffer[t]
        BY <1>8, <1>a, <2>1 DEF SubmitTask, Goto, OwnerInv, PlaceInv, CheckPlaces
      <4>. QED  BY <4>1 DEF Owner, Active, RunPlaces, PostPlaces
    <3>. QED  BY <1>4, <1>5, <2>1, <3>1, <3>2, <3>3
  <2>. QED  BY <2>3, <2>4
<1>9. ASSUME NEW t \in Threads, RunTask(t) PROVE HeldOrLost'
  <2>1. pc'[t] = "loop" /\ lost' = lost /\ tasks > 0
    BY <1>a, <1>9 DEF RunTask, BeginProcessMessages, Goto
  <2>2. lost = "no"
    BY <1>a, <2>1 DEF HeldOrLost
  <2>. QED  BY <1>2, <2>1, <2>2 DEF Owner, Active, RunPlaces
<1>10. ASSUME NEW t \in Threads, HandlerThrows(t) PROVE HeldOrLost'
  <2>1. Owner(t) /\ pc[t] = "handler"
    BY <1>10 DEF HandlerThrows, Owner, Active, RunPlaces
  <2>2. lost' = "throw" /\ status' = "RUNNING" /\ tasks' = 0
    BY <1>10, <1>b, <2>1 DEF HandlerThrows, shared
  <2>3. \A u \in Threads : u # t => (Owner(u)' <=> Owner(u))
    BY <1>10, <1>a DEF HandlerThrows, Goto, Owner, Active
  <2>4. ~Owner(t)'
    <3>1. pc'[t] = "off" /\ buffer' = buffer /\ ~buffer[t]
      BY <1>10, <1>a, <2>1 DEF HandlerThrows, Goto, OwnerInv, PlaceInv, CheckPlaces
    <3>. QED  BY <3>1 DEF Owner, Active, RunPlaces, PostPlaces
  <2>. QED  BY <1>4, <1>5, <2>1, <2>2, <2>3, <2>4
<1>11. ASSUME NEW t \in Threads, StoreIdle(t) PROVE HeldOrLost'
  <2>1. Owner(t) /\ lost' = lost /\ (status' = "IDLE" \/ buffer'[t])
    BY <1>a, <1>11 DEF StoreIdle, Owner, Active, RunPlaces
  <2>. QED  BY <1>2, <1>3, <1>5, <2>1 DEF Owner
<1>12. ASSUME NEW t \in Threads, FlushStore(t) PROVE HeldOrLost'
  <2>1. Owner(t) /\ lost' = lost /\ status' = "IDLE"
    BY <1>a, <1>12 DEF FlushStore, Owner
  <2>. QED  BY <1>3, <1>5, <2>1
<1>13. ASSUME NEW t \in Threads, Reacquire(t), status = "IDLE" PROVE HeldOrLost'
  <2>1. CASE round[t] + 1 < MaxRounds
    <3>1. pc'[t] = "loop" /\ lost' = lost
      BY <1>a, <1>13, <2>1 DEF Reacquire, Goto
    <3>. QED  BY <1>2, <1>6, <1>13, <3>1 DEF Owner, Active, RunPlaces
  <2>2. CASE ~(round[t] + 1 < MaxRounds)
    <3>1. /\ pc'[t] = "off" /\ lost' = "limit" /\ status' = "RUNNING" /\ tasks' = tasks
          /\ buffer' = buffer /\ ~buffer[t]
      BY <1>a, <1>13, <2>2 DEF Reacquire, Goto
    <3>2. \A u \in Threads : u # t => (Owner(u)' <=> Owner(u))
      BY <1>13, <1>a DEF Reacquire, Goto, Owner, Active
    <3>3. ~Owner(t)'
      BY <3>1 DEF Owner, Active, RunPlaces, PostPlaces
    <3>. QED  BY <1>4, <1>6, <1>13, <3>1, <3>2, <3>3
  <2>. QED  BY <2>1, <2>2
<1>14. ASSUME NEW how \in {"Shutdown", "ShutdownNow"}, StopPool(how) PROVE HeldOrLost'
  <2>1. OwnersKept /\ status' = status
    BY <1>14 DEF StopPool, local, OwnersKept, Owner, Active
  <2>2. CASE how = "ShutdownNow" /\ tasks > 0
    <3>1. lost' = "dropped" /\ tasks' = 0 /\ status = "RUNNING" /\ \A u \in Threads : ~Owner(u)
      BY <1>14, <1>a, <1>b, <2>2 DEF StopPool
    <3>. QED  BY <1>4, <2>1, <3>1 DEF OwnersKept
  <2>3. CASE ~(how = "ShutdownNow" /\ tasks > 0)
    <3>1. lost' = lost /\ tasks' = tasks
      BY <1>14, <1>a, <2>3 DEF StopPool
    <3>. QED  BY <1>1, <2>1, <3>1
  <2>. QED  BY <2>2, <2>3
<1>15. CASE UNCHANGED vars
  BY <1>15 DEF vars, shared, local, HeldOrLost, Owner, Active
<1>. QED
  BY <1>1, <1>7, <1>8, <1>9, <1>10, <1>11, <1>12, <1>13, <1>14, <1>15, OwnersStay
  DEF Next, Step, PostUserMessage, PostSystemMessage, Kinds

(* Every step keeps LimitInv: the last round has cost max_rounds messages.  *)
LEMMA NextLimit ==
    ASSUME Throughput > 0, RunContext, RoundInv, LimitInv, [Next]_vars
    PROVE  LimitInv'
<1>a. NextId \in Nat /\ NextId' \in Nat /\ NextId' >= NextId /\ MaxRounds \in Nat
  BY PostedGrows, MailboxAssumption
<1>1. ASSUME lost' = lost \/ lost' # "limit" PROVE LimitInv'
  BY <1>a, <1>1 DEF LimitInv
<1>2. ASSUME NEW t \in Threads, Reacquire(t) PROVE LimitInv'
  <2>1. CASE status = "IDLE" /\ ~(round[t] + 1 < MaxRounds)
    <3>1. Finished \in Nat /\ round[t] \in Nat /\ RoundAt(t) /\ pc[t] = "recas"
      BY <1>2, RunTypes DEF RoundInv, Reacquire
    <3>2. round[t] <= Finished /\ (round[t] + 1 <= Finished \/ Pending)
      BY <3>1 DEF RoundAt
    <3>3. NextId > MaxRounds
      BY <1>a, <2>1, <3>1, <3>2, FinishedBelowPosted
    <3>. QED  BY <1>a, <3>3 DEF LimitInv
  <2>2. CASE ~(status = "IDLE" /\ ~(round[t] + 1 < MaxRounds))
    <3>1. lost' = lost
      BY <1>2, <2>2 DEF Reacquire
    <3>. QED  BY <1>1, <3>1
  <2>. QED  BY <2>1, <2>2
<1>3. ASSUME NEW t \in Threads, NEW k \in Kinds, Push(t, k) PROVE lost' = lost
  BY <1>3 DEF Push
<1>4. ASSUME NEW t \in Threads,
             \/ Count(t) \/ Schedule(t) \/ SubmitTask(t) \/ RunInline(t) \/ RunTask(t)
             \/ PopSystem(t) \/ PopUser(t) \/ Invoke(t) \/ HandlerReturns(t)
             \/ StoreIdle(t) \/ LoadSys(t) \/ LoadUser(t) \/ HandlerThrows(t) \/ FlushStore(t)
      PROVE  lost' = lost \/ lost' # "limit"
  BY <1>4 DEF Count, Schedule, SubmitTask, RunInline, RunTask, PopSystem, PopUser,
     Invoke, HandlerReturns, StoreIdle, LoadSys, LoadUser, HandlerThrows, FlushStore
<1>5. ASSUME NEW how, StopPool(how) PROVE lost' = lost \/ lost' # "limit"
  BY <1>5 DEF StopPool
<1>6. UNCHANGED vars => lost' = lost
  BY DEF vars
<1>. QED
  BY <1>1, <1>2, <1>3, <1>4, <1>5, <1>6
  DEF Next, Step, PostUserMessage, PostSystemMessage, Kinds

(* What RunnerAccounted says in numbers follows from who holds the status.  *)
LEMMA AccountedFor ==
    ASSUME OwnerInv, HeldOrLost, Throughput > 0 => LimitInv
    PROVE  RunnerAccounted
<1>. DEFINE owners == {t \in Threads : Owner(t)}
<1>a. tasks \in Nat /\ status \in {"IDLE", "RUNNING"} /\ TokenInv
  BY DEF OwnerInv, TypeOK, SharedType
<1>1. CASE owners = {}
  <2>1. Cardinality(owners) = 0
    BY <1>1, FS_EmptySet
  <2>2. tasks + (IF lost = "no" THEN 0 ELSE 1) = IF status = "RUNNING" THEN 1 ELSE 0
    BY <1>a, <1>1 DEF HeldOrLost, TokenInv
  <2>3. tasks + Cardinality(owners) + (IF lost = "no" THEN 0 ELSE 1)
          = IF status = "RUNNING" THEN 1 ELSE 0
    BY <1>a, <2>1, <2>2
  <2>. QED  BY <2>3 DEF RunnerAccounted, LimitInv
<1>2. ASSUME NEW t \in Threads, Owner(t) PROVE RunnerAccounted
  <2>1. owners = {t}
    BY <1>a, <1>2 DEF TokenInv
  <2>2. Cardinality(owners) = 1
    BY <2>1, FS_Singleton
  <2>3. tasks = 0 /\ lost = "no" /\ status = "RUNNING"
    BY <1>a, <1>2 DEF HeldOrLost, TokenInv
  <2>4. tasks + Cardinality(owners) + (IF lost = "no" THEN 0 ELSE 1)
          = IF status = "RUNNING" THEN 1 ELSE 0
    BY <2>2, <2>3
  <2>. QED  BY <2>4 DEF RunnerAccounted, LimitInv
<1>. QED  BY <1>1, <1>2

(* With any number of threads, either dispatcher, delayed stores, handlers  *)
(* that throw, pools that are stopped and any max_rounds, a mailbox marked  *)
(* RUNNING has one task in the pool, or one thread that works on it, or was *)
(* left so by a throw, a dropped task or its last round, and an idle one    *)
(* has none of these: the status is never duplicated, and Schedule finds a  *)
(* status that nobody will give back after these three events only.         *)
THEOREM RunnerKept == Spec => []RunnerAccounted
<1>1. Init => HeldOrLost /\ LimitInv /\ RoundInv
  <2>1. ASSUME Init, NEW t \in Threads PROVE RoundAt(t)
    <3>1. /\ iter[t] = 0 /\ pc[t] = "off" /\ cur[t] = None
      BY <2>1 DEF Init
    <3>. QED  BY <3>1, MailboxAssumption DEF RoundAt
  <2>. QED  BY <2>1 DEF Init, HeldOrLost, LimitInv, RoundInv
<1>2. Spec => []HeldOrLost
  <2>1. OwnerInv /\ OwnerInv' /\ HeldOrLost /\ [Next]_vars => HeldOrLost'
    BY NextHeldOrLost
  <2>. QED  BY <1>1, <2>1, OwnerInvariant, PTL DEF Spec
<1>3. CASE Throughput > 0
  <2>1. RunContext /\ RoundInv /\ [Next]_vars => RoundInv'
    BY <1>3, NextRound
  <2>2. RunContext /\ RoundInv /\ LimitInv /\ [Next]_vars => LimitInv'
    BY <1>3, NextLimit
  <2>3. OwnerInv /\ HeldOrLost /\ LimitInv => RunnerAccounted
    BY AccountedFor
  <2>. QED  BY <1>1, <1>2, <2>1, <2>2, <2>3, OwnerInvariant, CountedInvariant, OrderPreserved,
              PTL DEF Spec, RunContext
<1>4. CASE ~(Throughput > 0)
  <2>1. OwnerInv /\ HeldOrLost => RunnerAccounted
    BY <1>4, AccountedFor
  <2>. QED  BY <1>2, <2>1, OwnerInvariant, PTL
<1>. QED  BY <1>3, <1>4
=============================================================================
