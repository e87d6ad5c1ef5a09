------------------------- MODULE ActorContextProofs -------------------------
(***************************************************************************)
(* Machine-checked proofs about ActorContext.  An operation of a context   *)
(* is first reduced to its effect on each part of the state; the theorems  *)
(* are then proved from these effects and from the steps of the mailbox.   *)
(***************************************************************************)
EXTENDS ActorContext, SequenceTheorems, TLAPS

Types == UserTypes \cup SystemTypes \cup {"Restarting"}
CallNames == {"PopUser", "Unstash", "UnstashAll", "IncarnateActor", "Restore", "Thrown"}
SomeActor == Actors \cup {NoPID}
Done == {a \in Actors : spawning[a] = "done"}

(* A message has the type and the PID it was made with.                     *)
LEMMA MessageFields ==
    ASSUME NEW types, NEW t \in types, NEW p \in SomeActor
    PROVE  M(t, p) \in MessagesOf(types) /\ M(t, p).type = t /\ M(t, p).pid = p
  BY DEF M, MessagesOf, SomeActor

(* Put appends to one queue, Drop takes the head off one.                   *)
LEMMA PutQueue ==
    ASSUME NEW S, NEW q \in [Actors -> Seq(S)], NEW a \in Actors, NEW m \in S
    PROVE  /\ Put(q, a, m) \in [Actors -> Seq(S)]
           /\ Put(q, a, m)[a] = Append(q[a], m)
           /\ \A b \in Actors \ {a} : Put(q, a, m)[b] = q[b]
  BY AppendProperties DEF Put

(* As PutQueue says.                                                        *)
LEMMA DropQueue ==
    ASSUME NEW S, NEW q \in [Actors -> Seq(S)], NEW a \in Actors, q[a] # <<>>
    PROVE  /\ Drop(q, a) \in [Actors -> Seq(S)]
           /\ Drop(q, a)[a] = Tail(q[a])
           /\ \A b \in Actors \ {a} : Drop(q, a)[b] = q[b]
  BY HeadTailProperties DEF Drop

-----------------------------------------------------------------------------
(* What an operation of context c, called while m is handled, does to the   *)
(* system mailboxes, ...                                                    *)
Plain(c) == {M(t, NoPID) : t \in {"Watch", "Unwatch", "Stop", "Restart", "Terminated"}}
            \cup {M("Failure", c)}

SysEffect(c, q) ==
    \/ sys' = q /\ intent' = intent
    \/ /\ c \in Actors
       /\ \E b \in Known, kind \in {"Watch", "Unwatch"} :
             /\ Registered(b)
             /\ sys' = Put(q, b, M(kind, c))
             /\ intent' = [intent EXCEPT ![c][b] = (kind = "Watch")]
    \/ /\ intent' = intent
       /\ \E b \in Known, x \in Plain(NoPID) : sys' = Put(q, b, x)
    \/ /\ c \in Actors /\ intent' = intent
       /\ sys' = Put(q, c, M("Terminated", NoPID))
    \/ /\ c \in Actors /\ parent[c] \in Actors /\ intent' = intent
       /\ sys' = Put(q, parent[c], M("Failure", c))

(* ... the user mailboxes, ...                                              *)
UserEffect(m, u) ==
    \/ user' = u
    \/ \E b \in Actors, t \in UserTypes, p \in Done \cup {NoPID} :
          (b \in Known \/ b = m.pid) /\ user' = Put(u, b, M(t, p))

(* ... the stashes, the calls under way and the spawns.                     *)
StashEffect(c, m, st) ==
    \/ stash' = st
    \/ c \in Actors /\ stash' = Put(st, c, m)

CallsEffect(c, st, cs) ==
    \/ calls' = cs
    \/ c \in Actors /\ calls' = [cs EXCEPT ![c] = <<"Thrown">>]
    \/ /\ c \in Actors /\ st[c] # <<>>
       /\ \E kind \in {"Unstash", "UnstashAll"} : calls' = [cs EXCEPT ![c] = <<kind>> \o @]

SpawnEffect(c) ==
    \/ UNCHANGED <<spawning, parent>>
    \/ \E b \in Actors : /\ spawning[b] = "unborn"
                         /\ spawning' = [spawning EXCEPT ![b] = "added"]
                         /\ parent' = [parent EXCEPT ![b] = c]

OpEffect(c, m, q, u, st, cs) ==
    /\ SysEffect(c, q) /\ UserEffect(m, u) /\ StashEffect(c, m, st)
    /\ CallsEffect(c, st, cs) /\ SpawnEffect(c)

(* Every operation has such an effect.                                      *)
LEMMA OpHasEffect ==
    ASSUME TypeOK, NEW c \in Actors \cup {Root}, NEW m, m.pid \in SomeActor,
           NEW q, NEW u, NEW st, NEW cs, AnyOp(c, m, At(q, u, st, cs))
    PROVE  OpEffect(c, m, q, u, st, cs)
<1>. DEFINE s == At(q, u, st, cs)
<1>1. s.sys = q /\ s.user = u /\ s.stash = st /\ s.calls = cs
  BY DEF At
<1>. HIDE DEF s
<1>2. Done \subseteq Known /\ Known \subseteq Actors
  BY DEF Done, Known
<1>. DEFINE Rest1 == user' = u /\ stash' = st /\ calls' = cs /\ UNCHANGED <<spawning, parent>>
<1>3. Rest1 /\ SysEffect(c, q) => OpEffect(c, m, q, u, st, cs)
  BY DEF OpEffect, UserEffect, StashEffect, CallsEffect, SpawnEffect
<1>4. ASSUME NEW b \in Known, NEW kind \in {"Watch", "Unwatch", "Stop", "Restart"},
             NEW w \in SomeActor, PostSystem(b, M(kind, w), s)
      PROVE  /\ Rest1
             /\ \/ Registered(b) /\ sys' = Put(q, b, M(kind, w))
                \/ ~Registered(b) /\ sys' = q
                \/ w # NoPID /\ ~Registered(b) /\ sys' = Put(q, w, M("Terminated", NoPID))
  BY <1>1, <1>4 DEF PostSystem, SendSystemMessage, M
<1>5. ASSUME Watch(c, s)  PROVE OpEffect(c, m, q, u, st, cs)
  <2>1. PICK kind \in {"Watch", "Unwatch"}, b \in Known :
          /\ PostSystem(b, M(kind, c), s)
          /\ intent' = IF Registered(b) THEN [intent EXCEPT ![c][b] = (kind = "Watch")]
                       ELSE intent
    BY <1>5 DEF Watch
  <2>2. c \in Actors
    BY <1>5 DEF Watch
  <2>3. Rest1 /\ SysEffect(c, q)
    BY <1>4, <2>1, <2>2 DEF SysEffect, SomeActor
  <2>. QED  BY <1>3, <2>3
<1>6. ASSUME Stop(c, s) \/ RootWatch(c, s)  PROVE OpEffect(c, m, q, u, st, cs)
  <2>1. PICK kind \in {"Watch", "Unwatch", "Stop", "Restart"}, b \in Known :
          PostSystem(b, M(kind, NoPID), s)
    BY <1>6 DEF Stop, RootWatch
  <2>2. intent' = intent
    BY <1>6 DEF Stop, RootWatch
  <2>3. M(kind, NoPID) \in Plain(NoPID)
    BY DEF Plain
  <2>4. Rest1 /\ (sys' = q \/ sys' = Put(q, b, M(kind, NoPID)))
    BY <1>4, <2>1 DEF SomeActor
  <2>5. SysEffect(c, q)
    BY <2>2, <2>3, <2>4 DEF SysEffect
  <2>. QED  BY <1>3, <2>4, <2>5
<1>7. ASSUME RequestFuture(c, s) \/ StopFuture(c, s)  PROVE OpEffect(c, m, q, u, st, cs)
  <2>1. FutureThrows(c, s)
    BY <1>7 DEF RequestFuture, StopFuture
  <2>. QED
    BY <1>1, <2>1 DEF FutureThrows, OpEffect, SysEffect, UserEffect, StashEffect,
                      CallsEffect, SpawnEffect
<1>8. ASSUME EscalateFailure(c, s)  PROVE OpEffect(c, m, q, u, st, cs)
  BY <1>1, <1>3, <1>8 DEF EscalateFailure, SysEffect
<1>9. ASSUME NEW b \in Actors, b \in Known \/ b = m.pid, NEW t \in UserTypes,
             NEW p \in Done \cup {NoPID}, Post(b, M(t, p), s)
      PROVE  OpEffect(c, m, q, u, st, cs)
  <2>1. /\ sys' = q /\ stash' = st /\ calls' = cs
        /\ UNCHANGED <<spawning, parent, intent>>
        /\ user' = SendUserMessage(u, b, M(t, p))
    BY <1>1, <1>9 DEF Post
  <2>2. UserEffect(m, u)
    <3>1. M(t, p).pid = p
      BY DEF M
    <3>2. CASE user' = Put(u, b, M(t, p))
      BY <3>2, <1>9 DEF UserEffect
    <3>3. CASE p # NoPID /\ user' = Put(u, p, M("DeadLetterResponse", NoPID))
      <4>1. p \in Actors /\ p \in Known /\ "DeadLetterResponse" \in UserTypes
        BY <3>3, <1>2, <1>9 DEF UserTypes
      <4>. QED  BY <3>3, <4>1 DEF UserEffect
    <3>4. CASE user' = u
      BY <3>4 DEF UserEffect
    <3>. QED  BY <2>1, <3>1, <3>2, <3>3, <3>4 DEF SendUserMessage
  <2>. QED
    BY <2>1, <2>2 DEF OpEffect, SysEffect, StashEffect, CallsEffect, SpawnEffect
<1>10. ASSUME Send(c, s) \/ Poison(c, s) \/ Request(c, s) \/ RequestWithCustomSender(c, s)
       PROVE  OpEffect(c, m, q, u, st, cs)
  <2>1. \E b \in Known, t \in UserTypes, p \in Done \cup {NoPID} : Post(b, M(t, p), s)
    <3>1. \A p : Envelope(M("Message", p)) \in {M("Message", NoPID), M("Envelope", NoPID)}
      BY DEF Envelope, M
    <3>2. {"Message", "PoisonPill", "Envelope"} \subseteq UserTypes
      BY DEF UserTypes
    <3>. QED
      BY <1>10, <3>1, <3>2 DEF Send, Poison, Request, RequestWithCustomSender, Done
  <2>. QED  BY <1>2, <1>9, <2>1
<1>11. ASSUME Respond(c, m, s)  PROVE OpEffect(c, m, q, u, st, cs)
  <2>1. CASE Sender(m) # NoPID
    <3>1. Sender(m) = m.pid /\ Sender(m) \in Actors /\ "Response" \in UserTypes
      BY <2>1 DEF Sender, UnwrapEnvelope, SomeActor, UserTypes
    <3>2. Post(Sender(m), M("Response", NoPID), s)
      BY <1>11, <2>1 DEF Respond
    <3>. QED  BY <1>9, <3>1, <3>2
  <2>2. CASE Sender(m) = NoPID
    BY <1>1, <1>11, <2>2
       DEF Respond, OpEffect, SysEffect, UserEffect, StashEffect, CallsEffect, SpawnEffect
  <2>. QED  BY <2>1, <2>2
<1>12. ASSUME Stash(c, m, s) \/ Unstash(c, s) \/ SpawnAdd(c, s)
       PROVE  OpEffect(c, m, q, u, st, cs)
  <2>1. sys' = q /\ user' = u /\ intent' = intent
    BY <1>1, <1>12 DEF Stash, Unstash, SpawnAdd
  <2>2. StashEffect(c, m, st) /\ CallsEffect(c, st, cs) /\ SpawnEffect(c)
    BY <1>1, <1>12
       DEF Stash, Unstash, SpawnAdd, StashEffect, CallsEffect, SpawnEffect, Put
  <2>. QED  BY <2>1, <2>2 DEF OpEffect, SysEffect, UserEffect
<1>. QED  BY <1>5, <1>6, <1>7, <1>8, <1>10, <1>11, <1>12 DEF AnyOp, s

(* A handler that does nothing has such an effect, too, and a handler is    *)
(* counted and keeps to the ways the program can die.                       *)
LEMMA ReceiveEffect ==
    ASSUME TypeOK, NEW a \in Actors, NEW m, m.pid \in SomeActor,
           NEW q, NEW u, NEW st, NEW cs, Receive(a, m, At(q, u, st, cs))
    PROVE  OpEffect(a, m, q, u, st, cs) /\ log' = Put(log, a, m.type)
<1>1. log' = Put(log, a, m.type)
  BY DEF Receive, Put
<1>2. CASE AnyOp(a, m, At(q, u, st, cs))
  BY <1>1, <1>2, OpHasEffect
<1>3. CASE NoOp(At(q, u, st, cs))
  BY <1>1, <1>3 DEF NoOp, At, OpEffect, SysEffect, UserEffect, StashEffect, CallsEffect,
                    SpawnEffect
<1>. QED  BY <1>2, <1>3 DEF Receive

(* InvokeUserMessage is a Receive, unless the actor has stopped.            *)
LEMMA InvokeEffect ==
    ASSUME TypeOK, NEW a \in Actors, NEW m, m.pid \in SomeActor,
           NEW q, NEW u, NEW st, NEW cs, InvokeUserMessage(a, m, At(q, u, st, cs))
    PROVE  /\ OpEffect(a, m, q, u, st, cs)
           /\ IF life[a] = "STOPPED"
              THEN log' = log /\ sys' = q /\ stash' = st /\ calls' = cs
              ELSE log' = Put(log, a, m.type)
<1>1. CASE life[a] = "STOPPED"
  BY <1>1 DEF InvokeUserMessage, NoOp, At, OpEffect, SysEffect, UserEffect, StashEffect,
              CallsEffect, SpawnEffect
<1>2. CASE life[a] # "STOPPED"
  BY <1>2, ReceiveEffect DEF InvokeUserMessage
<1>. QED  BY <1>1, <1>2

(* Operations keep to their bound and to the ways the program can die.      *)
LEMMA OpCounted ==
    ASSUME TypeOK, NEW c, NEW m, NEW s, AnyOp(c, m, s) \/ NoOp(s)
    PROVE  crashed' \in {"no", "dispatcher", "deadletter"} /\ ops' \in 0..MaxOps
<1>1. CASE NoOp(s)
  BY <1>1 DEF NoOp, TypeOK
<1>2. ASSUME NEW kind, OpAllowed(kind)  PROVE ops' \in 0..MaxOps
  BY <1>2, ContextAssumption DEF OpAllowed, TypeOK
<1>3. \A b, x : Posted(b, x) => crashed' \in {"no", "dispatcher", "deadletter"}
  BY DEF Posted
<1>4. CASE AnyOp(c, m, s)
  <2>1. ops' \in 0..MaxOps
    BY <1>2, <1>4, Zenon
       DEF AnyOp, Watch, Stop, RootWatch, RequestFuture, StopFuture, EscalateFailure, Send,
           Poison, Request, RequestWithCustomSender, Respond, Stash, Unstash, SpawnAdd
  <2>2. crashed' \in {"no", "dispatcher", "deadletter"}
    <3>1. crashed \in {"no", "dispatcher", "deadletter"}
      BY DEF TypeOK
    <3>2. \A b, x : PostSystem(b, x, s) \/ Post(b, x, s) =>
             crashed' \in {"no", "dispatcher", "deadletter"}
      BY <1>3 DEF PostSystem, Post
    <3>3. CASE \/ Watch(c, s) \/ Stop(c, s) \/ RootWatch(c, s) \/ Send(c, s) \/ Poison(c, s)
               \/ Request(c, s) \/ RequestWithCustomSender(c, s)
      BY <3>2, <3>3, Zenon
         DEF Watch, Stop, RootWatch, Send, Poison, Request, RequestWithCustomSender
    <3>4. CASE Respond(c, m, s)
      BY <3>2, <3>4 DEF Respond
    <3>5. CASE \/ RequestFuture(c, s) \/ StopFuture(c, s) \/ EscalateFailure(c, s)
               \/ Stash(c, m, s) \/ Unstash(c, s) \/ SpawnAdd(c, s)
      BY <3>1, <3>5 DEF RequestFuture, StopFuture, FutureThrows, EscalateFailure, Stash,
                        Unstash, SpawnAdd
    <3>. QED  BY <1>4, <3>3, <3>4, <3>5 DEF AnyOp
  <2>. QED  BY <2>1, <2>2
<1>. QED  BY <1>1, <1>4

-----------------------------------------------------------------------------
(* Types                                                                    *)

SysQueues == [Actors -> Seq(MessagesOf(SystemTypes))]
UserQueues == [Actors -> Seq(MessagesOf(UserTypes))]
Stashes == [Actors -> Seq(MessagesOf(Types))]
Calls == [Actors -> Seq(CallNames)]

(* What a message of Plain is.                                              *)
LEMMA PlainMessages ==
    ASSUME NEW x \in Plain(NoPID)
    PROVE  /\ x \in MessagesOf(SystemTypes) /\ x.pid = NoPID /\ x.type # "Started"
<1>1. PICK t \in {"Watch", "Unwatch", "Stop", "Restart", "Terminated", "Failure"} :
        x = M(t, NoPID)
  BY DEF Plain
<1>2. t \in SystemTypes /\ NoPID \in SomeActor
  BY DEF SystemTypes, SomeActor
<1>. QED  BY <1>1, <1>2, MessageFields

(* An operation leaves what has its type with its type.                     *)
LEMMA EffectTypes ==
    ASSUME TypeOK, NEW c \in Actors \cup {Root}, NEW m,
           c \in Actors => m \in MessagesOf(Types),
           NEW q \in SysQueues, NEW u \in UserQueues, NEW st \in Stashes, NEW cs \in Calls,
           OpEffect(c, m, q, u, st, cs)
    PROVE  /\ sys' \in SysQueues /\ user' \in UserQueues /\ stash' \in Stashes
           /\ calls' \in Calls
           /\ spawning' \in [Actors -> {"unborn", "added", "ready", "done"}]
           /\ parent' \in [Actors -> Actors \cup {Root}]
           /\ intent' \in [Actors -> [Actors -> BOOLEAN]]
<1>1. Known \subseteq Actors
  BY DEF Known
<1>2. sys' \in SysQueues
  <2>1. ASSUME NEW b \in Actors, NEW x \in MessagesOf(SystemTypes), sys' = Put(q, b, x)
        PROVE  sys' \in SysQueues
    BY <2>1, PutQueue DEF SysQueues
  <2>2. \A t \in {"Watch", "Unwatch", "Terminated", "Failure"}, p \in SomeActor :
           M(t, p) \in MessagesOf(SystemTypes)
    BY MessageFields DEF SystemTypes
  <2>3. CASE sys' = q
    BY <2>3
  <2>4. CASE \E b \in Known, x \in Plain(NoPID) : sys' = Put(q, b, x)
    BY <1>1, <2>1, <2>4, PlainMessages
  <2>5. CASE c \in Actors /\ \E b \in Known, kind \in {"Watch", "Unwatch"} :
                              sys' = Put(q, b, M(kind, c))
    BY <1>1, <2>1, <2>2, <2>5 DEF SomeActor
  <2>6. CASE c \in Actors /\ sys' = Put(q, c, M("Terminated", NoPID))
    BY <2>1, <2>2, <2>6 DEF SomeActor
  <2>7. CASE c \in Actors /\ parent[c] \in Actors /\ sys' = Put(q, parent[c], M("Failure", c))
    BY <2>1, <2>2, <2>7 DEF SomeActor
  <2>. QED  BY <2>3, <2>4, <2>5, <2>6, <2>7 DEF OpEffect, SysEffect
<1>3. user' \in UserQueues
  <2>1. CASE user' = u
    BY <2>1
  <2>2. ASSUME NEW b \in Actors, NEW t \in UserTypes, NEW p \in Done \cup {NoPID},
               user' = Put(u, b, M(t, p))
        PROVE  user' \in UserQueues
    BY <2>2, MessageFields, PutQueue DEF UserQueues, SomeActor, Done
  <2>. QED  BY <2>1, <2>2 DEF OpEffect, UserEffect
<1>4. stash' \in Stashes
  BY PutQueue DEF OpEffect, StashEffect, Stashes
<1>5. calls' \in Calls
  <2>1. CASE calls' = cs
    BY <2>1
  <2>2. CASE c \in Actors /\ calls' = [cs EXCEPT ![c] = <<"Thrown">>]
    <3>1. <<"Thrown">> \in Seq(CallNames)
      BY DEF CallNames
    <3>. QED  BY <2>2, <3>1 DEF Calls
  <2>3. ASSUME c \in Actors, NEW kind \in {"Unstash", "UnstashAll"},
               calls' = [cs EXCEPT ![c] = <<kind>> \o @]
        PROVE  calls' \in Calls
    <3>1. <<kind>> \in Seq(CallNames) /\ cs[c] \in Seq(CallNames)
      BY <2>3 DEF CallNames, Calls
    <3>2. <<kind>> \o cs[c] \in Seq(CallNames)
      BY <3>1, ConcatProperties
    <3>. QED  BY <2>3, <3>2 DEF Calls
  <2>. QED  BY <2>1, <2>2, <2>3 DEF OpEffect, CallsEffect
<1>6. /\ spawning' \in [Actors -> {"unborn", "added", "ready", "done"}]
      /\ parent' \in [Actors -> Actors \cup {Root}]
  <2>1. CASE UNCHANGED <<spawning, parent>>
    BY <2>1 DEF TypeOK
  <2>2. ASSUME NEW b \in Actors, spawning' = [spawning EXCEPT ![b] = "added"],
               parent' = [parent EXCEPT ![b] = c]
        PROVE  /\ spawning' \in [Actors -> {"unborn", "added", "ready", "done"}]
               /\ parent' \in [Actors -> Actors \cup {Root}]
    BY <2>2 DEF TypeOK
  <2>. QED  BY <2>1, <2>2 DEF OpEffect, SpawnEffect
<1>7. intent' \in [Actors -> [Actors -> BOOLEAN]]
  <2>1. CASE intent' = intent
    BY <2>1 DEF TypeOK
  <2>2. ASSUME c \in Actors, NEW b \in Actors, NEW v \in BOOLEAN,
               intent' = [intent EXCEPT ![c][b] = v]
        PROVE  intent' \in [Actors -> [Actors -> BOOLEAN]]
    BY <2>2 DEF TypeOK
  <2>3. \A kind \in {"Watch", "Unwatch"} : (kind = "Watch") \in BOOLEAN
    OBVIOUS
  <2>. QED  BY <1>1, <2>1, <2>2, <2>3 DEF OpEffect, SysEffect
<1>. QED  BY <1>2, <1>3, <1>4, <1>5, <1>6, <1>7

(* TypeOK, part by part.                                                    *)
LEMMA TypesOf ==
    ASSUME TypeOK
    PROVE  /\ sys \in SysQueues /\ user \in UserQueues /\ stash \in Stashes /\ calls \in Calls
           /\ log \in [Actors -> Seq(Types)]
  BY DEF TypeOK, SysQueues, UserQueues, Stashes, Calls, Types, CallNames

(* The head of a queue is one of its elements.                              *)
LEMMA HeadOf ==
    ASSUME NEW S, NEW q \in Seq(S), q # <<>>
    PROVE  Head(q) \in S /\ Head(q) \in Elements(q)
<1>1. Head(q) \in S /\ Head(q) = q[1] /\ 1 \in DOMAIN q
  BY HeadTailProperties, LenProperties, EmptySeq
<1>. QED  BY <1>1 DEF Elements

(* The system and the user mailbox without their heads.                     *)
LEMMA SysHead ==
    ASSUME TypeOK, NEW a \in Actors, sys[a] # <<>>
    PROVE  /\ Drop(sys, a) \in SysQueues /\ Drop(sys, a)[a] = Tail(sys[a])
           /\ \A b \in Actors \ {a} : Drop(sys, a)[b] = sys[b]
           /\ Head(sys[a]) \in MessagesOf(SystemTypes) /\ Head(sys[a]) \in MessagesOf(Types)
           /\ Head(sys[a]) \in Elements(sys[a])
<1>. DEFINE S == MessagesOf(SystemTypes)
<1>1. sys \in [Actors -> Seq(S)]
  BY DEF TypeOK
<1>2. S \subseteq MessagesOf(Types)
  BY DEF MessagesOf, Types
<1>. HIDE DEF S
<1>3. /\ Drop(sys, a) \in [Actors -> Seq(S)] /\ Drop(sys, a)[a] = Tail(sys[a])
      /\ \A b \in Actors \ {a} : Drop(sys, a)[b] = sys[b]
      /\ Head(sys[a]) \in S /\ Head(sys[a]) \in Elements(sys[a])
  BY <1>1, DropQueue, HeadOf, ZenonT(60)
<1>. QED  BY <1>2, <1>3 DEF SysQueues, S

(* As SysHead says.                                                         *)
LEMMA UserHead ==
    ASSUME TypeOK, NEW a \in Actors, user[a] # <<>>
    PROVE  /\ Drop(user, a) \in UserQueues /\ Drop(user, a)[a] = Tail(user[a])
           /\ \A b \in Actors \ {a} : Drop(user, a)[b] = user[b]
           /\ Head(user[a]) \in MessagesOf(Types) /\ Head(user[a]) \in Elements(user[a])
<1>. DEFINE S == MessagesOf(UserTypes)
<1>1. user \in [Actors -> Seq(S)]
  BY DEF TypeOK
<1>2. S \subseteq MessagesOf(Types)
  BY DEF MessagesOf, Types
<1>. HIDE DEF S
<1>3. /\ Drop(user, a) \in [Actors -> Seq(S)] /\ Drop(user, a)[a] = Tail(user[a])
      /\ \A b \in Actors \ {a} : Drop(user, a)[b] = user[b]
      /\ Head(user[a]) \in S /\ Head(user[a]) \in Elements(user[a])
  BY <1>1, DropQueue, HeadOf, ZenonT(60)
<1>. QED  BY <1>2, <1>3 DEF UserQueues, S

(* The calls of an actor's thread: it is about to take a user message, and  *)
(* there is one, or it is inside handlers.  Only a restart leaves           *)
(* IncarnateActor and Restore to be done.                                   *)
Quiet(cs) == \A i \in DOMAIN cs : cs[i] # "PopUser"
Restarts(cs) == \E i \in DOMAIN cs : cs[i] \in {"IncarnateActor", "Restore"}
Restarted(a) == "Restarting" \in Elements(log[a])

CallsInv == \A a \in Actors :
    /\ Quiet(calls[a]) \/ (calls[a] = <<"PopUser">> /\ user[a] # <<>>)
    /\ Restarts(calls[a]) => Restarted(a)

(* A handler of a was called with m, what it found being q, u, st and cs.   *)
Handled(a, m, q, u, st, cs) ==
    /\ m \in MessagesOf(Types)
    /\ q \in SysQueues /\ u \in UserQueues /\ st \in Stashes /\ cs \in Calls
    /\ \A b \in Actors \ {a} :
          q[b] = sys[b] /\ u[b] = user[b] /\ st[b] = stash[b] /\ cs[b] = calls[b]
    /\ \/ q[a] = sys[a]
       \/ /\ sys[a] # <<>> /\ q[a] = Tail(sys[a])
          /\ Head(sys[a]).type \in {"Started", "Terminated", "Restart"}
    /\ u[a] = user[a] \/ (user[a] # <<>> /\ u[a] = Tail(user[a]))
    /\ \/ st[a] = stash[a]
       \/ stash[a] # <<>> /\ st[a] = SubSeq(stash[a], 1, Len(stash[a]) - 1)
    /\ st = stash \/ PopStash(a)
    /\ Quiet(cs[a])
    /\ Restarts(cs[a]) => Restarted(a)'
    /\ m.pid = NoPID \/ m \in Elements(sys[a]) \cup Elements(user[a]) \cup Elements(stash[a])
    /\ OpEffect(a, m, q, u, st, cs)
    /\ log' = log \/ log' = Put(log, a, m.type)

(* A log only grows.                                                        *)
LEMMA LogGrows ==
    ASSUME TypeOK, NEW a \in Actors, NEW t \in Types,
           log' = log \/ log' = Put(log, a, t)
    PROVE  /\ log' \in [Actors -> Seq(Types)]
           /\ \A b \in Actors : Elements(log[b]) \subseteq Elements(log'[b])
           /\ log' = Put(log, a, t) => t \in Elements(log'[a])
<1>1. log \in [Actors -> Seq(Types)]
  BY TypesOf
<1>2. CASE log' = log
  BY <1>1, <1>2, PutQueue
<1>3. CASE log' = Put(log, a, t)
  <2>1. /\ log' \in [Actors -> Seq(Types)] /\ log'[a] = Append(log[a], t)
        /\ \A b \in Actors \ {a} : log'[b] = log[b]
    BY <1>1, <1>3, PutQueue
  <2>2. /\ Len(log[a]) \in Nat
        /\ DOMAIN log[a] = 1..Len(log[a]) /\ DOMAIN log'[a] = 1..(Len(log[a]) + 1)
        /\ \A i \in 1..Len(log[a]) : log'[a][i] = log[a][i]
        /\ log'[a][Len(log[a]) + 1] = t
    BY <1>1, <2>1, AppendProperties, LenProperties
  <2>3. Elements(log[a]) \subseteq Elements(log'[a]) /\ t \in Elements(log'[a])
    BY <2>2 DEF Elements
  <2>. QED  BY <2>1, <2>3
<1>. QED  BY <1>2, <1>3

(* A queue of calls without its head has no new calls.                      *)
LEMMA TailCalls ==
    ASSUME TypeOK, NEW a \in Actors, calls[a] # <<>>, Quiet(calls[a])
    PROVE  Quiet(Tail(calls[a])) /\ (Restarts(Tail(calls[a])) => Restarts(calls[a]))
<1>1. /\ Len(calls[a]) \in Nat /\ DOMAIN calls[a] = 1..Len(calls[a])
      /\ DOMAIN Tail(calls[a]) = 1..(Len(calls[a]) - 1)
      /\ \A i \in 1..(Len(calls[a]) - 1) : Tail(calls[a])[i] = calls[a][i + 1]
  BY TypesOf, HeadTailProperties, LenProperties DEF Calls
<1>2. \A i \in DOMAIN Tail(calls[a]) :
         i + 1 \in DOMAIN calls[a] /\ Tail(calls[a])[i] = calls[a][i + 1]
  BY <1>1
<1>. QED  BY <1>2 DEF Quiet, Restarts

HandlerRuns(a) ==
    \/ TakeUser(a) \/ HandleStarted(a) \/ HandleTerminated(a) \/ HandleRestart(a)
    \/ IncarnateActor(a) \/ PopStash(a)

(* Every step that calls a handler is of this form.                         *)
LEMMA HandlerShape ==
    ASSUME TypeOK, CallsInv, NEW a \in Actors, HandlerRuns(a)
    PROVE  CanRun(a) /\ \E m, q, u, st, cs : Handled(a, m, q, u, st, cs)
<1>1. /\ sys \in SysQueues /\ user \in UserQueues /\ stash \in Stashes /\ calls \in Calls
  BY TypesOf
<1>2. /\ SystemTypes \subseteq Types /\ UserTypes \subseteq Types /\ Types \subseteq Types
      /\ \A m \in MessagesOf(Types) : m.pid \in SomeActor /\ m.type \in Types
      /\ MessagesOf(SystemTypes) \subseteq MessagesOf(Types)
      /\ MessagesOf(UserTypes) \subseteq MessagesOf(Types)
  BY DEF Types, MessagesOf, SomeActor
<1>3. \A t \in Types : M(t, NoPID) \in MessagesOf(Types) /\ M(t, NoPID).pid = NoPID
                       /\ M(t, NoPID).type = t
  BY MessageFields DEF SomeActor
<1>4. Quiet(<<>>) /\ ~Restarts(<<>>)
  BY DEF Quiet, Restarts
<1>5. TakeUser(a) => CanRun(a) /\ \E m, q, u, st, cs : Handled(a, m, q, u, st, cs)
  <2>. SUFFICES ASSUME TakeUser(a)  PROVE CanRun(a) /\ \E m, q, u, st, cs : Handled(a, m, q, u, st, cs)
    OBVIOUS
  <2>. DEFINE m == Head(user[a])
              u == Drop(user, a)
              cs == Drop(calls, a)
  <2>1. CanRun(a) /\ calls[a] = <<"PopUser">> /\ user[a] # <<>>
    <3>1. CanRun(a) /\ calls[a] # <<>> /\ Head(calls[a]) = "PopUser"
      BY DEF TakeUser, Calling
    <3>2. 1 \in DOMAIN calls[a] /\ calls[a][1] = "PopUser"
      BY <1>1, <3>1, EmptySeq, LenProperties DEF Calls
    <3>. QED  BY <3>1, <3>2 DEF CallsInv, Quiet
  <2>2. InvokeUserMessage(a, m, At(sys, u, stash, cs))
    BY DEF TakeUser
  <2>3. /\ u \in UserQueues /\ u[a] = Tail(user[a]) /\ \A b \in Actors \ {a} : u[b] = user[b]
        /\ m \in MessagesOf(Types) /\ m \in Elements(user[a])
    BY <2>1, UserHead
  <2>4. /\ cs \in Calls /\ cs[a] = <<>> /\ \A b \in Actors \ {a} : cs[b] = calls[b]
    <3>1. Tail(<<"PopUser">>) = <<>>
      OBVIOUS
    <3>2. calls \in [Actors -> Seq(CallNames)] /\ calls[a] # <<>>
      BY <1>1, <2>1 DEF Calls
    <3>. QED  BY <2>1, <3>1, <3>2, DropQueue, ZenonT(60) DEF Calls
  <2>. HIDE DEF m, u, cs
  <2>5. OpEffect(a, m, sys, u, stash, cs) /\ (log' = log \/ log' = Put(log, a, m.type))
    BY <1>2, <2>2, <2>3, InvokeEffect
  <2>6. Handled(a, m, sys, u, stash, cs)
    BY <1>1, <1>4, <2>1, <2>3, <2>4, <2>5 DEF Handled
  <2>. QED  BY <2>1, <2>6
<1>6. HandleStarted(a) \/ HandleTerminated(a) =>
         CanRun(a) /\ \E m, q, u, st, cs : Handled(a, m, q, u, st, cs)
  <2>. SUFFICES ASSUME HandleStarted(a) \/ HandleTerminated(a)
                PROVE  CanRun(a) /\ \E m, q, u, st, cs : Handled(a, m, q, u, st, cs)
    OBVIOUS
  <2>. DEFINE m == Head(sys[a])
              q == Drop(sys, a)
  <2>1. /\ CanRun(a) /\ calls[a] = <<>> /\ sys[a] # <<>>
        /\ m.type \in {"Started", "Terminated"}
    BY DEF HandleStarted, HandleTerminated, Takes
  <2>2. \/ Receive(a, m, At(q, user, stash, calls))
        \/ InvokeUserMessage(a, m, At(q, user, stash, calls))
    BY DEF HandleStarted, HandleTerminated, Rest
  <2>3. /\ q \in SysQueues /\ q[a] = Tail(sys[a]) /\ \A b \in Actors \ {a} : q[b] = sys[b]
        /\ m \in MessagesOf(Types) /\ m \in Elements(sys[a])
    BY <2>1, SysHead
  <2>4. OpEffect(a, m, q, user, stash, calls) /\ (log' = log \/ log' = Put(log, a, m.type))
    <3>. HIDE DEF m, q
    <3>. QED  BY <1>2, <2>2, <2>3, ReceiveEffect, InvokeEffect
  <2>5. Handled(a, m, q, user, stash, calls)
    <3>. HIDE DEF q
    <3>. QED  BY <1>1, <1>4, <2>1, <2>3, <2>4 DEF Handled
  <2>. QED  BY <2>1, <2>5
<1>7. HandleRestart(a) => CanRun(a) /\ \E m, q, u, st, cs : Handled(a, m, q, u, st, cs)
  <2>. SUFFICES ASSUME HandleRestart(a)
                PROVE  CanRun(a) /\ \E m, q, u, st, cs : Handled(a, m, q, u, st, cs)
    OBVIOUS
  <2>. DEFINE m == M("Restarting", NoPID)
              q == Drop(sys, a)
              cs == [calls EXCEPT ![a] = <<"IncarnateActor">>]
  <2>1. CanRun(a) /\ sys[a] # <<>> /\ Head(sys[a]).type = "Restart"
    BY DEF HandleRestart, Takes
  <2>2. Receive(a, m, At(q, user, stash, cs))
    BY DEF HandleRestart, Rest
  <2>3. /\ q \in SysQueues /\ q[a] = Tail(sys[a]) /\ \A b \in Actors \ {a} : q[b] = sys[b]
    BY <2>1, SysHead
  <2>4. /\ cs \in Calls /\ Quiet(cs[a]) /\ \A b \in Actors \ {a} : cs[b] = calls[b]
    <3>1. <<"IncarnateActor">> \in Seq(CallNames) /\ Quiet(<<"IncarnateActor">>)
      BY DEF CallNames, Quiet
    <3>. QED  BY <1>1, <3>1 DEF Calls
  <2>5. m \in MessagesOf(Types) /\ m.pid = NoPID /\ m.type = "Restarting"
    BY <1>3 DEF Types
  <2>. HIDE DEF m, q, cs
  <2>6. OpEffect(a, m, q, user, stash, cs) /\ log' = Put(log, a, m.type)
    BY <1>2, <2>2, <2>5, ReceiveEffect
  <2>7. Restarted(a)'
    <3>1. "Restarting" \in Elements(log'[a])
      BY <1>2, <2>5, <2>6, LogGrows
    <3>. QED  BY <3>1 DEF Restarted, Elements
  <2>8. Handled(a, m, q, user, stash, cs)
    BY <1>1, <2>1, <2>3, <2>4, <2>5, <2>6, <2>7 DEF Handled
  <2>. QED  BY <2>1, <2>8
<1>8. IncarnateActor(a) => CanRun(a) /\ \E m, q, u, st, cs : Handled(a, m, q, u, st, cs)
  <2>. SUFFICES ASSUME IncarnateActor(a)
                PROVE  CanRun(a) /\ \E m, q, u, st, cs : Handled(a, m, q, u, st, cs)
    OBVIOUS
  <2>. DEFINE m == M("Started", NoPID)
              cs == [calls EXCEPT ![a] = <<"Restore">>]
  <2>1. CanRun(a) /\ calls[a] # <<>> /\ Head(calls[a]) = "IncarnateActor"
    BY DEF IncarnateActor, Calling
  <2>2. Receive(a, m, At(sys, user, stash, cs))
    BY DEF IncarnateActor
  <2>3. /\ cs \in Calls /\ Quiet(cs[a]) /\ \A b \in Actors \ {a} : cs[b] = calls[b]
    <3>1. <<"Restore">> \in Seq(CallNames) /\ Quiet(<<"Restore">>)
      BY DEF CallNames, Quiet
    <3>. QED  BY <1>1, <3>1 DEF Calls
  <2>4. m \in MessagesOf(Types) /\ m.pid = NoPID /\ m.type \in Types
    BY <1>3 DEF Types, SystemTypes
  <2>. HIDE DEF m, cs
  <2>5. OpEffect(a, m, sys, user, stash, cs) /\ log' = Put(log, a, m.type)
    BY <1>2, <2>2, <2>4, ReceiveEffect
  <2>6. Restarted(a)'
    <3>1. 1 \in DOMAIN calls[a] /\ calls[a][1] = "IncarnateActor"
      BY <1>1, <2>1, EmptySeq, LenProperties DEF Calls
    <3>2. "Restarting" \in Elements(log[a])
      BY <3>1 DEF CallsInv, Restarts, Restarted
    <3>3. "Restarting" \in Elements(log'[a])
      BY <2>4, <2>5, <3>2, LogGrows
    <3>. QED  BY <3>3 DEF Restarted, Elements
  <2>7. Handled(a, m, sys, user, stash, cs)
    BY <1>1, <2>3, <2>4, <2>5, <2>6 DEF Handled
  <2>. QED  BY <2>1, <2>7
<1>9. PopStash(a) => CanRun(a) /\ \E m, q, u, st, cs : Handled(a, m, q, u, st, cs)
  <2>. SUFFICES ASSUME PopStash(a)
                PROVE  CanRun(a) /\ \E m, q, u, st, cs : Handled(a, m, q, u, st, cs)
    OBVIOUS
  <2>. DEFINE n == Len(stash[a])
              m == stash[a][n]
              p == SubSeq(stash[a], 1, n - 1)
              st == [stash EXCEPT ![a] = p]
              cs == Resumed(a)
  <2>1. /\ CanRun(a) /\ calls[a] # <<>> /\ Head(calls[a]) # "PopUser" /\ stash[a] # <<>>
    BY DEF PopStash, Calling
  <2>2. InvokeUserMessage(a, m, At(sys, user, st, cs))
    BY DEF PopStash
  <2>3. /\ n \in Nat /\ n > 0 /\ DOMAIN stash[a] = 1..n
        /\ \A i \in 1..n : stash[a][i] \in MessagesOf(Types)
    BY <1>1, <2>1, EmptySeq, LenProperties DEF Stashes
  <2>4. m \in MessagesOf(Types) /\ m \in Elements(stash[a])
    BY <2>3 DEF Elements
  <2>5. p \in Seq(MessagesOf(Types))
    BY <2>3, SubSeqProperties
  <2>6. st \in Stashes /\ st[a] = p /\ \A b \in Actors \ {a} : st[b] = stash[b]
    <3>. HIDE DEF p
    <3>. QED  BY <1>1, <2>5 DEF Stashes
  <2>7. Quiet(calls[a])
    <3>1. calls[a] # <<"PopUser">>
      BY <2>1
    <3>. QED  BY <3>1 DEF CallsInv
  <2>8. /\ cs \in Calls /\ \A b \in Actors \ {a} : cs[b] = calls[b]
        /\ cs[a] = calls[a] \/ cs[a] = Tail(calls[a])
    BY <1>1, <2>1, DropQueue, ZenonT(60) DEF Calls, Resumed
  <2>9. Quiet(cs[a]) /\ (Restarts(cs[a]) => Restarted(a))
    <3>1. CASE cs[a] = calls[a]
      BY <2>7, <3>1 DEF CallsInv
    <3>2. CASE cs[a] = Tail(calls[a])
      BY <2>1, <2>7, <3>2, TailCalls DEF CallsInv
    <3>. QED  BY <2>8, <3>1, <3>2
  <2>. HIDE DEF m, st, cs
  <2>10. OpEffect(a, m, sys, user, st, cs) /\ (log' = log \/ log' = Put(log, a, m.type))
    BY <1>2, <2>2, <2>4, InvokeEffect
  <2>11. Restarts(cs[a]) => Restarted(a)'
    <3>1. Elements(log[a]) \subseteq Elements(log'[a])
      BY <1>2, <2>4, <2>10, LogGrows
    <3>. QED  BY <2>9, <3>1 DEF Restarted, Elements
  <2>12. Handled(a, m, sys, user, st, cs)
    BY <1>1, <2>1, <2>4, <2>6, <2>8, <2>9, <2>10, <2>11 DEF Handled
  <2>. QED  BY <2>1, <2>12
<1>. QED  BY <1>5, <1>6, <1>7, <1>8, <1>9 DEF HandlerRuns

(* User mailboxes grow, but for the message that is handled.                *)
LEMMA UserGrows ==
    ASSUME TypeOK, NEW c, NEW m, NEW q, NEW u \in UserQueues, NEW st, NEW cs,
           OpEffect(c, m, q, u, st, cs)
    PROVE  \A b \in Actors : user'[b] = u[b] \/ user'[b] # <<>>
<1>1. CASE user' = u
  BY <1>1
<1>2. ASSUME NEW d \in Actors, NEW t \in UserTypes, NEW p \in Done \cup {NoPID},
             user' = Put(u, d, M(t, p))
      PROVE  \A b \in Actors : user'[b] = u[b] \/ user'[b] # <<>>
  <2>1. M(t, p) \in MessagesOf(UserTypes)
    BY MessageFields DEF SomeActor, Done
  <2>2. user'[d] = Append(u[d], M(t, p)) /\ \A b \in Actors \ {d} : user'[b] = u[b]
    BY <1>2, <2>1, PutQueue DEF UserQueues
  <2>3. Append(u[d], M(t, p)) # <<>>
    BY <2>1, AppendProperties DEF UserQueues
  <2>. QED  BY <2>2, <2>3
<1>. QED  BY <1>1, <1>2 DEF OpEffect, UserEffect

(* A handler leaves the types ...                                           *)
LEMMA HandledTypes ==
    ASSUME TypeOK, NEW a \in Actors, NEW m, NEW q, NEW u, NEW st, NEW cs,
           Handled(a, m, q, u, st, cs),
           life' \in [Actors -> {"ALIVE", "RESTARTING", "STOPPED"}],
           watchers' \in [Actors -> SUBSET Actors], children' \in [Actors -> SUBSET Actors],
           crashed' \in {"no", "dispatcher", "deadletter"}, ops' \in 0..MaxOps
    PROVE  TypeOK'
<1>1. m.type \in Types
  BY DEF Handled, MessagesOf
<1>2. log' \in [Actors -> Seq(Types)]
  BY <1>1, LogGrows DEF Handled
<1>3. /\ sys' \in SysQueues /\ user' \in UserQueues /\ stash' \in Stashes
      /\ calls' \in Calls
      /\ spawning' \in [Actors -> {"unborn", "added", "ready", "done"}]
      /\ parent' \in [Actors -> Actors \cup {Root}]
      /\ intent' \in [Actors -> [Actors -> BOOLEAN]]
  BY EffectTypes DEF Handled
<1>. QED
  BY <1>2, <1>3 DEF TypeOK, SysQueues, UserQueues, Stashes, Calls, Types, CallNames

(* ... and the order of the calls.                                          *)
LEMMA HandledCalls ==
    ASSUME TypeOK, CallsInv, NEW a \in Actors, NEW m, NEW q, NEW u, NEW st, NEW cs,
           Handled(a, m, q, u, st, cs)
    PROVE  CallsInv'
<1>1. \A b \in Actors : user'[b] = u[b] \/ user'[b] # <<>>
  BY UserGrows DEF Handled
<1>2. \A b \in Actors : Elements(log[b]) \subseteq Elements(log'[b])
  <2>1. m.type \in Types
    BY DEF Handled, MessagesOf
  <2>. QED  BY <2>1, LogGrows DEF Handled
<1>3. ASSUME NEW b \in Actors \ {a}
      PROVE  /\ Quiet(calls'[b]) \/ (calls'[b] = <<"PopUser">> /\ user'[b] # <<>>)
             /\ Restarts(calls'[b]) => "Restarting" \in Elements(log'[b])
  <2>1. calls'[b] = calls[b] /\ u[b] = user[b]
    BY DEF Handled, OpEffect, CallsEffect, Calls
  <2>. QED  BY <1>1, <1>2, <2>1 DEF CallsInv, Restarted
<1>4. /\ Quiet(calls'[a])
      /\ Restarts(calls'[a]) => "Restarting" \in Elements(log'[a])
  <2>1. cs \in Calls /\ Quiet(cs[a]) /\ (Restarts(cs[a]) => "Restarting" \in Elements(log'[a]))
    BY DEF Handled, Restarted, Elements
  <2>2. CASE calls' = cs
    BY <2>1, <2>2
  <2>3. CASE calls' = [cs EXCEPT ![a] = <<"Thrown">>]
    <3>1. calls'[a] = <<"Thrown">>
      BY <2>1, <2>3 DEF Calls
    <3>. QED  BY <3>1 DEF Quiet, Restarts
  <2>4. ASSUME NEW kind \in {"Unstash", "UnstashAll"}, calls' = [cs EXCEPT ![a] = <<kind>> \o @]
        PROVE  /\ Quiet(calls'[a])
               /\ Restarts(calls'[a]) => "Restarting" \in Elements(log'[a])
    <3>1. calls'[a] = <<kind>> \o cs[a]
      BY <2>1, <2>4 DEF Calls
    <3>2. <<kind>> \in Seq(CallNames) /\ Len(<<kind>>) = 1 /\ cs[a] \in Seq(CallNames)
      BY <2>1 DEF CallNames, Calls
    <3>3. /\ Len(cs[a]) \in Nat /\ DOMAIN cs[a] = 1..Len(cs[a])
          /\ DOMAIN calls'[a] = 1..(1 + Len(cs[a]))
          /\ \A i \in 1..(1 + Len(cs[a])) :
                calls'[a][i] = IF i <= 1 THEN <<kind>>[i] ELSE cs[a][i - 1]
      BY <3>1, <3>2, ConcatProperties, LenProperties
    <3>4. \A i \in DOMAIN calls'[a] :
             \/ calls'[a][i] = kind
             \/ i - 1 \in DOMAIN cs[a] /\ calls'[a][i] = cs[a][i - 1]
      BY <3>3
    <3>. QED  BY <2>1, <3>4 DEF Quiet, Restarts
  <2>. QED  BY <2>2, <2>3, <2>4 DEF Handled, OpEffect, CallsEffect
<1>. QED  BY <1>3, <1>4 DEF CallsInv, Quiet, Restarts, Restarted, Elements

(* Every variable keeps its type, and calls follow one another in order.    *)
LEMMA BaseInvariant == Spec => [](TypeOK /\ CallsInv)
<1>1. Init => CallsInv
  BY DEF Init, CallsInv, Quiet, Restarts
<1>2. Init => TypeOK
  <2>. SUFFICES ASSUME Init  PROVE TypeOK
    OBVIOUS
  <2>1. \A S : <<>> \in Seq(S)
    BY EmptySeq
  <2>2. /\ calls \in Calls /\ sys \in SysQueues /\ user \in UserQueues
        /\ stash \in Stashes /\ log \in [Actors -> Seq(Types)]
    BY <2>1, Zenon DEF Init, Calls, SysQueues, UserQueues, Stashes
  <2>3. intent \in [Actors -> [Actors -> BOOLEAN]]
    BY DEF Init
  <2>4. ops \in 0..MaxOps
    BY ContextAssumption DEF Init
  <2>. QED
    BY <2>2, <2>3, <2>4
       DEF Init, TypeOK, Calls, SysQueues, UserQueues, Stashes, Types, CallNames
<1>3. TypeOK /\ CallsInv /\ [Next]_vars => TypeOK' /\ CallsInv'
  <2>. SUFFICES ASSUME TypeOK, CallsInv, [Next]_vars  PROVE TypeOK' /\ CallsInv'
    OBVIOUS
  <2>. USE TypesOf
  <2>1. CASE UNCHANGED vars
    BY <2>1 DEF vars, TypeOK, CallsInv, Quiet, Restarts, Restarted, Elements
  <2>2. CASE RootOp
    <3>1. AnyOp(Root, M("None", NoPID), At(sys, user, stash, calls))
      BY <2>2 DEF RootOp, Here
    <3>2. M("None", NoPID).pid \in SomeActor /\ Root \notin Actors
      BY ContextAssumption DEF M, SomeActor
    <3>3. OpEffect(Root, M("None", NoPID), sys, user, stash, calls)
      BY <3>1, <3>2, OpHasEffect
    <3>4. crashed' \in {"no", "dispatcher", "deadletter"} /\ ops' \in 0..MaxOps
      BY <3>1, OpCounted
    <3>5. /\ sys' \in SysQueues /\ user' \in UserQueues /\ stash' \in Stashes
          /\ calls' \in Calls
          /\ spawning' \in [Actors -> {"unborn", "added", "ready", "done"}]
          /\ parent' \in [Actors -> Actors \cup {Root}]
          /\ intent' \in [Actors -> [Actors -> BOOLEAN]]
      BY <3>2, <3>3, EffectTypes
    <3>6. TypeOK'
      BY <2>2, <3>4, <3>5
         DEF RootOp, TypeOK, SysQueues, UserQueues, Stashes, Calls, Types, CallNames
    <3>7. calls' = calls /\ log' = log
      BY <2>2, <3>2, <3>3 DEF RootOp, OpEffect, CallsEffect
    <3>8. \A b \in Actors : user'[b] = user[b] \/ user'[b] # <<>>
      BY <3>3, UserGrows
    <3>. QED  BY <3>6, <3>7, <3>8 DEF CallsInv, Quiet, Restarts, Restarted, Elements
  <2>3. ASSUME NEW b \in Actors, SpawnReady(b)  PROVE TypeOK' /\ CallsInv'
    <3>1. spawning' \in [Actors -> {"unborn", "added", "ready", "done"}]
      BY <2>3 DEF SpawnReady, TypeOK
    <3>2. TypeOK'
      BY <2>3, <3>1 DEF SpawnReady, TypeOK
    <3>3. CallsInv'
      BY <2>3 DEF SpawnReady, CallsInv, Quiet, Restarts, Restarted, Elements
    <3>. QED  BY <3>2, <3>3
  <2>4. ASSUME NEW b \in Actors, SpawnDone(b)  PROVE TypeOK' /\ CallsInv'
    <3>1. spawning' \in [Actors -> {"unborn", "added", "ready", "done"}]
      BY <2>4 DEF SpawnDone, TypeOK
    <3>2. sys' \in SysQueues
      <4>1. M("Started", NoPID) \in MessagesOf(SystemTypes)
        BY MessageFields DEF SystemTypes, SomeActor
      <4>. QED  BY <2>4, <4>1, PutQueue DEF SpawnDone, SysQueues
    <3>3. children' \in [Actors -> SUBSET Actors]
      BY <2>4 DEF SpawnDone, TypeOK, Note
    <3>4. TypeOK'
      BY <2>4, <3>1, <3>2, <3>3 DEF SpawnDone, TypeOK, SysQueues
    <3>5. CallsInv'
      BY <2>4 DEF SpawnDone, CallsInv, Quiet, Restarts, Restarted, Elements
    <3>. QED  BY <3>4, <3>5
  <2>5. ASSUME NEW a \in Actors, LookUser(a)  PROVE TypeOK' /\ CallsInv'
    <3>1. <<"PopUser">> \in Seq(CallNames) /\ ~Restarts(<<"PopUser">>)
      BY DEF CallNames, Restarts
    <3>2. /\ calls' \in Calls /\ calls'[a] = <<"PopUser">>
          /\ \A b \in Actors \ {a} : calls'[b] = calls[b]
      BY <2>5, <3>1 DEF LookUser, Calls
    <3>3. TypeOK'
      BY <2>5, <3>2 DEF LookUser, TypeOK, Calls, CallNames
    <3>4. user' = user /\ log' = log /\ user[a] # <<>>
      BY <2>5 DEF LookUser
    <3>5. CallsInv'
      BY <3>1, <3>2, <3>4 DEF CallsInv, Quiet, Restarts, Restarted, Elements
    <3>. QED  BY <3>3, <3>5
  <2>6. ASSUME NEW a \in Actors, HandlerRuns(a)  PROVE TypeOK' /\ CallsInv'
    <3>1. PICK m, q, u, st, cs : Handled(a, m, q, u, st, cs)
      BY <2>6, HandlerShape
    <3>2. crashed' \in {"no", "dispatcher", "deadletter"} /\ ops' \in 0..MaxOps
      BY <2>6, OpCounted
         DEF HandlerRuns, TakeUser, HandleStarted, HandleTerminated, HandleRestart,
             IncarnateActor, PopStash, InvokeUserMessage, Receive
    <3>3. life' \in [Actors -> {"ALIVE", "RESTARTING", "STOPPED"}]
      BY <2>6 DEF HandlerRuns, TakeUser, HandleStarted, HandleTerminated, HandleRestart,
                  IncarnateActor, PopStash, TypeOK
    <3>4. watchers' \in [Actors -> SUBSET Actors] /\ children' \in [Actors -> SUBSET Actors]
      <4>1. /\ watchers' = watchers
            /\ \/ children' = children
               \/ children' = [children EXCEPT ![a] = @ \ {Head(sys[a]).pid}]
        BY <2>6, Zenon DEF HandlerRuns, TakeUser, HandleStarted, HandleTerminated,
                           HandleRestart, IncarnateActor, PopStash
      <4>2. [children EXCEPT ![a] = @ \ {Head(sys[a]).pid}] \in [Actors -> SUBSET Actors]
        BY DEF TypeOK
      <4>. QED  BY <4>1, <4>2 DEF TypeOK
    <3>. QED  BY <3>1, <3>2, <3>3, <3>4, HandledTypes, HandledCalls
  <2>7. ASSUME NEW a \in Actors,
               HandleWatch(a) \/ HandleUnwatch(a) \/ HandleStop(a) \/ HandleFailure(a)
        PROVE  TypeOK' /\ CallsInv'
    <3>1. sys[a] # <<>>
      BY <2>7 DEF HandleWatch, HandleUnwatch, HandleStop, HandleFailure, Takes
    <3>2. Rest(a) \in SysQueues /\ Head(sys[a]) \in MessagesOf(SystemTypes)
      BY <3>1, SysHead DEF Rest
    <3>3. Head(sys[a]).pid \in SomeActor
      BY <3>2 DEF MessagesOf, SomeActor
    <3>4. sys' \in SysQueues
      <4>1. \A b \in Actors, x \in MessagesOf(SystemTypes) : Put(Rest(a), b, x) \in SysQueues
        BY <3>2, PutQueue DEF SysQueues
      <4>2. M("Terminated", a) \in MessagesOf(SystemTypes)
            /\ M("Terminated", NoPID) \in MessagesOf(SystemTypes)
            /\ M("Terminated", a).type = "Terminated"
        BY MessageFields DEF SystemTypes, SomeActor
      <4>3. CASE HandleWatch(a)
        BY <3>2, <3>3, <4>1, <4>2, <4>3 DEF HandleWatch, SendSystemMessage, SomeActor
      <4>4. CASE HandleFailure(a)
        BY <3>2, <4>1, <4>4 DEF HandleFailure
      <4>5. CASE HandleUnwatch(a) \/ HandleStop(a)
        BY <3>2, <4>5 DEF HandleUnwatch, HandleStop
      <4>. QED  BY <2>7, <4>3, <4>4, <4>5
    <3>5. watchers' \in [Actors -> SUBSET Actors]
      <4>1. CASE HandleWatch(a)
        <5>1. \/ watchers' = watchers
              \/ Head(sys[a]).pid # NoPID /\ watchers' = Note(watchers, a, Head(sys[a]).pid)
          BY <4>1 DEF HandleWatch
        <5>2. \A w \in Actors : Note(watchers, a, w) \in [Actors -> SUBSET Actors]
          BY DEF TypeOK, Note
        <5>. QED  BY <3>3, <5>1, <5>2 DEF TypeOK, SomeActor
      <4>2. CASE HandleUnwatch(a)
        <5>1. \A w : [watchers EXCEPT ![a] = @ \ {w}] \in [Actors -> SUBSET Actors]
          BY DEF TypeOK
        <5>. QED  BY <4>2, <5>1 DEF HandleUnwatch
      <4>3. CASE HandleStop(a) \/ HandleFailure(a)
        BY <4>3 DEF HandleStop, HandleFailure, TypeOK
      <4>. QED  BY <2>7, <4>1, <4>2, <4>3
    <3>6. life' \in [Actors -> {"ALIVE", "RESTARTING", "STOPPED"}]
      BY <2>7 DEF HandleWatch, HandleUnwatch, HandleStop, HandleFailure, TypeOK
    <3>7. UNCHANGED <<spawning, parent, calls, user, children, stash, log, intent, crashed,
                      ops>>
      BY <2>7 DEF HandleWatch, HandleUnwatch, HandleStop, HandleFailure
    <3>8. TypeOK'
      BY <3>4, <3>5, <3>6, <3>7 DEF TypeOK, SysQueues
    <3>9. CallsInv'
      BY <3>7 DEF CallsInv, Quiet, Restarts, Restarted, Elements
    <3>. QED  BY <3>8, <3>9
  <2>8. ASSUME NEW a \in Actors, StashEmptied(a)  PROVE TypeOK' /\ CallsInv'
    <3>1. calls[a] # <<>> /\ Head(calls[a]) # "PopUser" /\ calls' = Drop(calls, a)
      BY <2>8 DEF StashEmptied, Calling, Drop
    <3>2. /\ calls' \in Calls /\ calls'[a] = Tail(calls[a])
          /\ \A b \in Actors \ {a} : calls'[b] = calls[b]
      BY <3>1, DropQueue, ZenonT(60) DEF Calls
    <3>3. life' \in [Actors -> {"ALIVE", "RESTARTING", "STOPPED"}]
      BY <2>8 DEF StashEmptied, TypeOK
    <3>4. UNCHANGED <<spawning, parent, sys, user, watchers, children, stash, log, intent,
                      crashed, ops>>
      BY <2>8 DEF StashEmptied
    <3>5. TypeOK'
      BY <3>2, <3>3, <3>4 DEF TypeOK, Calls, CallNames
    <3>6. Quiet(calls[a])
      BY <3>1 DEF CallsInv
    <3>7. Quiet(Tail(calls[a])) /\ (Restarts(Tail(calls[a])) => Restarts(calls[a]))
      BY <3>1, <3>6, TailCalls
    <3>8. CallsInv'
      <4>1. user' = user /\ log' = log
        BY <3>4
      <4>. QED
        BY <3>2, <3>7, <4>1 DEF CallsInv, Restarted, Elements
    <3>. QED  BY <3>5, <3>8
  <2>. QED
    BY <2>1, <2>2, <2>3, <2>4, <2>5, <2>6, <2>7, <2>8 DEF Next, Run, HandlerRuns
<1>. QED  BY <1>1, <1>2, <1>3, PTL DEF Spec

-----------------------------------------------------------------------------
(* Children                                                                 *)

(* The actor is stopped or has been restarted since.                        *)
Gone(a) == life[a] # "ALIVE" \/ Restarted(a)

(* What Append and Tail do to the elements of a queue.                      *)
LEMMA ElementsOf ==
    ASSUME NEW S, NEW q \in Seq(S)
    PROVE  /\ \A x \in S : Elements(Append(q, x)) = Elements(q) \cup {x}
           /\ q # <<>> => Elements(Tail(q)) \subseteq Elements(q)
<1>1. Len(q) \in Nat /\ DOMAIN q = 1..Len(q)
  BY LenProperties
<1>2. ASSUME NEW x \in S  PROVE Elements(Append(q, x)) = Elements(q) \cup {x}
  <2>1. /\ DOMAIN Append(q, x) = 1..(Len(q) + 1)
        /\ \A i \in 1..Len(q) : Append(q, x)[i] = q[i]
        /\ Append(q, x)[Len(q) + 1] = x
    BY AppendProperties, LenProperties
  <2>2. 1..(Len(q) + 1) = (1..Len(q)) \cup {Len(q) + 1}
    BY <1>1
  <2>. QED  BY <1>1, <2>1, <2>2 DEF Elements
<1>3. ASSUME q # <<>>  PROVE Elements(Tail(q)) \subseteq Elements(q)
  <2>1. /\ DOMAIN Tail(q) = 1..(Len(q) - 1)
        /\ \A i \in 1..(Len(q) - 1) : Tail(q)[i] = q[i + 1]
    BY <1>3, HeadTailProperties, LenProperties
  <2>2. \A i \in 1..(Len(q) - 1) : i + 1 \in DOMAIN q
    BY <1>1
  <2>. QED  BY <2>1, <2>2 DEF Elements
<1>. QED  BY <1>2, <1>3

(* Nothing but a restart brings an actor back, and a restart is logged.     *)
LEMMA GoneStays ==
    ASSUME TypeOK, CallsInv, [Next]_vars, NEW a \in Actors, Gone(a)
    PROVE  Gone(a)'
<1>1. Elements(log[a]) \subseteq Elements(log'[a]) => (Restarted(a) => Restarted(a)')
  BY DEF Restarted, Elements
<1>2. (Elements(log[a]) \subseteq Elements(log'[a]) /\ life'[a] = life[a]) => Gone(a)'
  BY <1>1 DEF Gone
<1>3. CASE life' = life /\ log' = log
  BY <1>2, <1>3
<1>4. ASSUME NEW b \in Actors, HandlerRuns(b)  PROVE Gone(a)'
  <2>1. Elements(log[a]) \subseteq Elements(log'[a])
    <3>1. PICK m, q, u, st, cs : Handled(b, m, q, u, st, cs)
      BY <1>4, HandlerShape
    <3>2. m.type \in Types
      BY <3>1 DEF Handled, MessagesOf
    <3>. QED  BY <3>1, <3>2, LogGrows DEF Handled
  <2>2. CASE life' = life
    BY <1>2, <2>1, <2>2
  <2>3. CASE HandleRestart(b)
    <3>1. life' = [life EXCEPT ![b] = "RESTARTING"]
      BY <2>3 DEF HandleRestart
    <3>2. life'[a] = life[a] \/ life'[a] = "RESTARTING"
      BY <3>1 DEF TypeOK
    <3>. QED  BY <1>2, <2>1, <3>2 DEF Gone
  <2>4. CASE IncarnateActor(b)
    <3>1. /\ life' = [life EXCEPT ![b] = "ALIVE"]
          /\ calls[b] # <<>> /\ Head(calls[b]) = "IncarnateActor"
      BY <2>4 DEF IncarnateActor, Calling
    <3>2. 1 \in DOMAIN calls[b] /\ calls[b][1] = "IncarnateActor"
      BY <3>1, TypesOf, EmptySeq, LenProperties DEF Calls
    <3>3. Restarted(b)
      BY <3>2 DEF CallsInv, Restarts
    <3>4. CASE a = b
      BY <1>1, <2>1, <3>3, <3>4 DEF Gone
    <3>5. CASE a # b
      BY <1>2, <2>1, <3>1, <3>5 DEF TypeOK
    <3>. QED  BY <3>4, <3>5
  <2>. QED
    BY <1>4, <2>2, <2>3, <2>4
       DEF HandlerRuns, TakeUser, HandleStarted, HandleTerminated, PopStash
<1>5. ASSUME NEW b \in Actors, HandleStop(b)  PROVE Gone(a)'
  <2>1. log' = log /\ (life'[a] = life[a] \/ life'[a] = "STOPPED")
    BY <1>5 DEF HandleStop, TypeOK
  <2>. QED  BY <1>2, <2>1 DEF Gone
<1>6. ASSUME NEW b \in Actors, StashEmptied(b)  PROVE Gone(a)'
  <2>1. /\ log' = log /\ calls[b] # <<>>
        /\ life' = [life EXCEPT ![b] = IF Head(calls[b]) = "Restore" THEN "ALIVE" ELSE @]
    BY <1>6 DEF StashEmptied, Calling
  <2>2. CASE a = b /\ Head(calls[b]) = "Restore"
    <3>1. 1 \in DOMAIN calls[b] /\ calls[b][1] = "Restore"
      BY <2>1, <2>2, TypesOf, EmptySeq, LenProperties DEF Calls
    <3>2. Restarted(b)
      BY <3>1 DEF CallsInv, Restarts
    <3>. QED  BY <1>1, <2>1, <2>2, <3>2 DEF Gone
  <2>3. CASE ~(a = b /\ Head(calls[b]) = "Restore")
    BY <1>2, <2>1, <2>3 DEF TypeOK
  <2>. QED  BY <2>2, <2>3
<1>. QED
  BY <1>3, <1>4, <1>5, <1>6
     DEF Next, vars, RootOp, SpawnReady, SpawnDone, Run, LookUser, HandleWatch, HandleUnwatch,
         HandleFailure, HandlerRuns

(* A system message is put into a mailbox, ...                              *)
LEMMA SysPut ==
    ASSUME NEW q \in SysQueues, NEW d \in Actors, NEW y \in MessagesOf(SystemTypes),
           NEW e \in Actors
    PROVE  /\ Put(q, d, y) \in SysQueues
           /\ e = d => Put(q, d, y)[e] = Append(q[e], y)
           /\ e # d => Put(q, d, y)[e] = q[e]
<1>. DEFINE S == MessagesOf(SystemTypes)
<1>1. q \in [Actors -> Seq(S)] /\ y \in S
  BY DEF SysQueues
<1>. HIDE DEF S
<1>2. /\ Put(q, d, y) \in [Actors -> Seq(S)]
      /\ Put(q, d, y)[d] = Append(q[d], y)
      /\ \A b \in Actors \ {d} : Put(q, d, y)[b] = q[b]
  BY <1>1, PutQueue
<1>. QED  BY <1>2 DEF SysQueues, S

(* ... where it is all that is new.                                         *)
LEMMA PutAdds ==
    ASSUME NEW q \in SysQueues, NEW d \in Actors, NEW y \in MessagesOf(SystemTypes),
           NEW b \in Actors, NEW x \in Elements(Put(q, d, y)[b])
    PROVE  x = y \/ x \in Elements(q[b])
<1>. DEFINE S == MessagesOf(SystemTypes)
            r == Put(q, d, y)[b]
<1>1. q[b] \in Seq(S) /\ y \in S
  BY DEF SysQueues
<1>. HIDE DEF S
<1>2. Elements(Append(q[b], y)) = Elements(q[b]) \cup {y}
  BY <1>1, ElementsOf
<1>3. r = Append(q[b], y) \/ r = q[b]
  BY SysPut, ZenonT(60)
<1>. QED  BY <1>2, <1>3

(* An operation posts no Terminated that names an actor.                    *)
LEMMA OpPosts ==
    ASSUME TypeOK, NEW c \in Actors \cup {Root}, NEW m, NEW q \in SysQueues, NEW u, NEW st,
           NEW cs, OpEffect(c, m, q, u, st, cs), NEW b \in Actors, NEW x \in Elements(sys'[b])
    PROVE  x \in Elements(q[b]) \/ x.type # "Terminated" \/ x.pid = NoPID
<1>1. ASSUME NEW d \in Actors, NEW y \in MessagesOf(SystemTypes), sys' = Put(q, d, y),
             y.type # "Terminated" \/ y.pid = NoPID
      PROVE  x \in Elements(q[b]) \/ x.type # "Terminated" \/ x.pid = NoPID
  <2>1. x \in Elements(Put(q, d, y)[b])
    BY <1>1, Zenon
  <2>2. x = y \/ x \in Elements(q[b])
    BY <2>1, PutAdds, Zenon
  <2>. QED  BY <1>1, <2>2
<1>2. \A t \in {"Watch", "Unwatch", "Terminated", "Failure"}, p \in SomeActor :
         M(t, p) \in MessagesOf(SystemTypes) /\ M(t, p).type = t /\ M(t, p).pid = p
  BY MessageFields DEF SystemTypes
<1>3. Known \subseteq Actors
  BY DEF Known
<1>4. CASE sys' = q
  BY <1>4
<1>5. CASE \E d \in Known, y \in Plain(NoPID) : sys' = Put(q, d, y)
  BY <1>1, <1>3, <1>5, PlainMessages
<1>6. CASE c \in Actors /\ \E d \in Known, kind \in {"Watch", "Unwatch"} :
                             sys' = Put(q, d, M(kind, c))
  BY <1>1, <1>2, <1>3, <1>6 DEF SomeActor
<1>7. CASE c \in Actors /\ sys' = Put(q, c, M("Terminated", NoPID))
  BY <1>1, <1>2, <1>7 DEF SomeActor
<1>8. CASE c \in Actors /\ parent[c] \in Actors /\ sys' = Put(q, parent[c], M("Failure", c))
  BY <1>1, <1>2, <1>8 DEF SomeActor
<1>. QED  BY <1>4, <1>5, <1>6, <1>7, <1>8 DEF OpEffect, SysEffect

(* Steps that only work on the system mailbox of a.                         *)
Mails(a) == HandleWatch(a) \/ HandleUnwatch(a) \/ HandleStop(a) \/ HandleFailure(a)

(* A step takes the head off a's system mailbox and posts at most one       *)
(* message: Terminated of a stopped a, to a watcher, or a Failure.          *)
LEMMA MailsPost ==
    ASSUME TypeOK, NEW a \in Actors, Mails(a)
    PROVE  /\ sys[a] # <<>> /\ Rest(a) \in SysQueues
           /\ \/ sys' = Rest(a)
              \/ \E d \in Actors, y \in MessagesOf(SystemTypes) :
                    /\ sys' = Put(Rest(a), d, y)
                    /\ d \in {Head(sys[a]).pid, parent[a]}
                    /\ \/ y.type = "Terminated" /\ y.pid = a /\ life[a] = "STOPPED"
                       \/ y.type = "Failure" /\ y.pid = Head(sys[a]).pid
<1>1. sys[a] # <<>>
  BY DEF Mails, HandleWatch, HandleUnwatch, HandleStop, HandleFailure, Takes
<1>2. /\ Rest(a) \in SysQueues /\ Head(sys[a]) \in MessagesOf(SystemTypes)
      /\ Head(sys[a]).pid \in SomeActor
  BY <1>1, SysHead DEF Rest, MessagesOf, SomeActor
<1>3. \A p \in SomeActor : /\ M("Terminated", p) \in MessagesOf(SystemTypes)
                           /\ M("Terminated", p).type = "Terminated"
                           /\ M("Terminated", p).pid = p
  BY MessageFields DEF SystemTypes
<1>4. a \in SomeActor /\ NoPID \in SomeActor
  BY DEF SomeActor
<1>5. CASE HandleUnwatch(a) \/ HandleStop(a)
  BY <1>1, <1>2, <1>5 DEF HandleUnwatch, HandleStop
<1>6. CASE HandleFailure(a)
  BY <1>1, <1>2, <1>6 DEF HandleFailure, Takes
<1>7. CASE HandleWatch(a)
  <2>. DEFINE w == Head(sys[a]).pid
  <2>1. CASE sys' = Rest(a)
    BY <1>1, <1>2, <2>1
  <2>2. CASE w # NoPID /\ life[a] = "STOPPED" /\ sys' = SendSystemMessage(Rest(a), w, M("Terminated", a))
    <3>1. w \in Actors
      BY <1>2, <2>2 DEF SomeActor
    <3>2. sys' = Put(Rest(a), w, M("Terminated", a)) \/ sys' = Rest(a)
      BY <1>3, <1>4, <2>2 DEF SendSystemMessage
    <3>. QED  BY <1>1, <1>2, <1>3, <1>4, <2>2, <3>1, <3>2
  <2>. QED  BY <1>7, <2>1, <2>2 DEF HandleWatch
<1>. QED  BY <1>5, <1>6, <1>7 DEF Mails

(* What a step adds to a system mailbox.                                    *)
LEMMA StepPosts ==
    ASSUME TypeOK, CallsInv, [Next]_vars, NEW b \in Actors, NEW x \in Elements(sys'[b])
    PROVE  \/ x \in Elements(sys[b]) \/ x.type # "Terminated" \/ x.pid = NoPID
           \/ x.pid \in Actors /\ life[x.pid] = "STOPPED"
<1>. USE TypesOf
<1>. DEFINE Fine == \/ x \in Elements(sys[b]) \/ x.type # "Terminated" \/ x.pid = NoPID
                    \/ x.pid \in Actors /\ life[x.pid] = "STOPPED"
<1>1. CASE sys' = sys
  BY <1>1
<1>2. CASE RootOp
  <2>1. AnyOp(Root, M("None", NoPID), At(sys, user, stash, calls))
    BY <1>2 DEF RootOp, Here
  <2>2. M("None", NoPID).pid \in SomeActor
    BY DEF M, SomeActor
  <2>3. OpEffect(Root, M("None", NoPID), sys, user, stash, calls)
    BY <2>1, <2>2, OpHasEffect
  <2>. QED  BY <2>3, OpPosts
<1>3. ASSUME NEW c \in Actors, SpawnDone(c)  PROVE Fine
  <2>1. /\ M("Started", NoPID) \in MessagesOf(SystemTypes)
        /\ M("Started", NoPID).type = "Started"
    BY MessageFields DEF SystemTypes, SomeActor
  <2>2. sys' = Put(sys, c, M("Started", NoPID))
    BY <1>3 DEF SpawnDone
  <2>3. x \in Elements(Put(sys, c, M("Started", NoPID))[b])
    BY <2>2, Zenon
  <2>4. x = M("Started", NoPID) \/ x \in Elements(sys[b])
    BY <2>1, <2>3, PutAdds, Zenon
  <2>. QED  BY <2>1, <2>4
<1>4. ASSUME NEW a \in Actors, HandlerRuns(a)  PROVE Fine
  <2>1. PICK m, q, u, st, cs : Handled(a, m, q, u, st, cs)
    BY <1>4, HandlerShape
  <2>2. q \in SysQueues /\ OpEffect(a, m, q, u, st, cs)
    BY <2>1 DEF Handled
  <2>3. x \in Elements(q[b]) \/ x.type # "Terminated" \/ x.pid = NoPID
    BY <2>2, OpPosts
  <2>4. Elements(q[b]) \subseteq Elements(sys[b])
    <3>1. q[b] = sys[b] \/ (sys[b] # <<>> /\ q[b] = Tail(sys[b]))
      BY <2>1 DEF Handled
    <3>2. sys[b] \in Seq(MessagesOf(SystemTypes))
      BY DEF SysQueues
    <3>. QED  BY <3>1, <3>2, ElementsOf
  <2>. QED  BY <2>3, <2>4
<1>5. ASSUME NEW a \in Actors, Mails(a)  PROVE Fine
  <2>1. sys[a] # <<>> /\ Rest(a) \in SysQueues
    BY <1>5, MailsPost
  <2>2. Elements(Rest(a)[b]) \subseteq Elements(sys[b])
    <3>1. Rest(a)[b] = sys[b] \/ (sys[b] # <<>> /\ Rest(a)[b] = Tail(sys[b]))
      BY <2>1, SysHead DEF Rest
    <3>2. sys[b] \in Seq(MessagesOf(SystemTypes))
      BY DEF SysQueues
    <3>. QED  BY <3>1, <3>2, ElementsOf
  <2>3. CASE sys' = Rest(a)
    BY <2>2, <2>3
  <2>4. ASSUME NEW d \in Actors, NEW y \in MessagesOf(SystemTypes), sys' = Put(Rest(a), d, y),
               \/ y.type = "Terminated" /\ y.pid = a /\ life[a] = "STOPPED"
               \/ y.type = "Failure"
        PROVE  Fine
    <3>1. x \in Elements(Put(Rest(a), d, y)[b])
      BY <2>4, Zenon
    <3>3. x = y \/ x \in Elements(Rest(a)[b])
      BY <2>1, <3>1, PutAdds, Zenon
    <3>. QED  BY <2>2, <2>4, <3>3
  <2>. QED  BY <1>5, <2>3, <2>4, MailsPost
<1>. QED
  BY <1>1, <1>2, <1>3, <1>4, <1>5
     DEF Next, vars, SpawnReady, Run, LookUser, StashEmptied, HandlerRuns, Mails

(* How a spawn goes on: nobody is spawned twice.                            *)
LEMMA SpawnSteps ==
    ASSUME TypeOK, CallsInv, [Next]_vars, NEW a \in Actors
    PROVE  /\ spawning[a] # "unborn" => parent'[a] = parent[a] /\ spawning'[a] # "unborn"
           /\ spawning[a] = "done" => spawning'[a] = "done"
           /\ spawning'[a] = "done" => spawning[a] = "done" \/ SpawnDone(a)
<1>. DEFINE Goal == /\ spawning[a] # "unborn" => parent'[a] = parent[a] /\ spawning'[a] # "unborn"
                    /\ spawning[a] = "done" => spawning'[a] = "done"
                    /\ spawning'[a] = "done" => spawning[a] = "done" \/ SpawnDone(a)
<1>1. CASE UNCHANGED <<spawning, parent>>
  BY <1>1
<1>2. ASSUME NEW c \in Actors \cup {Root}, SpawnEffect(c)  PROVE Goal
  <2>1. ASSUME NEW b \in Actors, spawning[b] = "unborn",
               spawning' = [spawning EXCEPT ![b] = "added"], parent' = [parent EXCEPT ![b] = c]
        PROVE  Goal
    BY <2>1 DEF TypeOK
  <2>. QED  BY <1>1, <1>2, <2>1 DEF SpawnEffect
<1>3. CASE RootOp
  <2>1. AnyOp(Root, M("None", NoPID), At(sys, user, stash, calls))
    BY <1>3 DEF RootOp, Here
  <2>2. M("None", NoPID).pid \in SomeActor
    BY DEF M, SomeActor
  <2>3. OpEffect(Root, M("None", NoPID), sys, user, stash, calls)
    BY <2>1, <2>2, OpHasEffect
  <2>. QED  BY <1>2, <2>3 DEF OpEffect
<1>4. ASSUME NEW b \in Actors, HandlerRuns(b)  PROVE Goal
  <2>1. PICK m, q, u, st, cs : Handled(b, m, q, u, st, cs)
    BY <1>4, HandlerShape
  <2>. QED  BY <1>2, <2>1 DEF Handled, OpEffect
<1>5. ASSUME NEW b \in Actors, SpawnReady(b)  PROVE Goal
  BY <1>5 DEF SpawnReady, TypeOK
<1>6. ASSUME NEW b \in Actors, SpawnDone(b)  PROVE Goal
  <2>1. CASE a = b
    BY <1>6, <2>1 DEF SpawnDone, TypeOK
  <2>2. CASE a # b
    <3>1. spawning' = [spawning EXCEPT ![b] = "done"] /\ parent' = parent
      BY <1>6 DEF SpawnDone
    <3>. QED  BY <2>2, <3>1 DEF TypeOK
  <2>. QED  BY <2>1, <2>2
<1>. QED
  BY <1>1, <1>3, <1>4, <1>5, <1>6
     DEF Next, vars, Run, LookUser, HandleWatch, HandleUnwatch, HandleStop, HandleFailure,
         StashEmptied, HandlerRuns

(* A parent lists its children but for those that are gone, and is told of  *)
(* the end only of those.                                                   *)
ChildInv ==
    /\ \A a \in Actors : spawning[a] = "done" /\ parent[a] \in Actors /\ ~Gone(a)
                         => a \in children[parent[a]]
    /\ \A b \in Actors : \A x \in Elements(sys[b]) :
          x.type = "Terminated" /\ x.pid \in Actors => Gone(x.pid)

(* A parent never forgets a child that lives: whatever is posted, only a    *)
(* stopped actor answers a Watch with a Terminated that names it.           *)
THEOREM ChildrenKept == Spec => []LivingChildListed
<1>1. Init => ChildInv
  BY DEF Init, ChildInv, Elements
<1>2. TypeOK /\ CallsInv /\ ChildInv /\ [Next]_vars => ChildInv'
  <2>. SUFFICES ASSUME TypeOK, CallsInv, ChildInv, [Next]_vars  PROVE ChildInv'
    OBVIOUS
  <2>1. \A a \in Actors : Gone(a) => Gone(a)'
    BY GoneStays
  <2>2. ASSUME NEW b \in Actors, NEW x \in Elements(sys'[b]),
               x.type = "Terminated", x.pid \in Actors
        PROVE  Gone(x.pid)'
    <3>1. x \in Elements(sys[b]) \/ life[x.pid] = "STOPPED"
      BY <2>2, StepPosts, ContextAssumption
    <3>2. Gone(x.pid)
      BY <2>2, <3>1 DEF ChildInv, Gone
    <3>. QED  BY <2>1, <2>2, <3>2
  <2>3. ASSUME NEW a \in Actors, spawning'[a] = "done", parent'[a] \in Actors, ~Gone(a)'
        PROVE  a \in children'[parent'[a]]
    <3>1. ~Gone(a)
      BY <2>1, <2>3
    <3>2. CASE SpawnDone(a)
      <4>1. /\ parent' = parent
            /\ children' = IF parent[a] \in Actors THEN Note(children, parent[a], a) ELSE children
        BY <3>2 DEF SpawnDone
      <4>2. children' = Note(children, parent[a], a) /\ parent[a] \in Actors
        BY <2>3, <4>1
      <4>. QED  BY <4>1, <4>2 DEF Note, TypeOK
    <3>3. CASE spawning[a] = "done" /\ ~SpawnDone(a)
      <4>1. parent'[a] = parent[a] /\ parent[a] \in Actors
        BY <2>3, <3>3, SpawnSteps
      <4>2. a \in children[parent[a]]
        BY <3>1, <3>3, <4>1 DEF ChildInv
      <4>3. CASE children' = children
        BY <4>1, <4>2, <4>3
      <4>4. ASSUME NEW b \in Actors, SpawnDone(b)  PROVE a \in children'[parent'[a]]
        <5>1. children' = children \/ (parent[b] \in Actors /\ children' = Note(children, parent[b], b))
          BY <4>4 DEF SpawnDone
        <5>2. parent[b] \in Actors => children[parent[a]] \subseteq Note(children, parent[b], b)[parent[a]]
          BY <4>1 DEF Note, TypeOK
        <5>. QED  BY <4>1, <4>2, <5>1, <5>2
      <4>5. ASSUME NEW b \in Actors, HandleTerminated(b)  PROVE a \in children'[parent'[a]]
        <5>1. /\ sys[b] # <<>> /\ Head(sys[b]).type = "Terminated"
              /\ children' = [children EXCEPT ![b] = @ \ {Head(sys[b]).pid}]
          BY <4>5 DEF HandleTerminated, Takes
        <5>2. Head(sys[b]) \in Elements(sys[b])
          BY <5>1, SysHead
        <5>3. Head(sys[b]).pid # a
          BY <3>1, <5>1, <5>2 DEF ChildInv
        <5>. QED  BY <4>1, <4>2, <5>1, <5>3 DEF TypeOK
      <4>. QED
        BY <4>3, <4>4, <4>5
           DEF Next, vars, RootOp, SpawnReady, Run, LookUser, TakeUser, HandleStarted,
               HandleWatch, HandleUnwatch, HandleStop, HandleFailure, HandleRestart,
               IncarnateActor, PopStash, StashEmptied
    <3>. QED  BY <2>3, <3>2, <3>3, SpawnSteps
  <2>. QED  BY <2>2, <2>3 DEF ChildInv, Gone, Restarted, Elements
<1>3. ChildInv => LivingChildListed
  BY DEF ChildInv, LivingChildListed, Gone, Restarted
<1>. QED  BY <1>1, <1>2, <1>3, BaseInvariant, PTL DEF Spec

-----------------------------------------------------------------------------
(* Watchers                                                                 *)

(* m is a word of w: it asks to watch or to watch no longer.  The last word *)
(* of w in a queue agrees with v, or there is none.                         *)
Word(m, w) == m.type \in {"Watch", "Unwatch"} /\ m.pid = w
Silent(q, w) == \A i \in DOMAIN q : ~Word(q[i], w)
Last(q, i, w) == Word(q[i], w) /\ \A j \in DOMAIN q : j > i => ~Word(q[j], w)
Agrees(q, w, v) == \A i \in DOMAIN q : Last(q, i, w) => (q[i].type = "Watch" <=> v)

(* What Append does to the last word, ...                                   *)
LEMMA AppendWord ==
    ASSUME NEW S, NEW q \in Seq(S), NEW x \in S, NEW w, NEW v
    PROVE  /\ ~Word(x, w) /\ Agrees(q, w, v) => Agrees(Append(q, x), w, v)
           /\ Silent(Append(q, x), w) => Silent(q, w) /\ ~Word(x, w)
           /\ Word(x, w) /\ (x.type = "Watch" <=> v) => Agrees(Append(q, x), w, v)
<1>. DEFINE n == Len(q)
            r == Append(q, x)
<1>1. /\ n \in Nat /\ DOMAIN q = 1..n /\ DOMAIN r = 1..(n + 1)
      /\ \A i \in 1..n : r[i] = q[i]
      /\ r[n + 1] = x
  BY AppendProperties, LenProperties
<1>. HIDE DEF n, r
<1>2. \A i \in DOMAIN r : i \in DOMAIN q \/ i = n + 1
  BY <1>1
<1>3. n + 1 \in DOMAIN r /\ \A i \in DOMAIN q : i \in DOMAIN r /\ r[i] = q[i] /\ n + 1 > i
  BY <1>1
<1>4. ASSUME ~Word(x, w), Agrees(q, w, v)  PROVE Agrees(r, w, v)
  <2>. SUFFICES ASSUME NEW i \in DOMAIN r, Last(r, i, w)  PROVE r[i].type = "Watch" <=> v
    BY DEF Agrees
  <2>1. i \in DOMAIN q
    BY <1>1, <1>2, <1>4 DEF Last
  <2>2. Last(q, i, w)
    BY <1>3, <2>1 DEF Last
  <2>. QED  BY <1>3, <1>4, <2>1, <2>2 DEF Agrees
<1>5. Silent(r, w) => Silent(q, w) /\ ~Word(x, w)
  BY <1>1, <1>3 DEF Silent
<1>6. ASSUME Word(x, w), x.type = "Watch" <=> v  PROVE Agrees(r, w, v)
  <2>. SUFFICES ASSUME NEW i \in DOMAIN r, Last(r, i, w)  PROVE r[i].type = "Watch" <=> v
    BY DEF Agrees
  <2>1. i = n + 1
    BY <1>1, <1>2, <1>3, <1>6 DEF Last
  <2>. QED  BY <1>1, <1>6, <2>1
<1>. QED  BY <1>4, <1>5, <1>6 DEF r

(* ... and what Tail does.                                                  *)
LEMMA TailWord ==
    ASSUME NEW S, NEW q \in Seq(S), q # <<>>, NEW w, NEW v, Agrees(q, w, v)
    PROVE  /\ Agrees(Tail(q), w, v)
           /\ Silent(Tail(q), w) /\ ~Word(Head(q), w) => Silent(q, w)
           /\ Silent(Tail(q), w) /\ Word(Head(q), w) => (Head(q).type = "Watch" <=> v)
<1>. DEFINE n == Len(q)
            r == Tail(q)
<1>1. /\ n \in Nat /\ n > 0 /\ DOMAIN q = 1..n /\ DOMAIN r = 1..(n - 1)
      /\ \A i \in 1..(n - 1) : r[i] = q[i + 1]
      /\ Head(q) = q[1]
  BY HeadTailProperties, LenProperties, EmptySeq
<1>. HIDE DEF n, r
<1>2. \A i \in DOMAIN r : i + 1 \in DOMAIN q /\ r[i] = q[i + 1]
  BY <1>1
<1>3. 1 \in DOMAIN q
      /\ \A i \in DOMAIN q : i = 1 \/ (i - 1 \in DOMAIN r /\ r[i - 1] = q[i])
  BY <1>1
<1>4. Agrees(r, w, v)
  <2>. SUFFICES ASSUME NEW i \in DOMAIN r, Last(r, i, w)  PROVE r[i].type = "Watch" <=> v
    BY DEF Agrees
  <2>1. ASSUME NEW j \in DOMAIN q, j > i + 1  PROVE ~Word(q[j], w)
    <3>1. j - 1 \in DOMAIN r /\ r[j - 1] = q[j] /\ j - 1 > i
      BY <1>1, <2>1
    <3>. QED  BY <3>1 DEF Last
  <2>2. Last(q, i + 1, w)
    BY <1>2, <2>1 DEF Last
  <2>. QED  BY <1>2, <2>2 DEF Agrees
<1>5. Silent(r, w) /\ ~Word(Head(q), w) => Silent(q, w)
  BY <1>1, <1>3 DEF Silent
<1>6. ASSUME Silent(r, w), Word(Head(q), w)  PROVE Head(q).type = "Watch" <=> v
  <2>1. ASSUME NEW j \in DOMAIN q, j > 1  PROVE ~Word(q[j], w)
    BY <1>3, <1>6, <2>1 DEF Silent
  <2>2. Last(q, 1, w)
    BY <1>1, <1>6, <2>1 DEF Last
  <2>. QED  BY <1>1, <1>3, <2>2 DEF Agrees
<1>. QED  BY <1>4, <1>5, <1>6 DEF r

(* A system message in a queue that a put leaves, seen by w.                *)
LEMMA PutWord ==
    ASSUME NEW q \in SysQueues, NEW d \in Actors, NEW y \in MessagesOf(SystemTypes),
           NEW a \in Actors, NEW w \in Actors, NEW v, Agrees(q[a], w, v), ~Word(y, w)
    PROVE  /\ Agrees(Put(q, d, y)[a], w, v)
           /\ Silent(Put(q, d, y)[a], w) => Silent(q[a], w)
<1>. DEFINE S == MessagesOf(SystemTypes)
<1>1. q[a] \in Seq(S) /\ y \in S
  BY DEF SysQueues
<1>2. Put(q, d, y)[a] = Append(q[a], y) \/ Put(q, d, y)[a] = q[a]
  BY SysPut, ZenonT(60)
<1>. HIDE DEF S
<1>3. /\ Agrees(Append(q[a], y), w, v)
      /\ Silent(Append(q[a], y), w) => Silent(q[a], w)
  BY <1>1, AppendWord
<1>. QED  BY <1>2, <1>3, Zenon

(* An operation keeps w's last word to a and what w asked for together.     *)
LEMMA OpWords ==
    ASSUME TypeOK, NEW c \in Actors \cup {Root}, NEW m, NEW q \in SysQueues, NEW u, NEW st,
           NEW cs, OpEffect(c, m, q, u, st, cs), NEW a \in Actors, NEW w \in Actors,
           Agrees(q[a], w, intent[w][a])
    PROVE  /\ Agrees(sys'[a], w, intent'[w][a])
           /\ Silent(sys'[a], w) => Silent(q[a], w) /\ (intent'[w][a] <=> intent[w][a])
<1>. DEFINE Goal == /\ Agrees(sys'[a], w, intent'[w][a])
                    /\ Silent(sys'[a], w) => Silent(q[a], w) /\ (intent'[w][a] <=> intent[w][a])
<1>1. ASSUME NEW d \in Actors, NEW y \in MessagesOf(SystemTypes), sys' = Put(q, d, y),
             intent' = intent, ~Word(y, w)
      PROVE  Goal
  <2>1. /\ Agrees(Put(q, d, y)[a], w, intent[w][a])
        /\ Silent(Put(q, d, y)[a], w) => Silent(q[a], w)
    BY <1>1, PutWord
  <2>. QED  BY <1>1, <2>1, Zenon
<1>2. \A t \in {"Watch", "Unwatch", "Terminated", "Failure"}, p \in SomeActor :
         M(t, p) \in MessagesOf(SystemTypes) /\ M(t, p).type = t /\ M(t, p).pid = p
  BY MessageFields DEF SystemTypes
<1>3. Known \subseteq Actors /\ w # NoPID
  BY ContextAssumption DEF Known
<1>4. CASE sys' = q /\ intent' = intent
  BY <1>4
<1>5. CASE intent' = intent /\ \E d \in Known, y \in Plain(NoPID) : sys' = Put(q, d, y)
  BY <1>1, <1>3, <1>5, PlainMessages DEF Word
<1>6. ASSUME c \in Actors, NEW d \in Known, NEW kind \in {"Watch", "Unwatch"},
             sys' = Put(q, d, M(kind, c)), intent' = [intent EXCEPT ![c][d] = (kind = "Watch")]
      PROVE  Goal
  <2>. DEFINE y == M(kind, c)
  <2>1. /\ d \in Actors /\ y \in MessagesOf(SystemTypes) /\ y.type = kind /\ y.pid = c
    BY <1>2, <1>3, <1>6 DEF SomeActor
  <2>. HIDE DEF y
  <2>2. CASE a = d /\ w = c
    <3>. DEFINE S == MessagesOf(SystemTypes)
    <3>1. q[a] \in Seq(S) /\ y \in S
      BY <2>1 DEF SysQueues
    <3>2. Put(q, d, y)[a] = Append(q[a], y)
      BY <2>1, <2>2, SysPut, ZenonT(60)
    <3>3. intent'[w][a] <=> kind = "Watch"
      BY <1>6, <2>2 DEF TypeOK
    <3>4. Word(y, w) /\ (y.type = "Watch" <=> intent'[w][a])
      BY <2>1, <2>2, <3>3 DEF Word
    <3>. HIDE DEF S
    <3>5. Agrees(Append(q[a], y), w, intent'[w][a]) /\ ~Silent(Append(q[a], y), w)
      BY <3>1, <3>4, AppendWord
    <3>. QED  BY <1>6, <3>2, <3>5, Zenon DEF y
  <2>3. CASE a # d \/ w # c
    <3>1. intent'[w][a] = intent[w][a]
      BY <1>6, <2>1, <2>3 DEF TypeOK
    <3>2. CASE a # d
      <4>1. Put(q, d, y)[a] = q[a]
        BY <2>1, <3>2, SysPut, ZenonT(60)
      <4>. QED  BY <1>6, <3>1, <4>1, Zenon DEF y
    <3>3. CASE w # c
      <4>1. ~Word(y, w)
        BY <2>1, <3>3 DEF Word
      <4>2. /\ Agrees(Put(q, d, y)[a], w, intent[w][a])
            /\ Silent(Put(q, d, y)[a], w) => Silent(q[a], w)
        BY <2>1, <4>1, PutWord
      <4>. QED  BY <1>6, <3>1, <4>2, Zenon DEF y
    <3>. QED  BY <2>3, <3>2, <3>3
  <2>. QED  BY <2>2, <2>3
<1>7. CASE c \in Actors /\ intent' = intent /\ sys' = Put(q, c, M("Terminated", NoPID))
  BY <1>1, <1>2, <1>7 DEF SomeActor, Word
<1>8. CASE /\ c \in Actors /\ parent[c] \in Actors /\ intent' = intent
           /\ sys' = Put(q, parent[c], M("Failure", c))
  BY <1>1, <1>2, <1>8 DEF SomeActor, Word
<1>. QED  BY <1>4, <1>5, <1>6, <1>7, <1>8 DEF OpEffect, SysEffect

Listed(a, w) ==
    /\ w \in watchers[a] => intent[w][a]
    /\ intent[w][a] /\ ~Gone(a) => w \in watchers[a]

(* The last word of w in a's mailbox is the last thing w asked for; once    *)
(* there is none, the list shows it.                                        *)
WatchInv ==
    \A a, w \in Actors :
        /\ Agrees(sys[a], w, intent[w][a])
        /\ Silent(sys[a], w) => Listed(a, w)

(* Once w's words have been taken from its mailbox, an actor's list of      *)
(* watchers follows what w asked for last, in whatever order Watch and      *)
(* Unwatch crossed with other messages.                                     *)
THEOREM WatchersAgree == Spec => []WatchersFollowIntent
<1>1. Init => WatchInv
  BY DEF Init, WatchInv, Agrees, Silent, Listed
<1>2. TypeOK /\ CallsInv /\ WatchInv /\ [Next]_vars => WatchInv'
  <2>. SUFFICES ASSUME TypeOK, CallsInv, WatchInv, [Next]_vars, NEW a \in Actors, NEW w \in Actors
                PROVE  /\ Agrees(sys'[a], w, intent'[w][a])
                       /\ Silent(sys'[a], w) => Listed(a, w)'
    BY DEF WatchInv, Agrees, Silent, Last, Word
  <2>. USE TypesOf
  <2>. DEFINE Goal == /\ Agrees(sys'[a], w, intent'[w][a])
                      /\ Silent(sys'[a], w) => Listed(a, w)'
  <2>1. Gone(a) => Gone(a)'
    BY GoneStays
  <2>2. watchers'[a] = watchers[a] /\ (intent'[w][a] <=> intent[w][a]) /\ Listed(a, w)
        => Listed(a, w)'
    BY <2>1 DEF Listed
  <2>3. /\ Agrees(sys[a], w, intent[w][a])
        /\ Silent(sys[a], w) => Listed(a, w)
    BY DEF WatchInv
  <2>4. sys[a] \in Seq(MessagesOf(SystemTypes))
    BY DEF SysQueues
  <2>5. ASSUME sys[a] # <<>>
        PROVE  /\ Agrees(Tail(sys[a]), w, intent[w][a])
               /\ Silent(Tail(sys[a]), w) /\ ~Word(Head(sys[a]), w) => Silent(sys[a], w)
               /\ Silent(Tail(sys[a]), w) /\ Word(Head(sys[a]), w)
                    => (Head(sys[a]).type = "Watch" <=> intent[w][a])
    BY <2>3, <2>4, <2>5, TailWord
  <2>6. CASE sys' = sys /\ intent' = intent /\ watchers' = watchers
    BY <2>2, <2>3, <2>6
  <2>7. CASE RootOp
    <3>1. AnyOp(Root, M("None", NoPID), At(sys, user, stash, calls)) /\ watchers' = watchers
      BY <2>7 DEF RootOp, Here
    <3>2. M("None", NoPID).pid \in SomeActor
      BY DEF M, SomeActor
    <3>3. OpEffect(Root, M("None", NoPID), sys, user, stash, calls)
      BY <3>1, <3>2, OpHasEffect
    <3>4. /\ Agrees(sys'[a], w, intent'[w][a])
          /\ Silent(sys'[a], w) => Silent(sys[a], w) /\ (intent'[w][a] <=> intent[w][a])
      BY <2>3, <3>3, OpWords
    <3>. QED  BY <2>2, <2>3, <3>1, <3>4
  <2>8. ASSUME NEW b \in Actors, SpawnDone(b)  PROVE Goal
    <3>. DEFINE y == M("Started", NoPID)
    <3>1. y \in MessagesOf(SystemTypes) /\ ~Word(y, w)
      <4>1. y \in MessagesOf(SystemTypes) /\ y.type = "Started"
        BY MessageFields DEF SystemTypes, SomeActor
      <4>. HIDE DEF y
      <4>. QED  BY <4>1 DEF Word
    <3>2. sys' = Put(sys, b, y) /\ intent' = intent /\ watchers' = watchers
      BY <2>8 DEF SpawnDone
    <3>. HIDE DEF y
    <3>3. /\ Agrees(Put(sys, b, y)[a], w, intent[w][a])
          /\ Silent(Put(sys, b, y)[a], w) => Silent(sys[a], w)
      BY <2>3, <3>1, PutWord
    <3>. QED  BY <2>2, <2>3, <3>2, <3>3
  <2>9. ASSUME NEW b \in Actors, HandlerRuns(b)  PROVE Goal
    <3>1. PICK m, q, u, st, cs : Handled(b, m, q, u, st, cs)
      BY <2>9, HandlerShape
    <3>2. watchers' = watchers
      BY <2>9, Zenon DEF HandlerRuns, TakeUser, HandleStarted, HandleTerminated,
                         HandleRestart, IncarnateActor, PopStash
    <3>3. q \in SysQueues /\ OpEffect(b, m, q, u, st, cs)
      BY <3>1 DEF Handled
    <3>4. \/ q[a] = sys[a]
          \/ sys[a] # <<>> /\ q[a] = Tail(sys[a]) /\ ~Word(Head(sys[a]), w)
      BY <3>1 DEF Handled, Word
    <3>5. Agrees(q[a], w, intent[w][a]) /\ (Silent(q[a], w) => Silent(sys[a], w))
      BY <2>3, <2>5, <3>4, Zenon
    <3>6. /\ Agrees(sys'[a], w, intent'[w][a])
          /\ Silent(sys'[a], w) => Silent(q[a], w) /\ (intent'[w][a] <=> intent[w][a])
      BY <3>3, <3>5, OpWords
    <3>. QED  BY <2>2, <2>3, <3>2, <3>5, <3>6
  <2>10. ASSUME NEW b \in Actors, Mails(b)  PROVE Goal
    <3>1. sys[b] # <<>> /\ Rest(b) \in SysQueues
      BY <2>10, MailsPost
    <3>2. IF a = b THEN Rest(b)[a] = Tail(sys[a]) ELSE Rest(b)[a] = sys[a]
      BY <3>1, SysHead DEF Rest
    <3>3. Agrees(Rest(b)[a], w, intent[w][a])
      BY <2>3, <2>5, <3>1, <3>2, Zenon
    <3>4. intent' = intent
      BY <2>10 DEF Mails, HandleWatch, HandleUnwatch, HandleStop, HandleFailure
    <3>5. Agrees(sys'[a], w, intent'[w][a]) /\ (Silent(sys'[a], w) => Silent(Rest(b)[a], w))
      <4>1. CASE sys' = Rest(b)
        BY <3>3, <3>4, <4>1
      <4>2. ASSUME NEW d \in Actors, NEW y \in MessagesOf(SystemTypes), sys' = Put(Rest(b), d, y),
                   y.type \in {"Terminated", "Failure"}
            PROVE  Agrees(sys'[a], w, intent'[w][a]) /\ (Silent(sys'[a], w) => Silent(Rest(b)[a], w))
        <5>1. ~Word(y, w)
          BY <4>2 DEF Word
        <5>2. /\ Agrees(Put(Rest(b), d, y)[a], w, intent[w][a])
              /\ Silent(Put(Rest(b), d, y)[a], w) => Silent(Rest(b)[a], w)
          BY <3>1, <3>3, <5>1, PutWord
        <5>. QED  BY <3>4, <4>2, <5>2, Zenon
      <4>. QED  BY <2>10, <4>1, <4>2, MailsPost
    <3>6. ASSUME Silent(Rest(b)[a], w)  PROVE Listed(a, w)'
      <4>1. CASE a # b
        <5>1. watchers'[a] = watchers[a]
          BY <2>10, <4>1
             DEF Mails, HandleWatch, HandleUnwatch, HandleStop, HandleFailure, Note, TypeOK
        <5>. QED  BY <2>2, <2>3, <3>2, <3>4, <3>6, <4>1, <5>1
      <4>2. CASE a = b /\ ~Word(Head(sys[a]), w)
        <5>1. Silent(sys[a], w)
          BY <2>5, <3>1, <3>2, <3>6, <4>2
        <5>2. w \in watchers'[a] <=> w \in watchers[a]
          <6>1. CASE HandleWatch(b)
            <7>1. Head(sys[a]).pid # w
              BY <4>2, <6>1 DEF HandleWatch, Takes, Word
            <7>2. watchers' = watchers \/ watchers' = Note(watchers, a, Head(sys[a]).pid)
              BY <4>2, <6>1 DEF HandleWatch
            <7>. HIDE DEF Goal
            <7>3. w \in Note(watchers, a, Head(sys[a]).pid)[a] <=> w \in watchers[a]
              BY <7>1 DEF Note, TypeOK
            <7>. QED  BY <7>2, <7>3, Zenon
          <6>2. CASE HandleUnwatch(b)
            <7>1. Head(sys[a]).pid # w
              BY <4>2, <6>2 DEF HandleUnwatch, Takes, Word
            <7>2. watchers' = [watchers EXCEPT ![a] = @ \ {Head(sys[a]).pid}]
              BY <4>2, <6>2 DEF HandleUnwatch
            <7>. QED  BY <7>1, <7>2 DEF TypeOK
          <6>3. CASE HandleStop(b) \/ HandleFailure(b)
            BY <6>3 DEF HandleStop, HandleFailure
          <6>. QED  BY <2>10, <6>1, <6>2, <6>3 DEF Mails
        <5>. QED  BY <2>1, <2>3, <3>4, <5>1, <5>2 DEF Listed
      <4>3. CASE a = b /\ Word(Head(sys[a]), w)
        <5>1. Head(sys[a]).type = "Watch" <=> intent[w][a]
          BY <2>5, <3>1, <3>2, <3>6, <4>3
        <5>2. Head(sys[a]).pid = w
          BY <4>3 DEF Word
        <5>3. CASE HandleWatch(b)
          <6>1. intent'[w][a]
            BY <3>4, <4>3, <5>1, <5>3 DEF HandleWatch, Takes
          <6>2. life[a] = "STOPPED" \/ watchers' = Note(watchers, a, w)
            BY <4>3, <5>2, <5>3, ContextAssumption DEF HandleWatch
          <6>3. Gone(a)' \/ w \in watchers'[a]
            <7>1. CASE life[a] = "STOPPED"
              BY <2>1, <7>1 DEF Gone
            <7>2. CASE watchers' = Note(watchers, a, w)
              BY <7>2 DEF Note, TypeOK
            <7>. QED  BY <6>2, <7>1, <7>2
          <6>. QED  BY <6>1, <6>3 DEF Listed
        <5>4. CASE HandleUnwatch(b)
          <6>1. ~intent'[w][a]
            BY <3>4, <4>3, <5>1, <5>4 DEF HandleUnwatch, Takes
          <6>2. watchers' = [watchers EXCEPT ![a] = @ \ {w}]
            BY <4>3, <5>2, <5>4 DEF HandleUnwatch
          <6>3. w \notin watchers'[a]
            BY <6>2 DEF TypeOK
          <6>. QED  BY <6>1, <6>3 DEF Listed
        <5>5. CASE HandleStop(b) \/ HandleFailure(b)
          BY <4>3, <5>5 DEF HandleStop, HandleFailure, Takes, Word
        <5>. QED  BY <2>10, <5>3, <5>4, <5>5 DEF Mails
      <4>. QED  BY <4>1, <4>2, <4>3
    <3>. QED  BY <3>5, <3>6
  <2>. QED
    BY <2>6, <2>7, <2>8, <2>9, <2>10
       DEF Next, vars, SpawnReady, Run, LookUser, StashEmptied, HandlerRuns, Mails
<1>3. WatchInv => WatchersFollowIntent
  <2>. SUFFICES ASSUME WatchInv, NEW a \in Actors, NEW w \in Actors,
                       \A m \in Elements(sys[a]) : m.type \in {"Watch", "Unwatch"} => m.pid # w
                PROVE  /\ w \in watchers[a] => intent[w][a]
                       /\ (intent[w][a] /\ life[a] = "ALIVE" /\ "Restarting" \notin Elements(log[a]))
                            => w \in watchers[a]
    BY DEF WatchersFollowIntent
  <2>1. Silent(sys[a], w)
    BY DEF Silent, Word, Elements
  <2>2. Listed(a, w)
    BY <2>1 DEF WatchInv
  <2>. QED  BY <2>2 DEF Listed, Gone, Restarted
<1>. QED  BY <1>1, <1>2, <1>3, BaseInvariant, PTL DEF Spec

-----------------------------------------------------------------------------
(* Started comes first                                                      *)

(* Only those in D have something in q, and only they are named in it.      *)
Only(q, D) == \A b \in Actors \ D : q[b] = <<>>
Names(q, D) == \A b \in Actors : \A x \in Elements(q[b]) : x.pid \in D \cup {NoPID}

(* Started is nowhere in q, or nowhere but at its head.                     *)
NoStart(q) == \A i \in DOMAIN q : q[i].type # "Started"
Clean(q) == \A i \in DOMAIN q : q[i].type = "Started" => i = 1

(* More may be known of.                                                    *)
LEMMA KnownGrows ==
    ASSUME NEW q, NEW D, NEW E, D \subseteq E
    PROVE  (Only(q, D) => Only(q, E)) /\ (Names(q, D) => Names(q, E))
  BY DEF Only, Names

(* A message to and about those in D.                                       *)
LEMMA PutKnown ==
    ASSUME NEW S, NEW q \in [Actors -> Seq(S)], NEW D \in SUBSET Actors, NEW d \in D,
           NEW y \in S
    PROVE  /\ Only(q, D) => Only(Put(q, d, y), D)
           /\ Names(q, D) /\ y.pid \in D \cup {NoPID} => Names(Put(q, d, y), D)
<1>1. /\ Put(q, d, y)[d] = Append(q[d], y)
      /\ \A b \in Actors \ {d} : Put(q, d, y)[b] = q[b]
  BY PutQueue
<1>2. Elements(Append(q[d], y)) = Elements(q[d]) \cup {y}
  BY ElementsOf
<1>. DEFINE r == Put(q, d, y)
<1>3. r[d] = Append(q[d], y) /\ \A b \in Actors \ {d} : r[b] = q[b]
  BY <1>1
<1>. HIDE DEF r
<1>4. Only(q, D) => Only(r, D)
  BY <1>3 DEF Only
<1>5. ASSUME Names(q, D), y.pid \in D \cup {NoPID}  PROVE Names(r, D)
  <2>. SUFFICES ASSUME NEW b \in Actors, NEW x \in Elements(r[b])  PROVE x.pid \in D \cup {NoPID}
    BY DEF Names
  <2>1. x = y \/ x \in Elements(q[b])
    <3>1. CASE b = d
      BY <1>2, <1>3, <3>1
    <3>2. CASE b # d
      BY <1>3, <3>2
    <3>. QED  BY <3>1, <3>2
  <2>. QED  BY <1>5, <2>1 DEF Names
<1>. QED  BY <1>4, <1>5 DEF r

(* A message other than Started is added at the end; ...                    *)
LEMMA AppendStart ==
    ASSUME NEW S, NEW q \in Seq(S), NEW y \in S, y.type # "Started"
    PROVE  /\ NoStart(q) => NoStart(Append(q, y))
           /\ Clean(q) => Clean(Append(q, y))
           /\ q # <<>> => Append(q, y) # <<>> /\ Head(Append(q, y)) = Head(q)
<1>. DEFINE n == Len(q)
            r == Append(q, y)
<1>1. /\ n \in Nat /\ DOMAIN q = 1..n /\ DOMAIN r = 1..(n + 1)
      /\ \A i \in 1..n : r[i] = q[i]
      /\ r[n + 1] = y
      /\ r \in Seq(S) /\ r # <<>>
  BY AppendProperties, LenProperties
<1>2. q # <<>> => 1 \in 1..n /\ Head(q) = q[1] /\ Head(r) = r[1]
  BY <1>1, EmptySeq, LenProperties
<1>. HIDE DEF n, r
<1>3. \A i \in DOMAIN r : (i \in DOMAIN q /\ r[i] = q[i]) \/ r[i] = y
  BY <1>1
<1>4. (NoStart(q) => NoStart(r)) /\ (Clean(q) => Clean(r))
  BY <1>3 DEF NoStart, Clean
<1>. QED  BY <1>1, <1>2, <1>4 DEF r

(* ... and behind a head there is none.                                     *)
LEMMA TailStart ==
    ASSUME NEW S, NEW q \in Seq(S), q # <<>>, Clean(q)
    PROVE  NoStart(Tail(q)) /\ (Head(q).type # "Started" => NoStart(q))
<1>. DEFINE n == Len(q)
            r == Tail(q)
<1>1. /\ n \in Nat /\ n > 0 /\ DOMAIN q = 1..n /\ DOMAIN r = 1..(n - 1)
      /\ \A i \in 1..(n - 1) : r[i] = q[i + 1]
      /\ Head(q) = q[1]
  BY HeadTailProperties, LenProperties, EmptySeq
<1>. HIDE DEF n, r
<1>2. \A i \in DOMAIN r : i + 1 \in DOMAIN q /\ r[i] = q[i + 1] /\ i + 1 # 1
  BY <1>1
<1>. QED  BY <1>1, <1>2 DEF NoStart, Clean, r

(* Whom an operation posts what.                                            *)
LEMMA OpSys ==
    ASSUME TypeOK, NEW c \in Actors \cup {Root}, NEW m, NEW q, NEW u, NEW st, NEW cs,
           OpEffect(c, m, q, u, st, cs)
    PROVE  \/ sys' = q
           \/ \E d \in Actors, y \in MessagesOf(SystemTypes) :
                /\ sys' = Put(q, d, y) /\ y.type # "Started"
                /\ y.pid = NoPID \/ (c \in Actors /\ y.pid = c)
                /\ d \in Known \/ (c \in Actors /\ d \in {c, parent[c]})
<1>1. \A t \in {"Watch", "Unwatch", "Terminated", "Failure"}, p \in SomeActor :
         M(t, p) \in MessagesOf(SystemTypes) /\ M(t, p).type = t /\ M(t, p).pid = p
  BY MessageFields DEF SystemTypes
<1>2. Known \subseteq Actors /\ Actors \subseteq SomeActor /\ NoPID \in SomeActor
  BY DEF Known, SomeActor
<1>3. CASE \E d \in Known, y \in Plain(NoPID) : sys' = Put(q, d, y)
  BY <1>2, <1>3, PlainMessages
<1>4. ASSUME c \in Actors, NEW d \in Known, NEW kind \in {"Watch", "Unwatch"},
             sys' = Put(q, d, M(kind, c))
      PROVE  \E y \in MessagesOf(SystemTypes) :
                sys' = Put(q, d, y) /\ y.type # "Started" /\ y.pid = c
  BY <1>1, <1>2, <1>4
<1>5. CASE c \in Actors /\ sys' = Put(q, c, M("Terminated", NoPID))
  BY <1>1, <1>2, <1>5
<1>6. CASE c \in Actors /\ parent[c] \in Actors /\ sys' = Put(q, parent[c], M("Failure", c))
  BY <1>1, <1>2, <1>6
<1>. QED  BY <1>2, <1>3, <1>4, <1>5, <1>6 DEF OpEffect, SysEffect

(* Without PIDs made from names, an operation reaches and names only        *)
(* actors whose spawn is over.                                              *)
LEMMA OpKnown ==
    ASSUME ~ByName, TypeOK, NEW c \in Done \cup {Root}, NEW m, m.pid \in Done \cup {NoPID},
           c \in Actors => m \in MessagesOf(Types),
           NEW q \in SysQueues, NEW u \in UserQueues, NEW st \in Stashes, NEW cs \in Calls,
           OpEffect(c, m, q, u, st, cs), \A b \in Actors : parent[b] \in Done \cup {Root},
           Only(q, Done), Only(u, Done), Only(st, Done), Only(cs, Done),
           Names(q, Done), Names(u, Done), Names(st, Done)
    PROVE  /\ Only(sys', Done) /\ Only(user', Done) /\ Only(stash', Done) /\ Only(calls', Done)
           /\ Names(sys', Done) /\ Names(user', Done) /\ Names(stash', Done)
           /\ \A b \in Actors : parent'[b] \in Done \cup {Root}
<1>1. Known = Done /\ Done \subseteq Actors /\ Root \notin Actors /\ NoPID \notin Actors
  BY ContextAssumption DEF Known, Done
<1>2. Only(sys', Done) /\ Names(sys', Done)
  <2>1. CASE sys' = q
    BY <2>1
  <2>2. ASSUME NEW d \in Actors, NEW y \in MessagesOf(SystemTypes), sys' = Put(q, d, y),
               y.pid = NoPID \/ (c \in Actors /\ y.pid = c),
               d \in Known \/ (c \in Actors /\ d \in {c, parent[c]})
        PROVE  Only(sys', Done) /\ Names(sys', Done)
    <3>1. d \in Done /\ y.pid \in Done \cup {NoPID}
      BY <1>1, <2>2
    <3>2. q \in [Actors -> Seq(MessagesOf(SystemTypes))]
      BY DEF SysQueues
    <3>3. Only(Put(q, d, y), Done) /\ Names(Put(q, d, y), Done)
      BY <1>1, <3>1, <3>2, PutKnown
    <3>. QED  BY <2>2, <3>3
  <2>. QED  BY <1>1, <2>1, <2>2, OpSys
<1>3. Only(user', Done) /\ Names(user', Done)
  <2>1. CASE user' = u
    BY <2>1
  <2>2. ASSUME NEW d \in Actors, NEW t \in UserTypes, NEW p \in Done \cup {NoPID},
               d \in Known \/ d = m.pid, user' = Put(u, d, M(t, p))
        PROVE  Only(user', Done) /\ Names(user', Done)
    <3>1. d \in Done
      BY <1>1, <2>2
    <3>2. M(t, p) \in MessagesOf(UserTypes) /\ M(t, p).pid = p
      BY <1>1, MessageFields, ZenonT(60) DEF SomeActor
    <3>3. u \in [Actors -> Seq(MessagesOf(UserTypes))]
      BY DEF UserQueues
    <3>4. Only(Put(u, d, M(t, p)), Done) /\ Names(Put(u, d, M(t, p)), Done)
      BY <1>1, <3>1, <3>2, <3>3, PutKnown
    <3>. QED  BY <2>2, <3>4
  <2>. QED  BY <2>1, <2>2 DEF OpEffect, UserEffect
<1>4. Only(stash', Done) /\ Names(stash', Done)
  <2>1. CASE stash' = st
    BY <2>1
  <2>2. CASE c \in Actors /\ stash' = Put(st, c, m)
    <3>1. c \in Done /\ m \in MessagesOf(Types)
      BY <1>1, <2>2
    <3>2. st \in [Actors -> Seq(MessagesOf(Types))]
      BY DEF Stashes
    <3>3. Only(Put(st, c, m), Done) /\ Names(Put(st, c, m), Done)
      BY <1>1, <3>1, <3>2, PutKnown
    <3>. QED  BY <2>2, <3>3
  <2>. QED  BY <2>1, <2>2 DEF OpEffect, StashEffect
<1>5. Only(calls', Done)
  BY <1>1 DEF OpEffect, CallsEffect, Only, Calls
<1>6. \A b \in Actors : parent'[b] \in Done \cup {Root}
  <2>1. CASE parent' = parent
    BY <2>1
  <2>2. ASSUME NEW d \in Actors, parent' = [parent EXCEPT ![d] = c]
        PROVE  \A b \in Actors : parent'[b] \in Done \cup {Root}
    BY <2>2 DEF TypeOK
  <2>. QED  BY <2>1, <2>2 DEF OpEffect, SpawnEffect
<1>. QED  BY <1>2, <1>3, <1>4, <1>5, <1>6

(* An operation leaves Started where it is.                                 *)
LEMMA OpStart ==
    ASSUME TypeOK, NEW c \in Actors \cup {Root}, NEW m, NEW q \in SysQueues, NEW u, NEW st,
           NEW cs, OpEffect(c, m, q, u, st, cs), NEW b \in Actors
    PROVE  /\ NoStart(q[b]) => NoStart(sys'[b])
           /\ Clean(q[b]) => Clean(sys'[b])
           /\ q[b] # <<>> => sys'[b] # <<>> /\ Head(sys'[b]) = Head(q[b])
<1>. DEFINE S == MessagesOf(SystemTypes)
            Goal == /\ NoStart(q[b]) => NoStart(sys'[b])
                    /\ Clean(q[b]) => Clean(sys'[b])
                    /\ q[b] # <<>> => sys'[b] # <<>> /\ Head(sys'[b]) = Head(q[b])
<1>1. CASE sys' = q
  BY <1>1
<1>2. ASSUME NEW d \in Actors, NEW y \in S, sys' = Put(q, d, y), y.type # "Started"
      PROVE  Goal
  <2>1. Put(q, d, y)[b] = Append(q[b], y) \/ Put(q, d, y)[b] = q[b]
    BY SysPut, ZenonT(60)
  <2>2. q[b] \in Seq(S)
    BY DEF SysQueues
  <2>. HIDE DEF S
  <2>3. /\ NoStart(q[b]) => NoStart(Append(q[b], y))
        /\ Clean(q[b]) => Clean(Append(q[b], y))
        /\ q[b] # <<>> => Append(q[b], y) # <<>> /\ Head(Append(q[b], y)) = Head(q[b])
    BY <1>2, <2>2, AppendStart
  <2>. QED  BY <1>2, <2>1, <2>3, Zenon
<1>. QED  BY <1>1, <1>2, OpSys

(* What is known before an actor's first message, and from then on.         *)
EmptyInv ==
    /\ Only(sys, Done) /\ Only(user, Done) /\ Only(stash, Done) /\ Only(calls, Done)
    /\ Only(log, Done)
NamesInv ==
    /\ Names(sys, Done) /\ Names(user, Done) /\ Names(stash, Done)
    /\ \A b \in Actors : parent[b] \in Done \cup {Root}
Waiting(a) ==
    /\ calls[a] = <<>> /\ stash[a] = <<>>
    /\ sys[a] # <<>> /\ Head(sys[a]).type = "Started"
StartInv == \A a \in Actors :
    /\ a \in Done /\ log[a] = <<>> => Waiting(a)
    /\ log[a] = <<>> => life[a] = "ALIVE"
    /\ log[a] # <<>> => log[a][1] = "Started" /\ NoStart(sys[a])
    /\ Clean(sys[a])
    /\ life[a] = "STOPPED" => calls[a] \in {<<>>, <<"PopUser">>}
FirstInv == EmptyInv /\ NamesInv /\ StartInv

(* What is left of a stash was in it.                                       *)
LEMMA FrontElements ==
    ASSUME NEW S, NEW q \in Seq(S), q # <<>>
    PROVE  Elements(SubSeq(q, 1, Len(q) - 1)) \subseteq Elements(q)
<1>. DEFINE n == Len(q)
            r == SubSeq(q, 1, n - 1)
<1>1. n \in Nat /\ n > 0 /\ DOMAIN q = 1..n
  BY EmptySeq, LenProperties
<1>2. DOMAIN r = 1..(n - 1) /\ \A i \in 1..(n - 1) : r[i] = q[i]
  BY <1>1, SubSeqProperties, LenProperties
<1>. HIDE DEF n, r
<1>3. \A i \in DOMAIN r : i \in DOMAIN q /\ r[i] = q[i]
  BY <1>1, <1>2
<1>4. Elements(r) \subseteq Elements(q)
  BY <1>3 DEF Elements
<1>. QED  BY <1>4 DEF n, r

(* The handler of a stopped actor is not called: the message is dropped.    *)
LEMMA StoppedHandler ==
    ASSUME TypeOK, NEW a \in Actors, HandlerRuns(a), life'[a] = "STOPPED",
           calls[a] \in {<<>>, <<"PopUser">>} \/ life[a] # "STOPPED", NoStart(sys[a])
    PROVE  calls'[a] = <<>> /\ stash'[a] = stash[a]
<1>. USE TypesOf
<1>1. CASE HandleRestart(a) \/ IncarnateActor(a)
  BY <1>1 DEF HandleRestart, IncarnateActor, TypeOK
<1>2. CASE HandleStarted(a)
  <2>1. sys[a] # <<>> /\ Head(sys[a]).type = "Started"
    BY <1>2 DEF HandleStarted, Takes
  <2>2. 1 \in DOMAIN sys[a] /\ Head(sys[a]) = sys[a][1]
    BY <2>1, EmptySeq, LenProperties DEF SysQueues
  <2>. QED  BY <2>1, <2>2 DEF NoStart
<1>3. CASE PopStash(a)
  <2>1. life[a] = "STOPPED" /\ calls[a] # <<>> /\ Head(calls[a]) # "PopUser"
    BY <1>3 DEF PopStash, Calling
  <2>. QED  BY <2>1
<1>4. CASE TakeUser(a)
  <2>1. /\ life[a] = "STOPPED" /\ calls[a] # <<>>
        /\ InvokeUserMessage(a, Head(user[a]), At(sys, Drop(user, a), stash, Drop(calls, a)))
    BY <1>4 DEF TakeUser, Calling
  <2>2. calls' = Drop(calls, a) /\ stash' = stash
    BY <2>1 DEF InvokeUserMessage, NoOp, At
  <2>3. Tail(<<"PopUser">>) = <<>> /\ calls[a] = <<"PopUser">>
    BY <2>1
  <2>. QED  BY <2>2, <2>3 DEF Drop, Calls
<1>5. CASE HandleTerminated(a)
  <2>1. /\ life[a] = "STOPPED" /\ calls[a] = <<>>
        /\ InvokeUserMessage(a, Head(sys[a]), At(Rest(a), user, stash, calls))
    BY <1>5 DEF HandleTerminated, Takes
  <2>. QED  BY <2>1 DEF InvokeUserMessage, NoOp, At
<1>. QED  BY <1>1, <1>2, <1>3, <1>4, <1>5 DEF HandlerRuns

(* A handler runs, for the first time or later.                             *)
LEMMA FirstHandler ==
    ASSUME ~ByName, TypeOK, CallsInv, FirstInv, NEW a \in Actors, HandlerRuns(a)
    PROVE  FirstInv'
<1>. USE TypesOf
<1>1. a \in Done
  <2>1. sys[a] # <<>> \/ calls[a] # <<>>
    BY DEF HandlerRuns, TakeUser, HandleStarted, HandleTerminated, HandleRestart,
           IncarnateActor, PopStash, Takes, Calling
  <2>. QED  BY <2>1 DEF FirstInv, EmptyInv, Only
<1>2. PICK m, q, u, st, cs : Handled(a, m, q, u, st, cs)
  BY HandlerShape
<1>3. /\ m \in MessagesOf(Types) /\ q \in SysQueues /\ u \in UserQueues /\ st \in Stashes
      /\ cs \in Calls /\ OpEffect(a, m, q, u, st, cs)
      /\ \A b \in Actors \ {a} :
            q[b] = sys[b] /\ u[b] = user[b] /\ st[b] = stash[b] /\ cs[b] = calls[b]
  BY <1>2 DEF Handled
<1>4. m.pid \in Done \cup {NoPID}
  BY <1>2 DEF Handled, FirstInv, NamesInv, Names
<1>5. Only(q, Done) /\ Only(u, Done) /\ Only(st, Done) /\ Only(cs, Done)
  BY <1>1, <1>3 DEF FirstInv, EmptyInv, Only
<1>6. Names(q, Done) /\ Names(u, Done) /\ Names(st, Done)
  <2>1. Elements(q[a]) \subseteq Elements(sys[a])
    <3>1. q[a] = sys[a] \/ (sys[a] # <<>> /\ q[a] = Tail(sys[a]))
      BY <1>2 DEF Handled
    <3>2. sys[a] \in Seq(MessagesOf(SystemTypes))
      BY DEF SysQueues
    <3>. QED  BY <3>1, <3>2, ElementsOf
  <2>2. Elements(u[a]) \subseteq Elements(user[a])
    <3>1. u[a] = user[a] \/ (user[a] # <<>> /\ u[a] = Tail(user[a]))
      BY <1>2 DEF Handled
    <3>2. user[a] \in Seq(MessagesOf(UserTypes))
      BY DEF UserQueues
    <3>. QED  BY <3>1, <3>2, ElementsOf
  <2>3. Elements(st[a]) \subseteq Elements(stash[a])
    <3>1. st[a] = stash[a] \/ (stash[a] # <<>> /\ st[a] = SubSeq(stash[a], 1, Len(stash[a]) - 1))
      BY <1>2 DEF Handled
    <3>2. stash[a] \in Seq(MessagesOf(Types))
      BY DEF Stashes
    <3>3. stash[a] # <<>> => Elements(SubSeq(stash[a], 1, Len(stash[a]) - 1)) \subseteq Elements(stash[a])
      BY <3>2, FrontElements
    <3>. QED  BY <3>1, <3>3, Zenon
  <2>. QED  BY <1>3, <2>1, <2>2, <2>3 DEF FirstInv, NamesInv, Names
<1>7. \A b \in Actors : parent[b] \in Done \cup {Root}
  BY DEF FirstInv, NamesInv
<1>8. /\ Only(sys', Done) /\ Only(user', Done) /\ Only(stash', Done) /\ Only(calls', Done)
      /\ Names(sys', Done) /\ Names(user', Done) /\ Names(stash', Done)
      /\ \A b \in Actors : parent'[b] \in Done \cup {Root}
  BY <1>1, <1>3, <1>4, <1>5, <1>6, <1>7, OpKnown
<1>9. Done' = Done
  BY <1>3 DEF OpEffect, SpawnEffect, Done, TypeOK
<1>10. m.type \in Types /\ (log' = log \/ log' = Put(log, a, m.type))
  BY <1>2, <1>3 DEF Handled, MessagesOf
<1>11. \A b \in Actors \ {a} : log'[b] = log[b]
  BY <1>10, PutQueue
<1>12. Only(log', Done)
  BY <1>1, <1>11 DEF FirstInv, EmptyInv, Only
<1>13. \A b \in Actors \ {a} : life'[b] = life[b] /\ calls'[b] = calls[b] /\ stash'[b] = stash[b]
  <2>1. \A b \in Actors \ {a} : life'[b] = life[b]
    BY DEF HandlerRuns, TakeUser, HandleStarted, HandleTerminated, HandleRestart,
           IncarnateActor, PopStash, TypeOK
  <2>2. \A b \in Actors \ {a} : calls'[b] = calls[b]
    BY <1>3 DEF OpEffect, CallsEffect, Calls
  <2>3. \A b \in Actors \ {a} : stash'[b] = stash[b]
    <3>1. stash' = st \/ stash' = Put(st, a, m)
      BY <1>3 DEF OpEffect, StashEffect
    <3>. DEFINE S == MessagesOf(Types)
    <3>2. st \in [Actors -> Seq(S)] /\ m \in S
      BY <1>3 DEF Stashes
    <3>. HIDE DEF S
    <3>3. ASSUME NEW b \in Actors, b # a  PROVE Put(st, a, m)[b] = st[b]
      BY <3>2, <3>3 DEF Put
    <3>. QED  BY <1>3, <3>1, <3>3
  <2>. QED  BY <2>1, <2>2, <2>3
<1>. DEFINE StartsAt(b) ==
       /\ b \in Done /\ log'[b] = <<>> =>
            /\ calls'[b] = <<>> /\ stash'[b] = <<>>
            /\ sys'[b] # <<>> /\ Head(sys'[b]).type = "Started"
       /\ log'[b] = <<>> => life'[b] = "ALIVE"
       /\ log'[b] # <<>> => log'[b][1] = "Started" /\ NoStart(sys'[b])
       /\ Clean(sys'[b])
       /\ life'[b] = "STOPPED" => calls'[b] \in {<<>>, <<"PopUser">>}
<1>14. ASSUME NEW b \in Actors \ {a}  PROVE StartsAt(b)
  <2>1. q[b] = sys[b] /\ life'[b] = life[b] /\ calls'[b] = calls[b] /\ stash'[b] = stash[b]
        /\ log'[b] = log[b]
    BY <1>3, <1>11, <1>13
  <2>2. /\ NoStart(q[b]) => NoStart(sys'[b])
        /\ Clean(q[b]) => Clean(sys'[b])
        /\ q[b] # <<>> => sys'[b] # <<>> /\ Head(sys'[b]) = Head(q[b])
    BY <1>3, OpStart
  <2>. QED  BY <2>1, <2>2 DEF FirstInv, StartInv, Waiting
<1>15. Clean(sys[a]) /\ sys[a] \in Seq(MessagesOf(SystemTypes)) /\ log[a] \in Seq(Types)
  BY DEF FirstInv, StartInv, SysQueues
<1>16. ASSUME log[a] = <<>>  PROVE StartsAt(a)
  <2>1. Waiting(a) /\ life[a] = "ALIVE"
    BY <1>1, <1>16 DEF FirstInv, StartInv
  <2>2. HandleStarted(a)
    BY <2>1 DEF Waiting, HandlerRuns, TakeUser, HandleTerminated, HandleRestart,
                IncarnateActor, PopStash, Takes, Calling
  <2>. DEFINE x == Head(sys[a])
              r == Drop(sys, a)
  <2>3. x.type = "Started" /\ Receive(a, x, At(r, user, stash, calls)) /\ life' = life
    BY <2>1, <2>2 DEF HandleStarted, Waiting, Rest
  <2>4. x.pid \in SomeActor /\ r \in SysQueues /\ r[a] = Tail(sys[a])
    BY <2>1, SysHead DEF Waiting, MessagesOf, SomeActor
  <2>5. NoStart(Tail(sys[a]))
    BY <1>15, <2>1, TailStart DEF Waiting
  <2>. HIDE DEF x, r
  <2>6. OpEffect(a, x, r, user, stash, calls) /\ log' = Put(log, a, x.type)
    BY <2>3, <2>4, ReceiveEffect
  <2>7. NoStart(sys'[a])
    BY <2>4, <2>5, <2>6, OpStart
  <2>8. log'[a] = Append(<<>>, "Started")
    <3>1. "Started" \in Types
      BY DEF Types, SystemTypes
    <3>2. log \in [Actors -> Seq(Types)]
      OBVIOUS
    <3>3. Put(log, a, "Started")[a] = Append(log[a], "Started")
      BY <3>1, <3>2 DEF Put
    <3>. QED  BY <1>16, <2>3, <2>6, <3>3, Zenon
  <2>9. log'[a] # <<>> /\ log'[a][1] = "Started"
    BY <2>8
  <2>10. Clean(sys'[a])
    BY <2>7 DEF NoStart, Clean
  <2>. QED  BY <2>1, <2>3, <2>7, <2>9, <2>10
<1>17. ASSUME log[a] # <<>>  PROVE StartsAt(a)
  <2>1. log[a][1] = "Started" /\ NoStart(sys[a])
    BY <1>17 DEF FirstInv, StartInv
  <2>2. NoStart(q[a])
    <3>1. q[a] = sys[a] \/ (sys[a] # <<>> /\ q[a] = Tail(sys[a]))
      BY <1>2 DEF Handled
    <3>2. sys[a] # <<>> => NoStart(Tail(sys[a]))
      BY <1>15, TailStart
    <3>. QED  BY <2>1, <3>1, <3>2
  <2>3. NoStart(sys'[a])
    BY <1>3, <2>2, OpStart
  <2>4. Clean(sys'[a])
    BY <2>3 DEF NoStart, Clean
  <2>5. log'[a] # <<>> /\ log'[a][1] = "Started"
    <3>1. log'[a] = log[a] \/ log'[a] = Append(log[a], m.type)
      <4>1. log \in [Actors -> Seq(Types)]
        OBVIOUS
      <4>2. \A t \in Types : Put(log, a, t)[a] = Append(log[a], t)
        BY <4>1 DEF Put
      <4>. QED  BY <1>10, <4>2, Zenon
    <3>2. Append(log[a], m.type) # <<>> /\ Append(log[a], m.type)[1] = log[a][1]
      BY <1>10, <1>15, <1>17, AppendProperties, LenProperties, EmptySeq
    <3>. QED  BY <1>17, <2>1, <3>1, <3>2
  <2>6. life'[a] = "STOPPED" => calls'[a] \in {<<>>, <<"PopUser">>}
    BY <2>1, StoppedHandler DEF FirstInv, StartInv
  <2>. QED  BY <2>3, <2>4, <2>5, <2>6
<1>18. \A b \in Actors : StartsAt(b)
  BY <1>14, <1>16, <1>17
<1>19. EmptyInv' /\ NamesInv'
  BY <1>8, <1>9, <1>12 DEF EmptyInv, NamesInv, Only, Names, Elements
<1>20. StartInv'
  BY <1>9, <1>18 DEF StartInv, Waiting, NoStart, Clean
<1>. QED  BY <1>19, <1>20 DEF FirstInv

(* The application performs an operation.                                   *)
LEMMA FirstRoot ==
    ASSUME ~ByName, TypeOK, CallsInv, FirstInv, RootOp
    PROVE  FirstInv'
<1>. USE TypesOf
<1>. DEFINE m == M("None", NoPID)
<1>1. AnyOp(Root, m, At(sys, user, stash, calls)) /\ UNCHANGED <<life, log>>
  BY DEF RootOp, Here
<1>2. m.pid = NoPID /\ NoPID \in SomeActor /\ Root \notin Actors
  BY ContextAssumption DEF M, SomeActor
<1>. HIDE DEF m
<1>3. OpEffect(Root, m, sys, user, stash, calls)
  BY <1>1, <1>2, OpHasEffect
<1>4. /\ Only(sys', Done) /\ Only(user', Done) /\ Only(stash', Done) /\ Only(calls', Done)
      /\ Names(sys', Done) /\ Names(user', Done) /\ Names(stash', Done)
      /\ \A b \in Actors : parent'[b] \in Done \cup {Root}
  BY <1>2, <1>3, OpKnown DEF FirstInv, EmptyInv, NamesInv
<1>5. Done' = Done
  BY <1>3 DEF OpEffect, SpawnEffect, Done, TypeOK
<1>6. stash' = stash /\ calls' = calls
  BY <1>2, <1>3 DEF OpEffect, StashEffect, CallsEffect
<1>7. Only(log, Done)
  BY DEF FirstInv, EmptyInv
<1>8. EmptyInv' /\ NamesInv'
  BY <1>1, <1>4, <1>5, <1>7 DEF EmptyInv, NamesInv, Only, Names, Elements
<1>9. \A b \in Actors :
        /\ NoStart(sys[b]) => NoStart(sys'[b])
        /\ Clean(sys[b]) => Clean(sys'[b])
        /\ sys[b] # <<>> => sys'[b] # <<>> /\ Head(sys'[b]) = Head(sys[b])
  BY <1>3, OpStart
<1>10. StartInv'
  <2>. SUFFICES ASSUME NEW b \in Actors
                PROVE  /\ b \in Done /\ log[b] = <<>> =>
                            /\ calls[b] = <<>> /\ stash[b] = <<>>
                            /\ sys'[b] # <<>> /\ Head(sys'[b]).type = "Started"
                       /\ log[b] = <<>> => life[b] = "ALIVE"
                       /\ log[b] # <<>> => log[b][1] = "Started" /\ NoStart(sys'[b])
                       /\ Clean(sys'[b])
                       /\ life[b] = "STOPPED" => calls[b] \in {<<>>, <<"PopUser">>}
    BY <1>1, <1>5, <1>6 DEF StartInv, Waiting, NoStart, Clean
  <2>. QED  BY <1>9 DEF FirstInv, StartInv, Waiting
<1>. QED  BY <1>8, <1>10 DEF FirstInv

(* A spawn ends: Started is the first message of all.                       *)
LEMMA FirstSpawn ==
    ASSUME TypeOK, FirstInv, NEW a \in Actors, SpawnDone(a)
    PROVE  FirstInv'
<1>. USE TypesOf
<1>. DEFINE y == M("Started", NoPID)
            S == MessagesOf(SystemTypes)
<1>1. y \in S /\ y.type = "Started" /\ y.pid = NoPID
  BY MessageFields DEF SystemTypes, SomeActor
<1>2. /\ sys' = Put(sys, a, y) /\ spawning[a] = "ready"
      /\ spawning' = [spawning EXCEPT ![a] = "done"]
      /\ UNCHANGED <<parent, life, calls, user, stash, log>>
  BY DEF SpawnDone
<1>3. Done' = Done \cup {a} /\ a \notin Done /\ Done \in SUBSET Actors
  BY <1>2 DEF Done, TypeOK
<1>4. sys \in [Actors -> Seq(S)]
  BY DEF SysQueues
<1>. HIDE DEF y, S
<1>. DEFINE D == Done \cup {a}
<1>5. D \in SUBSET Actors /\ a \in D /\ Done \subseteq D
  BY <1>3
<1>. HIDE DEF D
<1>6. /\ Only(sys, D) /\ Only(user, D) /\ Only(stash, D) /\ Only(calls, D) /\ Only(log, D)
      /\ Names(sys, D) /\ Names(user, D) /\ Names(stash, D)
  BY <1>5, KnownGrows DEF FirstInv, EmptyInv, NamesInv
<1>7. Only(Put(sys, a, y), D) /\ Names(Put(sys, a, y), D)
  BY <1>1, <1>4, <1>5, <1>6, PutKnown
<1>8. Only(sys', D) /\ Names(sys', D)
  BY <1>2, <1>7
<1>9. \A b \in Actors : parent[b] \in D \cup {Root}
  BY <1>5 DEF FirstInv, NamesInv
<1>10. Done' = D
  BY <1>3 DEF D
<1>11. EmptyInv' /\ NamesInv'
  BY <1>2, <1>6, <1>8, <1>9, <1>10 DEF EmptyInv, NamesInv, Only, Names, Elements
<1>12. /\ sys[a] = <<>> /\ calls[a] = <<>> /\ stash[a] = <<>> /\ log[a] = <<>>
  BY <1>3 DEF FirstInv, EmptyInv, Only
<1>13. sys'[a] = <<y>>
  <2>1. Put(sys, a, y)[a] = Append(sys[a], y)
    BY <1>1, <1>4 DEF Put
  <2>2. Append(<<>>, y) = <<y>>
    OBVIOUS
  <2>. QED  BY <1>2, <1>12, <2>1, <2>2, Zenon
<1>14. ASSUME NEW b \in Actors, b # a  PROVE sys'[b] = sys[b]
  <2>1. Put(sys, a, y)[b] = sys[b]
    BY <1>1, <1>4, <1>14 DEF Put
  <2>. QED  BY <1>2, <2>1, Zenon
<1>15. sys'[a] # <<>> /\ Head(sys'[a]).type = "Started" /\ Clean(sys'[a])
  BY <1>1, <1>13 DEF Clean
<1>16. StartInv'
  <2>. SUFFICES ASSUME NEW b \in Actors
                PROVE  /\ b \in Done' /\ log[b] = <<>> =>
                            /\ calls[b] = <<>> /\ stash[b] = <<>>
                            /\ sys'[b] # <<>> /\ Head(sys'[b]).type = "Started"
                       /\ log[b] = <<>> => life[b] = "ALIVE"
                       /\ log[b] # <<>> => log[b][1] = "Started" /\ NoStart(sys'[b])
                       /\ Clean(sys'[b])
                       /\ life[b] = "STOPPED" => calls[b] \in {<<>>, <<"PopUser">>}
    BY <1>2 DEF StartInv, Waiting, NoStart, Clean
  <2>1. CASE b = a
    BY <1>12, <1>15, <2>1 DEF FirstInv, StartInv
  <2>2. CASE b # a
    <3>1. b \in Done' => b \in Done
      BY <1>3, <2>2
    <3>2. sys'[b] = sys[b]
      BY <1>14, <2>2
    <3>. QED  BY <3>1, <3>2 DEF FirstInv, StartInv, Waiting
  <2>. QED  BY <2>1, <2>2
<1>. QED  BY <1>11, <1>16 DEF FirstInv

(* The mailbox takes a message for the context itself.                      *)
LEMMA FirstMail ==
    ASSUME TypeOK, CallsInv, FirstInv, NEW a \in Actors, Mails(a)
    PROVE  FirstInv'
<1>. USE TypesOf
<1>. DEFINE S == MessagesOf(SystemTypes)
            x == Head(sys[a])
<1>1. /\ sys[a] # <<>> /\ calls[a] = <<>> /\ x.type # "Started"
      /\ UNCHANGED <<spawning, parent, calls, user, stash, log>>
  BY DEF Mails, HandleWatch, HandleUnwatch, HandleStop, HandleFailure, Takes
<1>2. a \in Done /\ Done \in SUBSET Actors /\ Done' = Done
  BY <1>1 DEF FirstInv, EmptyInv, Only, Done
<1>3. /\ Rest(a) \in SysQueues /\ Rest(a)[a] = Tail(sys[a])
      /\ \A b \in Actors \ {a} : Rest(a)[b] = sys[b]
      /\ x \in Elements(sys[a])
  BY <1>1, SysHead DEF Rest
<1>4. x.pid \in Done \cup {NoPID} /\ parent[a] \in Done \cup {Root}
  BY <1>3 DEF FirstInv, NamesInv, Names
<1>5. sys[a] \in Seq(S) /\ Rest(a) \in [Actors -> Seq(S)]
  BY <1>3 DEF SysQueues
<1>6. Only(Rest(a), Done) /\ Names(Rest(a), Done)
  <2>1. Elements(Tail(sys[a])) \subseteq Elements(sys[a])
    <3>. HIDE DEF S
    <3>. QED  BY <1>1, <1>5, ElementsOf
  <2>2. Only(Rest(a), Done)
    BY <1>2, <1>3 DEF FirstInv, EmptyInv, Only
  <2>3. Names(Rest(a), Done)
    BY <1>3, <2>1 DEF FirstInv, NamesInv, Names
  <2>. QED  BY <2>2, <2>3
<1>7. Clean(sys[a]) /\ log[a] # <<>>
  <2>1. log[a] = <<>> => Waiting(a)
    BY <1>2 DEF FirstInv, StartInv
  <2>. QED  BY <1>1, <2>1 DEF FirstInv, StartInv, Waiting
<1>8. NoStart(Rest(a)[a])
  <2>. HIDE DEF S
  <2>. QED  BY <1>1, <1>3, <1>5, <1>7, TailStart
<1>. HIDE DEF S, x
<1>9. ASSUME NEW d \in Done, NEW y \in S, y.type # "Started", y.pid \in Done \cup {NoPID},
             NEW b \in Actors
      PROVE  /\ Only(Put(Rest(a), d, y), Done) /\ Names(Put(Rest(a), d, y), Done)
             /\ NoStart(Rest(a)[b]) => NoStart(Put(Rest(a), d, y)[b])
             /\ Clean(Rest(a)[b]) => Clean(Put(Rest(a), d, y)[b])
             /\ Rest(a)[b] # <<>> => /\ Put(Rest(a), d, y)[b] # <<>>
                                     /\ Head(Put(Rest(a), d, y)[b]) = Head(Rest(a)[b])
  <2>1. Only(Put(Rest(a), d, y), Done) /\ Names(Put(Rest(a), d, y), Done)
    BY <1>2, <1>5, <1>6, <1>9, PutKnown
  <2>2. Put(Rest(a), d, y)[b] = Append(Rest(a)[b], y) \/ Put(Rest(a), d, y)[b] = Rest(a)[b]
    <3>1. d \in Actors /\ y \in MessagesOf(SystemTypes)
      BY <1>2 DEF S
    <3>. QED  BY <1>3, <3>1, SysPut, ZenonT(60)
  <2>3. Rest(a)[b] \in Seq(S)
    BY <1>5
  <2>4. /\ NoStart(Rest(a)[b]) => NoStart(Append(Rest(a)[b], y))
        /\ Clean(Rest(a)[b]) => Clean(Append(Rest(a)[b], y))
        /\ Rest(a)[b] # <<>> => /\ Append(Rest(a)[b], y) # <<>>
                                /\ Head(Append(Rest(a)[b], y)) = Head(Rest(a)[b])
    BY <1>9, <2>3, AppendStart
  <2>. QED  BY <2>1, <2>2, <2>4, Zenon
<1>10. ASSUME NEW b \in Actors
       PROVE  /\ Only(sys', Done) /\ Names(sys', Done)
              /\ NoStart(Rest(a)[b]) => NoStart(sys'[b])
              /\ Clean(Rest(a)[b]) => Clean(sys'[b])
              /\ Rest(a)[b] # <<>> => sys'[b] # <<>> /\ Head(sys'[b]) = Head(Rest(a)[b])
  <2>1. CASE sys' = Rest(a)
    BY <1>6, <2>1
  <2>2. ASSUME NEW d \in Actors, NEW y \in S, sys' = Put(Rest(a), d, y), d \in {x.pid, parent[a]},
               \/ y.type = "Terminated" /\ y.pid = a
               \/ y.type = "Failure" /\ y.pid = x.pid
        PROVE  /\ Only(sys', Done) /\ Names(sys', Done)
               /\ NoStart(Rest(a)[b]) => NoStart(sys'[b])
               /\ Clean(Rest(a)[b]) => Clean(sys'[b])
               /\ Rest(a)[b] # <<>> => sys'[b] # <<>> /\ Head(sys'[b]) = Head(Rest(a)[b])
    <3>1. d \in Done /\ y.type # "Started" /\ y.pid \in Done \cup {NoPID}
      BY <1>2, <1>4, <2>2, ContextAssumption
    <3>. QED  BY <1>9, <2>2, <3>1, Zenon
  <2>. QED  BY <2>1, <2>2, MailsPost DEF S, x
<1>11. /\ Only(user, Done) /\ Only(stash, Done) /\ Only(calls, Done) /\ Only(log, Done)
       /\ Names(user, Done) /\ Names(stash, Done)
       /\ \A b \in Actors : parent[b] \in Done \cup {Root}
  BY DEF FirstInv, EmptyInv, NamesInv
<1>12. EmptyInv' /\ NamesInv'
  BY <1>1, <1>2, <1>10, <1>11 DEF EmptyInv, NamesInv, Only, Names, Elements
<1>13. \A b \in Actors \ {a} : life'[b] = life[b]
  BY DEF Mails, HandleWatch, HandleUnwatch, HandleStop, HandleFailure, TypeOK
<1>14. StartInv'
  <2>. SUFFICES ASSUME NEW b \in Actors
                PROVE  /\ b \in Done /\ log[b] = <<>> =>
                            /\ calls[b] = <<>> /\ stash[b] = <<>>
                            /\ sys'[b] # <<>> /\ Head(sys'[b]).type = "Started"
                       /\ log[b] = <<>> => life'[b] = "ALIVE"
                       /\ log[b] # <<>> => log[b][1] = "Started" /\ NoStart(sys'[b])
                       /\ Clean(sys'[b])
                       /\ life'[b] = "STOPPED" => calls[b] \in {<<>>, <<"PopUser">>}
    BY <1>1, <1>2 DEF StartInv, Waiting, NoStart, Clean
  <2>1. CASE b = a
    <3>1. NoStart(sys'[b])
      BY <1>8, <1>10, <2>1
    <3>2. Clean(sys'[b])
      BY <3>1 DEF NoStart, Clean
    <3>. QED  BY <1>1, <1>7, <2>1, <3>1, <3>2 DEF FirstInv, StartInv
  <2>2. CASE b # a
    <3>1. Rest(a)[b] = sys[b] /\ life'[b] = life[b]
      BY <1>3, <1>13, <2>2
    <3>. QED  BY <1>10, <3>1 DEF FirstInv, StartInv, Waiting
  <2>. QED  BY <2>1, <2>2
<1>. QED  BY <1>12, <1>14 DEF FirstInv

(* The thread looks into the user mailbox or leaves a restored stash.       *)
LEMMA FirstCalls ==
    ASSUME TypeOK, CallsInv, FirstInv, NEW a \in Actors, LookUser(a) \/ StashEmptied(a)
    PROVE  FirstInv'
<1>. USE TypesOf
<1>1. /\ UNCHANGED <<spawning, parent, sys, user, stash, log>>
      /\ \A b \in Actors \ {a} : calls'[b] = calls[b] /\ life'[b] = life[b]
  BY DEF LookUser, StashEmptied, Calls, TypeOK
<1>2. user[a] # <<>> \/ calls[a] # <<>>
  BY DEF LookUser, StashEmptied, Calling
<1>3. a \in Done /\ Done' = Done
  BY <1>1, <1>2 DEF FirstInv, EmptyInv, Only, Done
<1>4. calls[a] # <<>> \/ sys[a] = <<>>
  BY DEF LookUser, StashEmptied, Calling
<1>5. log[a] # <<>>
  BY <1>3, <1>4 DEF FirstInv, StartInv, Waiting
<1>6. life'[a] = "STOPPED" => calls'[a] \in {<<>>, <<"PopUser">>}
  <2>1. CASE LookUser(a)
    BY <2>1 DEF LookUser, Calls
  <2>2. CASE StashEmptied(a)
    <3>1. calls[a] # <<>> /\ Head(calls[a]) # "PopUser"
      BY <2>2 DEF StashEmptied, Calling
    <3>2. life[a] # "STOPPED"
      BY <3>1 DEF FirstInv, StartInv
    <3>. QED  BY <2>2, <3>2 DEF StashEmptied, TypeOK
  <2>. QED  BY <2>1, <2>2
<1>7. Only(calls', Done)
  BY <1>1, <1>3 DEF FirstInv, EmptyInv, Only
<1>8. EmptyInv' /\ NamesInv'
  BY <1>1, <1>3, <1>7 DEF FirstInv, EmptyInv, NamesInv, Only, Names, Elements
<1>9. StartInv'
  <2>. SUFFICES ASSUME NEW b \in Actors
                PROVE  /\ b \in Done /\ log[b] = <<>> =>
                            /\ calls'[b] = <<>> /\ stash[b] = <<>>
                            /\ sys[b] # <<>> /\ Head(sys[b]).type = "Started"
                       /\ log[b] = <<>> => life'[b] = "ALIVE"
                       /\ log[b] # <<>> => log[b][1] = "Started" /\ NoStart(sys[b])
                       /\ Clean(sys[b])
                       /\ life'[b] = "STOPPED" => calls'[b] \in {<<>>, <<"PopUser">>}
    BY <1>1, <1>3 DEF StartInv, Waiting, NoStart, Clean
  <2>1. CASE b = a
    BY <1>5, <1>6, <2>1 DEF FirstInv, StartInv
  <2>2. CASE b # a
    BY <1>1, <2>2 DEF FirstInv, StartInv, Waiting
  <2>. QED  BY <2>1, <2>2
<1>. QED  BY <1>8, <1>9 DEF FirstInv

(* Nothing reaches an actor before its spawn is over, and then Started is   *)
(* the first message it takes.                                              *)
LEMMA FirstInvariant ==
    ASSUME ~ByName
    PROVE  Spec => [](TypeOK /\ CallsInv /\ FirstInv)
<1>1. Init => FirstInv
  BY DEF Init, FirstInv, EmptyInv, NamesInv, StartInv, Waiting, Only, Names, NoStart, Clean,
         Elements, Done
<1>2. TypeOK /\ CallsInv /\ FirstInv /\ [Next]_vars => FirstInv'
  <2>. SUFFICES ASSUME TypeOK, CallsInv, FirstInv, [Next]_vars  PROVE FirstInv'
    OBVIOUS
  <2>1. CASE UNCHANGED <<parent, life, calls, sys, user, stash, log>> /\ Done' = Done
    BY <2>1 DEF FirstInv, EmptyInv, NamesInv, StartInv, Waiting, Only, Names, NoStart, Clean,
                Elements
  <2>2. CASE UNCHANGED vars
    BY <2>1, <2>2 DEF vars, Done
  <2>3. ASSUME NEW b \in Actors, SpawnReady(b)  PROVE FirstInv'
    <3>1. Done' = Done
      BY <2>3 DEF SpawnReady, Done, TypeOK
    <3>. QED  BY <2>1, <2>3, <3>1 DEF SpawnReady
  <2>. QED
    BY <2>2, <2>3, FirstRoot, FirstSpawn, FirstHandler, FirstMail, FirstCalls
       DEF Next, Run, HandlerRuns, Mails
<1>. QED  BY <1>1, <1>2, BaseInvariant, PTL DEF Spec

(* While PIDs come from Spawn alone, the first message an actor's Receive   *)
(* is called with is Started, whoever else has posted to it.                *)
THEOREM StartedComesFirst ==
    ASSUME ~ByName
    PROVE  Spec => []StartedFirst
<1>1. FirstInv => StartedFirst
  BY DEF FirstInv, StartInv, StartedFirst
<1>. QED  BY <1>1, FirstInvariant, PTL

(* While PIDs come from Spawn alone, a message that is taken off the stash  *)
(* is handed to Receive: a stopped actor has no call left that unstashes.   *)
THEOREM UnstashKeeps ==
    ASSUME ~ByName
    PROVE  Spec => UnstashedIsReceived
<1>1. TypeOK /\ CallsInv /\ FirstInv /\ [Next]_vars =>
        [\A a \in Actors : Len(stash[a]) - Len(stash'[a]) <= Len(log'[a]) - Len(log[a])]_vars
  <2>. SUFFICES ASSUME TypeOK, CallsInv, FirstInv, Next, NEW a \in Actors
                PROVE  Len(stash[a]) - Len(stash'[a]) <= Len(log'[a]) - Len(log[a])
    BY DEF vars
  <2>. USE TypesOf
  <2>. DEFINE S == MessagesOf(Types)
              Goal == Len(stash[a]) - Len(stash'[a]) <= Len(log'[a]) - Len(log[a])
  <2>1. /\ stash \in [Actors -> Seq(S)] /\ log \in [Actors -> Seq(Types)]
        /\ stash[a] \in Seq(S) /\ log[a] \in Seq(Types)
    BY DEF Stashes
  <2>2. Len(stash[a]) \in Nat /\ Len(log[a]) \in Nat
    BY <2>1, LenProperties
  <2>3. \A b \in Actors, t \in Types :
          /\ Len(Put(log, b, t)[a]) \in Nat
          /\ Len(log[a]) <= Len(Put(log, b, t)[a])
          /\ b = a => Len(Put(log, b, t)[a]) = Len(log[a]) + 1
    <3>. SUFFICES ASSUME NEW b \in Actors, NEW t \in Types
                  PROVE  /\ Len(Put(log, b, t)[a]) \in Nat
                         /\ Len(log[a]) <= Len(Put(log, b, t)[a])
                         /\ b = a => Len(Put(log, b, t)[a]) = Len(log[a]) + 1
      OBVIOUS
    <3>1. /\ a = b => Put(log, b, t)[a] = Append(log[a], t)
          /\ a # b => Put(log, b, t)[a] = log[a]
      BY <2>1 DEF Put
    <3>2. Len(Append(log[a], t)) = Len(log[a]) + 1
      BY <2>1, AppendProperties
    <3>. QED  BY <2>2, <3>1, <3>2
  <2>. HIDE DEF S
  <2>4. \A b \in Actors, x \in S :
          Len(Put(stash, b, x)[a]) \in Nat /\ Len(stash[a]) <= Len(Put(stash, b, x)[a])
    <3>. SUFFICES ASSUME NEW b \in Actors, NEW x \in S
                  PROVE  /\ Len(Put(stash, b, x)[a]) \in Nat
                         /\ Len(stash[a]) <= Len(Put(stash, b, x)[a])
      OBVIOUS
    <3>1. /\ a = b => Put(stash, b, x)[a] = Append(stash[a], x)
          /\ a # b => Put(stash, b, x)[a] = stash[a]
      BY <2>1 DEF Put
    <3>2. Len(Append(stash[a], x)) = Len(stash[a]) + 1
      BY <2>1, AppendProperties
    <3>. QED  BY <2>2, <3>1, <3>2
  <2>5. CASE stash' = stash /\ log' = log
    BY <2>2, <2>5
  <2>6. CASE RootOp
    <3>1. stash' = stash /\ log' = log
      <4>. DEFINE m == M("None", NoPID)
      <4>1. AnyOp(Root, m, At(sys, user, stash, calls)) /\ log' = log
        BY <2>6 DEF RootOp, Here
      <4>2. m.pid \in SomeActor /\ Root \notin Actors
        BY ContextAssumption DEF M, SomeActor
      <4>. HIDE DEF m
      <4>3. OpEffect(Root, m, sys, user, stash, calls)
        BY <4>1, <4>2, OpHasEffect
      <4>. QED  BY <4>1, <4>2, <4>3 DEF OpEffect, StashEffect
    <3>. QED  BY <2>5, <3>1
  <2>7. ASSUME NEW b \in Actors, HandlerRuns(b), ~PopStash(b)  PROVE Goal
    <3>1. PICK m, q, u, st, cs : Handled(b, m, q, u, st, cs)
      BY <2>7, HandlerShape
    <3>2. m \in S /\ m.type \in Types
      BY <3>1 DEF Handled, MessagesOf, S
    <3>3. stash' = stash \/ stash' = Put(stash, b, m)
      BY <2>7, <3>1 DEF Handled, OpEffect, StashEffect
    <3>4. log' = log \/ log' = Put(log, b, m.type)
      BY <3>1 DEF Handled
    <3>5. Len(log'[a]) \in Nat /\ Len(log[a]) <= Len(log'[a])
      BY <2>2, <2>3, <3>2, <3>4
    <3>6. Len(stash'[a]) \in Nat /\ Len(stash[a]) <= Len(stash'[a])
      BY <2>2, <2>4, <3>2, <3>3
    <3>7. \A i, j, k, l \in Nat : i <= j /\ k <= l => i - j <= l - k
      OBVIOUS
    <3>. QED  BY <2>2, <3>5, <3>6, <3>7, Zenon
  <2>8. ASSUME NEW b \in Actors, PopStash(b)  PROVE Goal
    <3>. DEFINE n == Len(stash[b])
                m == stash[b][n]
                p == SubSeq(stash[b], 1, n - 1)
                st == [stash EXCEPT ![b] = p]
                cs == Resumed(b)
    <3>1. /\ calls[b] # <<>> /\ Head(calls[b]) # "PopUser" /\ stash[b] # <<>>
          /\ InvokeUserMessage(b, m, At(sys, user, st, cs))
      BY <2>8 DEF PopStash, Calling
    <3>2. life[b] # "STOPPED"
      BY <3>1 DEF FirstInv, StartInv
    <3>3. /\ n \in Nat /\ n > 0 /\ DOMAIN stash[b] = 1..n /\ stash[b] \in Seq(S)
          /\ \A i \in 1..n : stash[b][i] \in S
      BY <2>1, <3>1, EmptySeq, LenProperties
    <3>4. m \in S /\ m.type \in Types /\ m.pid \in SomeActor
      BY <3>3 DEF S, MessagesOf, SomeActor
    <3>5. p \in Seq(S) /\ Len(p) = n - 1
      BY <3>3, SubSeqProperties
    <3>6. st \in [Actors -> Seq(S)] /\ st[b] = p /\ \A e \in Actors \ {b} : st[e] = stash[e]
      <4>. HIDE DEF p
      <4>. QED  BY <2>1, <3>5
    <3>. HIDE DEF n, m, p, st, cs
    <3>7. OpEffect(b, m, sys, user, st, cs) /\ log' = Put(log, b, m.type)
      BY <3>1, <3>2, <3>4, InvokeEffect
    <3>8. stash' = st \/ stash' = Put(st, b, m)
      BY <3>7 DEF OpEffect, StashEffect
    <3>9. CASE a = b
      <4>1. Put(st, b, m)[b] = Append(st[b], m)
        BY <3>4, <3>6 DEF Put
      <4>2. Len(Append(p, m)) = Len(p) + 1
        BY <3>4, <3>5, AppendProperties
      <4>3. Len(stash'[a]) \in {n - 1, n}
        BY <3>3, <3>5, <3>6, <3>8, <3>9, <4>1, <4>2
      <4>4. Len(log'[a]) = Len(log[a]) + 1
        BY <2>3, <3>4, <3>7, <3>9
      <4>5. Len(stash[a]) = n
        BY <3>9 DEF n
      <4>. QED  BY <2>2, <3>3, <4>3, <4>4, <4>5
    <3>10. CASE a # b
      <4>1. Put(st, b, m)[a] = st[a]
        BY <3>4, <3>6, <3>10 DEF Put
      <4>2. stash'[a] = stash[a]
        BY <3>6, <3>8, <3>10, <4>1
      <4>. QED  BY <2>2, <2>3, <3>4, <3>7, <4>2
    <3>. QED  BY <3>9, <3>10
  <2>. QED
    BY <2>5, <2>6, <2>7, <2>8
       DEF Next, SpawnReady, SpawnDone, Run, LookUser, HandleWatch, HandleUnwatch, HandleStop,
           HandleFailure, StashEmptied, HandlerRuns
<1>. QED  BY <1>1, FirstInvariant, PTL DEF Spec, UnstashedIsReceived

=============================================================================
