---------------------------- MODULE ChannelProofs ----------------------------
(***************************************************************************)
(* Machine-checked proofs about Channel, for any messages, serializers,    *)
(* batch size and number of retries: what the codec of a batch keeps, and  *)
(* that what reaches the peer's actors is what was sent, in order.         *)
(***************************************************************************)
EXTENDS Channel, SequenceTheorems, WellFoundedInduction, TLAPS

-----------------------------------------------------------------------------
(* Induction and loops                                                      *)

(* A set of numbers has a least element: from well-foundedness, without an  *)
(* operator parameter.                                                      *)
LEMMA Least ==
    ASSUME NEW W \in SUBSET Nat, W # {}
    PROVE  \E n \in W : \A m \in W : n <= m
<1>. DEFINE Rel == OpToRel(<, Nat)
<1>1. IsWellFoundedOn(Rel, Nat)
  BY NatLessThanWellFounded
<1>2. \A m, n \in Nat : <<m, n>> \in Rel <=> m < n
  BY DEF OpToRel
<1>. HIDE DEF Rel
<1>3. PICK n \in W : \A m \in W : ~(<<m, n>> \in Rel)
  BY <1>1, WFMin
<1>4. \A m \in W : m \in Nat
  OBVIOUS
<1>5. ASSUME NEW m \in W PROVE n <= m
  <2>1. m \in Nat /\ n \in Nat /\ ~(m < n)
    BY <1>2, <1>3, <1>4
  <2>. QED BY <2>1
<1>. QED  BY <1>3, <1>5

(* Induction over the numbers, for a set instead of a predicate.            *)
LEMMA Induction ==
    ASSUME NEW W, 0 \in W, \A n \in W : n + 1 \in W
    PROVE  Nat \subseteq W
<1>. SUFFICES ASSUME Nat \ W # {} PROVE FALSE
  OBVIOUS
<1>1. PICK n \in Nat \ W : \A m \in Nat \ W : n <= m
  BY Least
<1>2. n # 0
  BY <1>1
<1>3. n - 1 \in Nat /\ n - 1 \notin Nat \ W
  BY <1>1, <1>2
<1>4. n - 1 \in W /\ (n - 1) + 1 = n
  BY <1>1, <1>3
<1>. QED BY <1>1, <1>4

(* f holds the values of a variable that starts as b and becomes g[i] of    *)
(* itself in round i of n.                                                  *)
Loop(f, n, V, b, g) ==
    f \in [0..n -> V] /\ f = [i \in 0..n |-> IF i = 0 THEN b ELSE g[i][f[i - 1]]]

(* Every loop has its values: what a recursive function needs to be one.    *)
LEMMA Recursion ==
    ASSUME NEW n \in Nat, NEW V, NEW b \in V, NEW g \in [1..n -> [V -> V]]
    PROVE  \E f : Loop(f, n, V, b, g)
<1>. DEFINE Good(k) == \E f : Loop(f, k, V, b, g)
            W == {k \in Nat : k <= n => Good(k)}
<1>1. 0 \in W
  <2>. DEFINE f == [i \in 0..0 |-> b]
  <2>1. f \in [0..0 -> V] /\ f = [i \in 0..0 |-> IF i = 0 THEN b ELSE g[i][f[i - 1]]]
    OBVIOUS
  <2>. QED  BY <2>1 DEF Loop
<1>2. ASSUME NEW k \in W PROVE k + 1 \in W
  <2>. SUFFICES ASSUME k + 1 <= n PROVE Good(k + 1)
    <3>. HIDE DEF Good
    <3>. QED OBVIOUS
  <2>1. k \in Nat /\ k <= n /\ Good(k)
    <3>. HIDE DEF Good
    <3>1. k \in Nat
      OBVIOUS
    <3>2. k <= n
      BY <3>1
    <3>. QED BY <3>1, <3>2
  <2>2. PICK f \in [0..k -> V] : f = [i \in 0..k |-> IF i = 0 THEN b ELSE g[i][f[i - 1]]]
    BY <2>1 DEF Loop
  <2>. DEFINE h == [i \in 0..(k + 1) |-> IF i <= k THEN f[i] ELSE g[i][f[i - 1]]]
  <2>3. h \in [0..(k + 1) -> V]
    <3>1. ASSUME NEW i \in 0..(k + 1) PROVE h[i] \in V
      <4>1. CASE i <= k
        BY <2>1, <4>1
      <4>2. CASE i = k + 1
        <5>1. f[i - 1] \in V /\ i \in 1..n
          BY <2>1, <4>2
        <5>2. g[i][f[i - 1]] \in V
          BY <5>1
        <5>. QED BY <4>2, <5>2, <2>1
      <4>. QED BY <4>1, <4>2, <2>1
    <3>. QED BY <3>1
  <2>4. ASSUME NEW i \in 0..(k + 1) PROVE h[i] = IF i = 0 THEN b ELSE g[i][h[i - 1]]
    <3>1. CASE i <= k
      <4>1. h[i] = f[i] /\ (i # 0 => h[i - 1] = f[i - 1])
        BY <2>1, <3>1
      <4>2. f[i] = IF i = 0 THEN b ELSE g[i][f[i - 1]]
        BY <2>1, <2>2, <3>1
      <4>. QED BY <4>1, <4>2
    <3>2. CASE i = k + 1
      BY <2>1, <3>2
    <3>. QED BY <2>1, <3>1, <3>2
  <2>5. h = [i \in 0..(k + 1) |-> IF i = 0 THEN b ELSE g[i][h[i - 1]]]
    BY <2>4
  <2>. HIDE DEF h
  <2>. QED BY <2>3, <2>5 DEF Loop
<1>3. n \in W
  <2>. HIDE DEF W
  <2>. QED BY <1>1, <1>2, Induction
<1>. QED BY <1>3

-----------------------------------------------------------------------------
(* What travels                                                             *)

Types == {m.type : m \in Messages} \cup {""}
Targets == {m.target : m \in Messages}
Senders == {m.sender : m \in Messages}
Serializers == {m.serializer : m \in Messages}
Sent == [n : Nat, target : Targets, sender : Senders, type : Types, serializer : Serializers]
Envelopes == [n : Nat, type : Int, target : Int, sender : Int, serializer : Serializers]
Batches == [types : Seq(Types), targets : Seq(Targets), senders : Seq(Senders),
            envelopes : Seq(Envelopes)]
Contents == [type : Types, envelope : Senders \cup {None}]
Arrivals == [n : Nat, target : Targets, via : {"RemoteTerminate", "SendSystemMessage", "Send"},
             sender : {None}, message : Contents]

(* A list whose entries are all in U is a list over U.                      *)
LEMMA Retype ==
    ASSUME NEW V, NEW U, NEW s \in Seq(V), \A i \in 1..Len(s) : s[i] \in U
    PROVE  s \in Seq(U)
<1>. DEFINE l == Len(s)
<1>1. l \in Nat /\ s \in [1..l -> V] /\ \A i \in 1..l : s[i] \in U
  OBVIOUS
<1>. HIDE DEF l
<1>2. s \in [1..l -> U]
  BY <1>1
<1>. QED  BY <1>1, <1>2

-----------------------------------------------------------------------------
(* The codec                                                                *)

(* Table u has grown out of table t.                                        *)
Grown(t, u) == /\ Len(t) \in Nat /\ Len(u) \in Nat /\ Len(t) <= Len(u)
               /\ \A i \in 1..Len(t) : u[i] = t[i]

(* Entries of a table that grows stay where they are.                       *)
LEMMA GrownPlace ==
    ASSUME NEW t, NEW u, Grown(t, u), NEW i, i \in 1..Len(t)
    PROVE  i \in 1..Len(u) /\ u[i] = t[i]
  BY DEF Grown

(* Table u, over V, has x where Position says, and else what t has.         *)
Places(t, u, x, V) ==
    /\ u \in Seq(V) /\ Grown(t, u)
    /\ Position(u, x) \in 1..Len(u) /\ u[Position(u, x)] = x

(* A table that has got x holds it where Position says, and keeps every     *)
(* entry it had in its place.                                               *)
LEMMA AddedPlace ==
    ASSUME NEW V, NEW table \in Seq(V), NEW x \in V
    PROVE  Places(table, Added(table, x), x, V)
<1>. DEFINE t == Added(table, x)
<1>1. /\ t \in Seq(V) /\ Len(table) <= Len(t)
      /\ \A i \in 1..Len(table) : t[i] = table[i]
      /\ \E i \in 1..Len(t) : t[i] = x
  <2>1. CASE Contains(table, x)
    <3>1. t = table
      BY <2>1 DEF Added
    <3>. QED  BY <2>1, <3>1 DEF Contains
  <2>2. CASE ~Contains(table, x)
    <3>1. t = Append(table, x)
      BY <2>2 DEF Added
    <3>2. /\ t \in Seq(V) /\ Len(t) = Len(table) + 1 /\ Len(table) \in Nat
          /\ \A i \in 1..Len(table) : t[i] = table[i]
          /\ t[Len(table) + 1] = x
      <4>. HIDE DEF t
      <4>. QED  BY <3>1
    <3>3. Len(table) <= Len(t) /\ Len(table) + 1 \in 1..Len(t)
      <4>. HIDE DEF t
      <4>. QED  BY <3>2
    <3>. HIDE DEF t
    <3>. QED  BY <3>2, <3>3
  <2>. QED  BY <2>1, <2>2
<1>. HIDE DEF t
<1>2. DOMAIN t = 1..Len(t)
  BY <1>1
<1>3. Position(t, x) \in DOMAIN t /\ t[Position(t, x)] = x
  BY <1>1, <1>2 DEF Position
<1>. QED  BY <1>1, <1>2, <1>3 DEF t, Places, Grown

(* Envelope e of batch b stands for message m.                              *)
Carries(b, e, m) ==
    /\ e.n = m.n /\ e.serializer = m.serializer
    /\ e.target + 1 \in 1..Len(b.targets) /\ b.targets[e.target + 1] = m.target
    /\ e.type + 1 \in 1..Len(b.types) /\ b.types[e.type + 1] = TypeName(m)
    /\ m.sender = None => e.sender = 0
    /\ m.sender # None => e.sender \in 1..Len(b.senders) /\ b.senders[e.sender] = m.sender

(* The loop of SendMessageBatch adds an envelope for m, and what the other  *)
(* envelopes stand for stays the same.                                      *)
LEMMA EnvelopeStep ==
    ASSUME NEW b \in Batches, NEW m \in Sent
    PROVE  /\ Envelope(b, m) \in Batches
           /\ Len(Envelope(b, m).envelopes) = Len(b.envelopes) + 1
           /\ \A a \in 1..Len(b.envelopes) : Envelope(b, m).envelopes[a] = b.envelopes[a]
           /\ Carries(Envelope(b, m), Envelope(b, m).envelopes[Len(b.envelopes) + 1], m)
           /\ \A e \in Envelopes, k \in Sent : Carries(b, e, k) => Carries(Envelope(b, m), e, k)
<1>. DEFINE types == Added(b.types, TypeName(m))
            targets == Added(b.targets, m.target)
            senders == IF m.sender = None THEN b.senders ELSE Added(b.senders, m.sender)
            from == IF m.sender = None THEN 0 ELSE Position(senders, m.sender)
            env == [n |-> m.n, type |-> Position(types, TypeName(m)) - 1,
                    target |-> Position(targets, m.target) - 1,
                    sender |-> from, serializer |-> m.serializer]
            c == [types |-> types, targets |-> targets, senders |-> senders,
                  envelopes |-> Append(b.envelopes, env)]
<1>1. Envelope(b, m) = c
  BY DEF Envelope
<1>2. /\ b.types \in Seq(Types) /\ b.targets \in Seq(Targets) /\ b.senders \in Seq(Senders)
      /\ b.envelopes \in Seq(Envelopes)
      /\ m.n \in Nat /\ m.target \in Targets /\ m.sender \in Senders /\ m.serializer \in Serializers
      /\ TypeName(m) \in Types
  BY DEF Batches, Sent, Types, TypeName
<1>3. /\ types \in Seq(Types) /\ Grown(b.types, types)
      /\ Position(types, TypeName(m)) \in 1..Len(types)
      /\ types[Position(types, TypeName(m))] = TypeName(m)
  <2>1. Places(b.types, types, TypeName(m), Types)
    BY <1>2, AddedPlace
  <2>. QED  BY <2>1 DEF Places
<1>4. /\ targets \in Seq(Targets) /\ Grown(b.targets, targets)
      /\ Position(targets, m.target) \in 1..Len(targets)
      /\ targets[Position(targets, m.target)] = m.target
  <2>1. Places(b.targets, targets, m.target, Targets)
    BY <1>2, AddedPlace
  <2>. QED  BY <2>1 DEF Places
<1>5. /\ senders \in Seq(Senders) /\ Grown(b.senders, senders) /\ from \in Int
      /\ m.sender = None => from = 0
      /\ m.sender # None => from \in 1..Len(senders) /\ senders[from] = m.sender
  <2>1. CASE m.sender = None
    <3>1. senders = b.senders /\ from = 0
      BY <2>1
    <3>2. Len(b.senders) <= Len(b.senders) /\ Len(b.senders) \in Nat
      BY <1>2
    <3>. QED  BY <1>2, <2>1, <3>1, <3>2 DEF Grown
  <2>2. CASE m.sender # None
    <3>1. senders = Added(b.senders, m.sender) /\ from = Position(senders, m.sender)
      BY <2>2
    <3>. HIDE DEF senders, from
    <3>0. Places(b.senders, senders, m.sender, Senders)
      BY <1>2, <3>1, AddedPlace
    <3>2. /\ senders \in Seq(Senders) /\ Grown(b.senders, senders)
          /\ from \in 1..Len(senders) /\ senders[from] = m.sender
      BY <3>0, <3>1 DEF Places
    <3>. QED  BY <2>2, <3>2
  <2>. QED  BY <2>1, <2>2
<1>. DEFINE ty == Position(types, TypeName(m))
            ta == Position(targets, m.target)
<1>6. /\ env.n = m.n /\ env.type = ty - 1 /\ env.target = ta - 1
      /\ env.sender = from /\ env.serializer = m.serializer
  OBVIOUS
<1>. HIDE DEF types, targets, senders, from
<1>7. env \in Envelopes
  <2>1. ty - 1 \in Int /\ ta - 1 \in Int
    BY <1>3, <1>4
  <2>. HIDE DEF ty, ta
  <2>2. env = [n |-> m.n, type |-> ty - 1, target |-> ta - 1, sender |-> from,
               serializer |-> m.serializer]
    BY DEF ty, ta
  <2>. HIDE DEF env
  <2>. QED  BY <1>2, <1>5, <2>1, <2>2 DEF Envelopes
<1>. HIDE DEF env
<1>8. /\ c.types = types /\ c.targets = targets /\ c.senders = senders
      /\ c.envelopes = Append(b.envelopes, env)
  OBVIOUS
<1>9. c \in Batches
  BY <1>2, <1>3, <1>4, <1>5, <1>7 DEF Batches
<1>. HIDE DEF c
<1>10. /\ Len(c.envelopes) = Len(b.envelopes) + 1
       /\ \A a \in 1..Len(b.envelopes) : c.envelopes[a] = b.envelopes[a]
       /\ c.envelopes[Len(b.envelopes) + 1] = env
  BY <1>2, <1>7, <1>8
<1>11. Carries(c, env, m)
  <2>1. (ty - 1) + 1 = ty /\ (ta - 1) + 1 = ta
    BY <1>3, <1>4
  <2>. QED  BY <1>3, <1>4, <1>5, <1>6, <1>8, <2>1 DEF Carries
<1>12. ASSUME NEW e \in Envelopes, NEW k \in Sent, Carries(b, e, k)  PROVE Carries(c, e, k)
  <2>3. e.target + 1 \in 1..Len(targets) /\ targets[e.target + 1] = k.target
    BY <1>4, <1>12, GrownPlace DEF Carries
  <2>4. e.type + 1 \in 1..Len(types) /\ types[e.type + 1] = TypeName(k)
    BY <1>3, <1>12, GrownPlace DEF Carries
  <2>5. k.sender # None => e.sender \in 1..Len(senders) /\ senders[e.sender] = k.sender
    BY <1>5, <1>12, GrownPlace DEF Carries
  <2>. QED  BY <1>8, <1>12, <2>3, <2>4, <2>5 DEF Carries
<1>. QED  BY <1>1, <1>9, <1>10, <1>11, <1>12

-----------------------------------------------------------------------------
(* Numbers                                                                  *)

(* The numbers of s grow.                                                   *)
Numbered(s) == \A i, j \in 1..Len(s) : i < j => s[i].n < s[j].n

(* Every number of s is below every number of t.                            *)
Below(s, t) == \A i \in 1..Len(s), j \in 1..Len(t) : s[i].n < t[j].n

(* Every entry of s is one of q.                                            *)
Among(q, s) == \A j \in 1..Len(s) : \E k \in 1..Len(q) : s[j] = q[k]

(* Every envelope of b stands for an entry of q, and their numbers grow.    *)
Faithful(q, b) ==
    /\ Numbered(b.envelopes)
    /\ \A a \in 1..Len(b.envelopes) : \E k \in 1..Len(q) : Carries(b, b.envelopes[a], q[k])

(* What the peer's actor is to get of message m.                            *)
Arrival(m) == DeserializeAndDeliver(m.n, m.target, m.type, m.sender)

(* Every entry of s is what is to arrive of an entry of q.                  *)
Arrived(q, s) == \A j \in 1..Len(s) : \E k \in 1..Len(q) : s[j] = Arrival(q[k])

(* What is on its way, or there, comes from the history.                    *)
OriginInv ==
    /\ queued \in Seq(Sent) /\ \A i \in 1..Len(queued) : queued[i].n = i
    /\ queue \in Seq(Sent) /\ Among(queued, queue)
    /\ wire \in Seq(Batches) /\ \A i \in 1..Len(wire) : Faithful(queued, wire[i])
    /\ delivered \in Seq(Arrivals) /\ Arrived(queued, delivered)

(* What has arrived was queued before what is on the wire, that in the      *)
(* order of its batches, and that before what still waits.                  *)
OrderInv ==
    /\ Numbered(delivered) /\ Numbered(queue) /\ Below(delivered, queue)
    /\ \A i \in 1..Len(wire) : /\ Below(delivered, wire[i].envelopes)
                               /\ Below(wire[i].envelopes, queue)
    /\ \A i, j \in 1..Len(wire) : i < j => Below(wire[i].envelopes, wire[j].envelopes)

-----------------------------------------------------------------------------
(* Lists with numbers                                                       *)

(* A list stays numbered if what is added has a higher number.              *)
LEMMA NumberedAppend ==
    ASSUME NEW V, NEW s \in Seq(V), NEW x \in V, Numbered(s),
           \A i \in 1..Len(s) : s[i].n < x.n
    PROVE  Numbered(Append(s, x))
<1>. DEFINE u == Append(s, x)
<1>1. /\ Len(s) \in Nat /\ Len(u) = Len(s) + 1 /\ u[Len(s) + 1] = x
      /\ \A i \in 1..Len(s) : u[i] = s[i]
  OBVIOUS
<1>. HIDE DEF u
<1>2. ASSUME NEW i \in 1..Len(u), NEW j \in 1..Len(u), i < j  PROVE u[i].n < u[j].n
  <2>1. i \in 1..Len(s) /\ (j \in 1..Len(s) \/ j = Len(s) + 1)
    BY <1>1, <1>2
  <2>2. CASE j \in 1..Len(s)
    BY <1>1, <1>2, <2>1, <2>2 DEF Numbered
  <2>3. CASE j = Len(s) + 1
    BY <1>1, <2>1, <2>3
  <2>. QED  BY <2>1, <2>2, <2>3
<1>3. Numbered(u)
  BY <1>2 DEF Numbered
<1>. QED  BY <1>3 DEF u

(* f holds the batch that SendMessageBatch builds, after each message.      *)
Encoded(f, batch) ==
    /\ f \in [0..Len(batch) -> Batches]
    /\ f[0] = EmptyBatch
    /\ \A i \in 1..Len(batch) :
          f[i] = IF Serializable(batch[i]) THEN Envelope(f[i - 1], batch[i]) ELSE f[i - 1]
    /\ Encode(batch) = f[Len(batch)]

(* The recursive definition of Encode is such a loop.                       *)
LEMMA EncodeLoop ==
    ASSUME NEW batch \in Seq(Sent)
    PROVE  \E f : Encoded(f, batch)
<1>. DEFINE n == Len(batch)
            Step(f) == [i \in 0..Len(batch) |->
                          IF i = 0 THEN EmptyBatch
                          ELSE IF Serializable(batch[i]) THEN Envelope(f[i - 1], batch[i])
                          ELSE f[i - 1]]
            g == [i \in 1..n |-> [v \in Batches |->
                    IF Serializable(batch[i]) THEN Envelope(v, batch[i]) ELSE v]]
            keep == CHOOSE f : f = Step(f)
<1>1. n \in Nat /\ EmptyBatch \in Batches /\ \A i \in 1..n : batch[i] \in Sent
  BY DEF EmptyBatch, Batches
<1>2. g \in [1..n -> [Batches -> Batches]]
  <2>1. ASSUME NEW i \in 1..n, NEW v \in Batches
        PROVE  (IF Serializable(batch[i]) THEN Envelope(v, batch[i]) ELSE v) \in Batches
    BY <1>1, EnvelopeStep
  <2>. HIDE DEF n
  <2>. QED  BY <2>1
<1>3. PICK f : Loop(f, n, Batches, EmptyBatch, g)
  <2>. HIDE DEF g, n
  <2>. QED  BY <1>1, <1>2, Recursion
<1>4. f = Step(f)
  <2>1. ASSUME NEW i \in 0..n, i # 0
        PROVE g[i][f[i - 1]] = IF Serializable(batch[i]) THEN Envelope(f[i - 1], batch[i])
                               ELSE f[i - 1]
    <3>1. i \in 1..n /\ i - 1 \in 0..n
      BY <1>1, <2>1
    <3>2. f[i - 1] \in Batches
      BY <1>3, <3>1 DEF Loop
    <3>. QED BY <3>1, <3>2
  <2>. QED BY <1>3, <2>1 DEF Loop
<1>5. keep = Step(keep)
  <2>. HIDE DEF Step
  <2>. QED BY <1>4
<1>6. Encode(batch) = keep[n]
  BY DEF Encode
<1>. HIDE DEF keep
<1>7. /\ keep[0] = EmptyBatch
      /\ \A i \in 1..n : keep[i] = IF Serializable(batch[i]) THEN Envelope(keep[i - 1], batch[i])
                                   ELSE keep[i - 1]
  <2>1. \A i \in 0..n : keep[i] = IF i = 0 THEN EmptyBatch
                                  ELSE IF Serializable(batch[i])
                                       THEN Envelope(keep[i - 1], batch[i])
                                  ELSE keep[i - 1]
    BY <1>5
  <2>. HIDE DEF n
  <2>. QED  BY <1>1, <2>1
<1>8. keep \in [0..n -> Batches]
  <2>. DEFINE W == {k \in Nat : k <= n => keep[k] \in Batches}
  <2>1. 0 \in W
    BY <1>1, <1>7
  <2>2. ASSUME NEW k \in W PROVE k + 1 \in W
    <3>1. k \in Nat
      OBVIOUS
    <3>2. CASE k + 1 <= n
      <4>1. k \in 0..n /\ k + 1 \in 1..n /\ (k + 1) - 1 = k
        BY <1>1, <3>1, <3>2
      <4>2. keep[k] \in Batches /\ batch[k + 1] \in Sent
        BY <1>1, <4>1
      <4>3. keep[k + 1] = IF Serializable(batch[k + 1]) THEN Envelope(keep[k], batch[k + 1])
                          ELSE keep[k]
        BY <1>7, <4>1
      <4>4. keep[k + 1] \in Batches
        BY <4>2, <4>3, EnvelopeStep
      <4>. QED BY <3>1, <4>4
    <3>. QED BY <1>1, <3>1, <3>2
  <2>3. Nat \subseteq W
    <3>. HIDE DEF W
    <3>. QED BY <2>1, <2>2, Induction
  <2>4. \A i \in 0..n : keep[i] \in Batches
    BY <1>1, <2>3
  <2>. QED BY <1>1, <1>5, <2>4
<1>. HIDE DEF g, Step
<1>. QED BY <1>6, <1>7, <1>8 DEF Encoded

(* The batch that is sent stands for messages it was made of, in order.     *)
LEMMA EncodeFaithful ==
    ASSUME NEW batch \in Seq(Sent), Numbered(batch)
    PROVE  Encode(batch) \in Batches /\ Faithful(batch, Encode(batch))
<1>0. PICK f : Encoded(f, batch)
  BY EncodeLoop
<1>1. /\ f \in [0..Len(batch) -> Batches]
      /\ f[0] = EmptyBatch
      /\ \A i \in 1..Len(batch) :
            f[i] = IF Serializable(batch[i]) THEN Envelope(f[i - 1], batch[i]) ELSE f[i - 1]
      /\ Encode(batch) = f[Len(batch)]
  BY <1>0 DEF Encoded
<1>. DEFINE From(i) == /\ Numbered(f[i].envelopes)
                       /\ \A a \in 1..Len(f[i].envelopes) :
                            \E j \in 1..i : Carries(f[i], f[i].envelopes[a], batch[j])
<1>2. From(0)
  <2>1. f[0].envelopes = <<>>
    BY <1>1 DEF EmptyBatch
  <2>. QED  BY <2>1 DEF Numbered
<1>3. ASSUME NEW k \in Nat, k + 1 <= Len(batch), From(k)  PROVE From(k + 1)
  <2>1. k \in 0..Len(batch) /\ k + 1 \in 1..Len(batch) /\ (k + 1) - 1 = k
    BY <1>3
  <2>. DEFINE b == f[k]
              c == f[k + 1]
              m == batch[k + 1]
  <2>2. c = IF Serializable(m) THEN Envelope(b, m) ELSE b
    BY <1>1, <2>1
  <2>3. b \in Batches /\ m \in Sent
    BY <1>1, <2>1
  <2>4. Numbered(b.envelopes)
    BY <1>3
  <2>5. \A a \in 1..Len(b.envelopes) : \E j \in 1..k : Carries(b, b.envelopes[a], batch[j])
    BY <1>3
  <2>6. \A j \in 1..k : j \in 1..(k + 1) /\ j \in 1..Len(batch) /\ j < k + 1
    BY <2>1
  <2>7. CASE ~Serializable(m)
    <3>1. c = b
      BY <2>2, <2>7
    <3>. HIDE DEF b, c, m
    <3>2. \A a \in 1..Len(c.envelopes) : \E j \in 1..(k + 1) : Carries(c, c.envelopes[a], batch[j])
      BY <2>5, <2>6, <3>1
    <3>. QED  BY <2>4, <3>1, <3>2 DEF c
  <2>8. CASE Serializable(m)
    <3>1. c = Envelope(b, m)
      BY <2>2, <2>8
    <3>2. k + 1 \in 1..(k + 1) /\ batch[k + 1] = m
      BY <2>1
    <3>3. \A j \in 1..k : batch[j] \in Sent /\ batch[j].n < m.n
      BY <2>1, <2>6, <1>3 DEF Numbered
    <3>. HIDE DEF b, c, m
    <3>4. /\ c \in Batches /\ Len(c.envelopes) = Len(b.envelopes) + 1
          /\ \A a \in 1..Len(b.envelopes) : c.envelopes[a] = b.envelopes[a]
          /\ Carries(c, c.envelopes[Len(b.envelopes) + 1], m)
          /\ \A e \in Envelopes, l \in Sent : Carries(b, e, l) => Carries(c, e, l)
      BY <2>3, <3>1, EnvelopeStep
    <3>5. b.envelopes \in Seq(Envelopes) /\ c.envelopes \in Seq(Envelopes)
      BY <2>3, <3>4 DEF Batches
    <3>6. Len(b.envelopes) \in Nat /\ \A a \in 1..Len(b.envelopes) : b.envelopes[a] \in Envelopes
      BY <3>5
    <3>7. ASSUME NEW a \in 1..Len(c.envelopes)
          PROVE  \E j \in 1..(k + 1) : Carries(c, c.envelopes[a], batch[j])
      <4>1. a \in 1..Len(b.envelopes) \/ a = Len(b.envelopes) + 1
        BY <3>4, <3>6
      <4>2. CASE a \in 1..Len(b.envelopes)
        <5>1. PICK j \in 1..k : Carries(b, b.envelopes[a], batch[j])
          BY <2>5, <4>2
        <5>2. Carries(c, c.envelopes[a], batch[j])
          BY <3>3, <3>4, <3>6, <4>2, <5>1
        <5>. QED  BY <2>6, <5>2
      <4>3. CASE a = Len(b.envelopes) + 1
        BY <3>2, <3>4, <4>3
      <4>. QED  BY <4>1, <4>2, <4>3
    <3>8. Numbered(c.envelopes)
      <4>. DEFINE r == b.envelopes
                  s == c.envelopes
                  l == Len(b.envelopes)
      <4>1. s[l + 1].n = m.n
        BY <3>4 DEF Carries
      <4>2. \A a \in 1..l : s[a].n < m.n
        <5>. SUFFICES ASSUME NEW a \in 1..l PROVE s[a].n < m.n
          OBVIOUS
        <5>1. PICK j \in 1..k : Carries(b, b.envelopes[a], batch[j])
          BY <2>5
        <5>2. b.envelopes[a].n = batch[j].n
          BY <5>1 DEF Carries
        <5>. QED  BY <3>3, <3>4, <5>1, <5>2
      <4>3. \A i, j \in 1..l : i < j => s[i].n < s[j].n
        BY <2>4, <3>4 DEF Numbered
      <4>4. l \in Nat /\ Len(s) = l + 1
        BY <3>4, <3>6
      <4>. HIDE DEF r, s, l
      <4>5. ASSUME NEW i \in 1..Len(s), NEW j \in 1..Len(s), i < j  PROVE s[i].n < s[j].n
        <5>1. i \in 1..l /\ (j \in 1..l \/ j = l + 1)
          BY <4>4, <4>5
        <5>. QED  BY <4>1, <4>2, <4>3, <4>5, <5>1
      <4>. QED  BY <4>5 DEF Numbered, s
    <3>. QED  BY <3>7, <3>8 DEF c
  <2>. QED  BY <2>7, <2>8
<1>4. From(Len(batch))
  <2>. DEFINE W == {i \in Nat : i <= Len(batch) => From(i)}
  <2>. HIDE DEF From
  <2>1. 0 \in W
    BY <1>2
  <2>2. ASSUME NEW k \in W PROVE k + 1 \in W
    BY <1>3
  <2>3. Nat \subseteq W
    <3>. HIDE DEF W
    <3>. QED BY <2>1, <2>2, Induction
  <2>. QED  BY <2>3
<1>. QED  BY <1>1, <1>4 DEF Faithful

(* What the peer makes of an envelope that stands for m is m.  The index 0  *)
(* is no sender, and only a registered serializer reads a message back, one *)
(* that names its type.                                                     *)
LEMMA DecodedArrival ==
    ASSUME NEW b \in Batches, NEW e \in Envelopes, NEW m \in Sent, Carries(b, e, m),
           Decodable(b, e)
    PROVE  Decoded(b, e) = Arrival(m) /\ Decoded(b, e).n = e.n
<1>1. m.serializer \in Registered
  BY DEF Carries, Decodable
<1>2. b.targets[e.target + 1] = m.target /\ b.types[e.type + 1] = m.type /\ e.n = m.n
  BY <1>1 DEF Carries, TypeName
<1>3. (IF e.sender \in 1..Len(b.senders) THEN b.senders[e.sender] ELSE None) = m.sender
  <2>1. CASE m.sender = None
    <3>1. Len(b.senders) \in Nat
      BY DEF Batches
    <3>2. e.sender = 0
      BY <2>1 DEF Carries
    <3>. QED  BY <2>1, <3>1, <3>2
  <2>2. CASE m.sender # None
    BY <2>2 DEF Carries
  <2>. QED  BY <2>1, <2>2
<1>4. Decoded(b, e) = Arrival(m)
  BY <1>2, <1>3 DEF Decoded, Arrival
<1>. QED  BY <1>2, <1>4 DEF Arrival, DeserializeAndDeliver

(* f holds what the peer has made of batch b after each envelope.           *)
Readout(f, b, V) ==
    /\ f \in [0..Len(b.envelopes) -> Seq(V)]
    /\ f[0] = <<>>
    /\ \A i \in 1..Len(b.envelopes) :
          f[i] = IF Decodable(b, b.envelopes[i]) THEN Append(f[i - 1], Decoded(b, b.envelopes[i]))
                 ELSE f[i - 1]
    /\ Decode(b) = f[Len(b.envelopes)]

(* The recursive definition of Decode is such a loop.                       *)
LEMMA DecodeLoop ==
    ASSUME NEW b \in Batches, NEW V, \A e \in Envelopes : Decoded(b, e) \in V
    PROVE  \E f : Readout(f, b, V)
<1>. DEFINE env == b.envelopes
            n == Len(b.envelopes)
            Step(f) == [i \in 0..Len(b.envelopes) |->
                          IF i = 0 THEN <<>>
                          ELSE IF Decodable(b, b.envelopes[i])
                               THEN Append(f[i - 1], Decoded(b, b.envelopes[i]))
                          ELSE f[i - 1]]
            g == [i \in 1..n |-> [v \in Seq(V) |->
                    IF Decodable(b, b.envelopes[i]) THEN Append(v, Decoded(b, b.envelopes[i]))
                    ELSE v]]
            keep == CHOOSE f : f = Step(f)
<1>1. n \in Nat /\ <<>> \in Seq(V) /\ \A i \in 1..n : Decoded(b, b.envelopes[i]) \in V
  <2>1. env \in Seq(Envelopes)
    BY DEF Batches
  <2>2. \A i \in 1..n : env[i] \in Envelopes
    BY <2>1
  <2>. QED  BY <2>1, <2>2
<1>2. g \in [1..n -> [Seq(V) -> Seq(V)]]
  <2>1. ASSUME NEW i \in 1..n, NEW v \in Seq(V)
        PROVE  (IF Decodable(b, b.envelopes[i]) THEN Append(v, Decoded(b, b.envelopes[i]))
                ELSE v) \in Seq(V)
    BY <1>1
  <2>. HIDE DEF n
  <2>. QED  BY <2>1
<1>3. PICK f : Loop(f, n, Seq(V), <<>>, g)
  <2>. HIDE DEF g, n
  <2>. QED  BY <1>1, <1>2, Recursion
<1>4. f = Step(f)
  <2>1. ASSUME NEW i \in 0..n, i # 0
        PROVE g[i][f[i - 1]] = IF Decodable(b, b.envelopes[i])
                               THEN Append(f[i - 1], Decoded(b, b.envelopes[i]))
                               ELSE f[i - 1]
    <3>1. i \in 1..n /\ i - 1 \in 0..n
      BY <1>1, <2>1
    <3>2. f[i - 1] \in Seq(V)
      BY <1>3, <3>1 DEF Loop
    <3>. QED BY <3>1, <3>2
  <2>. QED BY <1>3, <2>1 DEF Loop
<1>5. keep = Step(keep)
  <2>. HIDE DEF Step
  <2>. QED BY <1>4
<1>6. Decode(b) = keep[n]
  BY DEF Decode
<1>. HIDE DEF keep
<1>7. /\ keep[0] = <<>>
      /\ \A i \in 1..n : keep[i] = IF Decodable(b, b.envelopes[i])
                                   THEN Append(keep[i - 1], Decoded(b, b.envelopes[i]))
                                   ELSE keep[i - 1]
  <2>1. \A i \in 0..n : keep[i] = IF i = 0 THEN <<>>
                                  ELSE IF Decodable(b, b.envelopes[i])
                                       THEN Append(keep[i - 1], Decoded(b, b.envelopes[i]))
                                  ELSE keep[i - 1]
    BY <1>5
  <2>. HIDE DEF n
  <2>. QED  BY <1>1, <2>1
<1>8. keep \in [0..n -> Seq(V)]
  <2>. DEFINE W == {k \in Nat : k <= n => keep[k] \in Seq(V)}
  <2>1. 0 \in W
    BY <1>1, <1>7
  <2>2. ASSUME NEW k \in W PROVE k + 1 \in W
    <3>1. k \in Nat
      OBVIOUS
    <3>2. CASE k + 1 <= n
      <4>1. k \in 0..n /\ k + 1 \in 1..n /\ (k + 1) - 1 = k
        BY <1>1, <3>1, <3>2
      <4>2. keep[k] \in Seq(V) /\ Decoded(b, b.envelopes[k + 1]) \in V
        BY <1>1, <4>1
      <4>3. keep[k + 1] = IF Decodable(b, b.envelopes[k + 1])
                          THEN Append(keep[k], Decoded(b, b.envelopes[k + 1]))
                          ELSE keep[k]
        BY <1>7, <4>1
      <4>4. keep[k + 1] \in Seq(V)
        BY <4>2, <4>3
      <4>. QED BY <3>1, <4>4
    <3>. QED BY <1>1, <3>1, <3>2
  <2>3. Nat \subseteq W
    <3>. HIDE DEF W
    <3>. QED BY <2>1, <2>2, Induction
  <2>4. \A i \in 0..n : keep[i] \in Seq(V)
    BY <1>1, <2>3
  <2>. QED BY <1>1, <1>5, <2>4
<1>. HIDE DEF g, Step
<1>. QED BY <1>6, <1>7, <1>8 DEF Readout

(* Every number of s is that of an entry of t.                              *)
NumbersOf(t, s) == \A j \in 1..Len(s) : \E a \in 1..Len(t) : s[j].n = t[a].n

(* What the peer makes of a batch that stands for messages of q is what is  *)
(* to arrive of them, in the order of the envelopes.                        *)
LEMMA DecodeFaithful ==
    ASSUME NEW q \in Seq(Sent), NEW b \in Batches, Faithful(q, b)
    PROVE  /\ Decode(b) \in Seq(Arrivals) /\ Arrived(q, Decode(b))
           /\ Numbered(Decode(b)) /\ NumbersOf(b.envelopes, Decode(b))
<1>. DEFINE V == {Decoded(b, e) : e \in Envelopes}
            env == b.envelopes
<1>0. PICK f : Readout(f, b, V)
  <2>1. \A e \in Envelopes : Decoded(b, e) \in V
    OBVIOUS
  <2>. HIDE DEF V
  <2>. QED  BY <2>1, DecodeLoop
<1>1. /\ f \in [0..Len(env) -> Seq(V)]
      /\ f[0] = <<>>
      /\ \A i \in 1..Len(env) :
            f[i] = IF Decodable(b, env[i]) THEN Append(f[i - 1], Decoded(b, env[i])) ELSE f[i - 1]
      /\ Decode(b) = f[Len(env)]
  BY <1>0 DEF Readout
<1>2. env \in Seq(Envelopes) /\ Len(env) \in Nat /\ \A a \in 1..Len(env) : env[a] \in Envelopes
  <2>1. env \in Seq(Envelopes)
    BY DEF Batches
  <2>. QED  BY <2>1
<1>3. \A a \in 1..Len(env) : Decodable(b, env[a]) =>
         \E k \in 1..Len(q) : Decoded(b, env[a]) = Arrival(q[k]) /\ Decoded(b, env[a]).n = env[a].n
  <2>. SUFFICES ASSUME NEW a \in 1..Len(env), Decodable(b, env[a])
                PROVE  \E k \in 1..Len(q) : /\ Decoded(b, env[a]) = Arrival(q[k])
                                            /\ Decoded(b, env[a]).n = env[a].n
    OBVIOUS
  <2>1. PICK k \in 1..Len(q) : Carries(b, env[a], q[k])
    BY DEF Faithful
  <2>2. q[k] \in Sent /\ env[a] \in Envelopes
    BY <1>2
  <2>. HIDE DEF env
  <2>. QED  BY <2>1, <2>2, DecodedArrival
<1>4. \A i, j \in 1..Len(env) : i < j => env[i].n < env[j].n
  BY DEF Faithful, Numbered
<1>5. \A a \in 1..Len(env) : Decoded(b, env[a]) \in V
  BY <1>2
<1>. HIDE DEF V, env
<1>. DEFINE Right(i) == /\ Numbered(f[i])
                        /\ \A j \in 1..Len(f[i]) :
                             /\ \E k \in 1..Len(q) : f[i][j] = Arrival(q[k])
                             /\ \E a \in 1..i : f[i][j].n = env[a].n
<1>6. Right(0)
  BY <1>1 DEF Numbered
<1>7. ASSUME NEW k \in Nat, k + 1 <= Len(env), Right(k)  PROVE Right(k + 1)
  <2>1. k \in 0..Len(env) /\ k + 1 \in 1..Len(env) /\ (k + 1) - 1 = k
    BY <1>2, <1>7
  <2>. DEFINE r == f[k]
              s == f[k + 1]
              y == Decoded(b, env[k + 1])
  <2>2. s = IF Decodable(b, env[k + 1]) THEN Append(r, y) ELSE r
    BY <1>1, <2>1
  <2>3. r \in Seq(V) /\ y \in V
    BY <1>1, <1>5, <2>1
  <2>4. Numbered(r)
    BY <1>7
  <2>5. /\ \A j \in 1..Len(r) : \E l \in 1..Len(q) : r[j] = Arrival(q[l])
        /\ \A j \in 1..Len(r) : \E a \in 1..k : r[j].n = env[a].n
    BY <1>7
  <2>6. \A a \in 1..k : a \in 1..(k + 1) /\ a \in 1..Len(env) /\ a < k + 1
    BY <1>2, <2>1
  <2>7. CASE ~Decodable(b, env[k + 1])
    <3>1. s = r
      BY <2>2, <2>7
    <3>. HIDE DEF r, s, y
    <3>2. \A j \in 1..Len(s) : /\ \E l \in 1..Len(q) : s[j] = Arrival(q[l])
                               /\ \E a \in 1..(k + 1) : s[j].n = env[a].n
      BY <2>5, <2>6, <3>1
    <3>. QED  BY <2>4, <3>1, <3>2 DEF s
  <2>8. CASE Decodable(b, env[k + 1])
    <3>1. s = Append(r, y)
      BY <2>2, <2>8
    <3>2. PICK l \in 1..Len(q) : y = Arrival(q[l]) /\ y.n = env[k + 1].n
      BY <1>3, <2>1, <2>8
    <3>3. k + 1 \in 1..(k + 1)
      BY <2>1
    <3>. HIDE DEF r, s, y
    <3>4. Len(s) = Len(r) + 1 /\ Len(r) \in Nat /\ s[Len(r) + 1] = y /\ \A j \in 1..Len(r) : s[j] = r[j]
      BY <2>3, <3>1
    <3>5. ASSUME NEW j \in 1..Len(s)
          PROVE  /\ \E p \in 1..Len(q) : s[j] = Arrival(q[p])
                 /\ \E a \in 1..(k + 1) : s[j].n = env[a].n
      <4>1. j \in 1..Len(r) \/ j = Len(r) + 1
        BY <3>4
      <4>2. CASE j \in 1..Len(r)
        <5>1. s[j] = r[j]
          BY <3>4, <4>2
        <5>. QED  BY <2>5, <2>6, <4>2, <5>1
      <4>3. CASE j = Len(r) + 1
        BY <3>2, <3>3, <3>4, <4>3
      <4>. QED  BY <4>1, <4>2, <4>3
    <3>6. Numbered(s)
      <4>1. \A j \in 1..Len(r) : r[j].n < y.n
        <5>. SUFFICES ASSUME NEW j \in 1..Len(r) PROVE r[j].n < y.n
          OBVIOUS
        <5>1. PICK a \in 1..k : r[j].n = env[a].n
          BY <2>5
        <5>2. env[a].n < env[k + 1].n
          BY <1>4, <2>1, <2>6
        <5>. QED  BY <3>2, <5>1, <5>2
      <4>2. Numbered(Append(r, y))
        BY <2>3, <2>4, <4>1, NumberedAppend
      <4>. QED  BY <3>1, <4>2
    <3>. QED  BY <3>5, <3>6 DEF s
  <2>. QED  BY <2>7, <2>8
<1>8. Right(Len(env))
  <2>. DEFINE W == {i \in Nat : i <= Len(env) => Right(i)}
  <2>. HIDE DEF Right
  <2>1. 0 \in W
    BY <1>6
  <2>2. ASSUME NEW k \in W PROVE k + 1 \in W
    BY <1>2, <1>7
  <2>3. Nat \subseteq W
    <3>. HIDE DEF W
    <3>. QED BY <2>1, <2>2, Induction
  <2>. QED  BY <1>2, <2>3
<1>. DEFINE out == Decode(b)
<1>9. out \in Seq(V) /\ Numbered(out) /\ Arrived(q, out) /\ NumbersOf(env, out)
  <2>1. out = f[Len(env)] /\ f[Len(env)] \in Seq(V)
    BY <1>1, <1>2
  <2>. HIDE DEF out
  <2>. QED  BY <1>8, <2>1 DEF Arrived, NumbersOf
<1>. HIDE DEF out
<1>10. \A i \in 1..Len(out) : out[i] \in Arrivals
  <2>. SUFFICES ASSUME NEW i \in 1..Len(out) PROVE out[i] \in Arrivals
    OBVIOUS
  <2>1. PICK k \in 1..Len(q) : out[i] = Arrival(q[k])
    BY <1>9 DEF Arrived
  <2>2. q[k] \in Sent
    OBVIOUS
  <2>. DEFINE m == q[k]
  <2>3. /\ m.n \in Nat /\ m.target \in Targets /\ m.sender \in Senders /\ m.type \in Types
    BY <2>2 DEF Sent
  <2>. HIDE DEF m
  <2>4. Arrival(m) \in Arrivals
    BY <2>3 DEF Arrival, DeserializeAndDeliver, Arrivals, Contents
  <2>. QED  BY <2>1, <2>4 DEF m
<1>11. out \in Seq(Arrivals)
  BY <1>9, <1>10, Retype
<1>. QED  BY <1>9, <1>11 DEF out, env

-----------------------------------------------------------------------------
(* Where things come from                                                   *)

(* A list that comes from s comes from any list s comes from.               *)
LEMMA AmongFaithful ==
    ASSUME NEW q, NEW s, NEW b, Among(q, s), Faithful(s, b)
    PROVE  Faithful(q, b)
  BY DEF Among, Faithful

(* The same of what is to arrive.                                           *)
LEMMA AmongArrived ==
    ASSUME NEW q, NEW s, NEW d, Among(q, s), Arrived(s, d)
    PROVE  Arrived(q, d)
  BY DEF Among, Arrived

(* What is below the messages is below the envelopes that stand for them.   *)
LEMMA BelowFaithful ==
    ASSUME NEW d, NEW t, NEW b, Below(d, t), Faithful(t, b)
    PROVE  Below(d, b.envelopes)
<1>1. ASSUME NEW i \in 1..Len(d), NEW a \in 1..Len(b.envelopes)
      PROVE  d[i].n < b.envelopes[a].n
  <2>1. PICK k \in 1..Len(t) : Carries(b, b.envelopes[a], t[k])
    BY DEF Faithful
  <2>2. b.envelopes[a].n = t[k].n
    BY <2>1 DEF Carries
  <2>. QED  BY <2>2 DEF Below
<1>. QED  BY <1>1 DEF Below

(* What is below, or above, the envelopes is so for what is read from them. *)
LEMMA BelowNumbers ==
    ASSUME NEW d, NEW t, NEW s, NumbersOf(t, s)
    PROVE  (Below(d, t) => Below(d, s)) /\ (Below(t, d) => Below(s, d))
<1>1. ASSUME Below(d, t), NEW i \in 1..Len(d), NEW j \in 1..Len(s)  PROVE d[i].n < s[j].n
  <2>1. PICK a \in 1..Len(t) : s[j].n = t[a].n
    BY DEF NumbersOf
  <2>. QED  BY <1>1, <2>1 DEF Below
<1>2. ASSUME Below(t, d), NEW i \in 1..Len(s), NEW j \in 1..Len(d)  PROVE s[i].n < d[j].n
  <2>1. PICK a \in 1..Len(t) : s[i].n = t[a].n
    BY DEF NumbersOf
  <2>. QED  BY <1>2, <2>1 DEF Below
<1>. QED  BY <1>1, <1>2 DEF Below

(* A history whose entries carry their places as numbers.                   *)
History(q) == q \in Seq(Sent) /\ \A i \in 1..Len(q) : q[i].n = i

(* What comes from the history has a number in it.                          *)
LEMMA OldNumbers ==
    ASSUME NEW q, History(q)
    PROVE  /\ \A s : Among(q, s) => \A j \in 1..Len(s) : s[j].n \in 1..Len(q)
           /\ \A b : Faithful(q, b) => \A a \in 1..Len(b.envelopes) : b.envelopes[a].n \in 1..Len(q)
           /\ \A d : Arrived(q, d) => \A j \in 1..Len(d) : d[j].n \in 1..Len(q)
<1>1. ASSUME NEW s, Among(q, s), NEW j \in 1..Len(s)  PROVE s[j].n \in 1..Len(q)
  BY <1>1 DEF Among, History
<1>2. ASSUME NEW b, Faithful(q, b), NEW a \in 1..Len(b.envelopes)
      PROVE  b.envelopes[a].n \in 1..Len(q)
  BY <1>2 DEF Faithful, History, Carries
<1>3. ASSUME NEW d, Arrived(q, d), NEW j \in 1..Len(d)  PROVE d[j].n \in 1..Len(q)
  <2>1. PICK k \in 1..Len(q) : d[j] = Arrival(q[k])
    BY <1>3 DEF Arrived
  <2>2. d[j].n = q[k].n
    BY <2>1 DEF Arrival, DeserializeAndDeliver
  <2>. QED  BY <2>2 DEF History
<1>. QED  BY <1>1, <1>2, <1>3

(* A message that is handed to the writer gets the next number, and what    *)
(* came from the history still does.                                        *)
LEMMA HistoryGrows ==
    ASSUME NEW q, History(q), NEW m \in Sent, m.n = Len(q) + 1
    PROVE  History(Append(q, m)) /\ Among(Append(q, m), q)
<1>. DEFINE u == Append(q, m)
<1>1. q \in Seq(Sent) /\ Len(q) \in Nat /\ \A i \in 1..Len(q) : q[i].n = i
  BY DEF History
<1>2. /\ u \in Seq(Sent) /\ Len(u) = Len(q) + 1 /\ u[Len(q) + 1] = m
      /\ \A i \in 1..Len(q) : u[i] = q[i]
  BY <1>1
<1>. HIDE DEF u
<1>3. \A i \in 1..Len(u) : i \in 1..Len(q) \/ i = Len(q) + 1
  BY <1>1, <1>2
<1>4. \A i \in 1..Len(q) : i \in 1..Len(u)
  BY <1>1, <1>2
<1>5. History(u)
  BY <1>1, <1>2, <1>3 DEF History
<1>6. Among(u, q)
  BY <1>2, <1>4 DEF Among
<1>. QED  BY <1>5, <1>6 DEF u

(* The new message goes behind what waits: above everything there is.       *)
LEMMA QueueGrows ==
    ASSUME NEW q, History(q), NEW m \in Sent, m.n = Len(q) + 1,
           NEW s \in Seq(Sent), Among(q, s), Numbered(s)
    PROVE  /\ Append(s, m) \in Seq(Sent)
           /\ Among(Append(q, m), Append(s, m)) /\ Numbered(Append(s, m))
           /\ \A d : (\A i \in 1..Len(d) : d[i].n \in 1..Len(q)) /\ Below(d, s)
                     => Below(d, Append(s, m))
<1>. DEFINE u == Append(q, m)
            t == Append(s, m)
<1>1. q \in Seq(Sent) /\ Len(q) \in Nat /\ Len(s) \in Nat
  BY DEF History
<1>2. /\ u \in Seq(Sent) /\ Len(u) = Len(q) + 1 /\ u[Len(q) + 1] = m
      /\ \A i \in 1..Len(q) : u[i] = q[i]
  BY <1>1
<1>3. /\ t \in Seq(Sent) /\ Len(t) = Len(s) + 1 /\ t[Len(s) + 1] = m
      /\ \A i \in 1..Len(s) : t[i] = s[i]
  BY <1>1
<1>4. Numbered(t)
  <2>1. \A i \in 1..Len(s) : s[i].n < m.n
    <3>1. \A i \in 1..Len(s) : s[i].n \in 1..Len(q)
      BY OldNumbers
    <3>. QED  BY <1>1, <3>1
  <2>. QED  BY <2>1, NumberedAppend
<1>. HIDE DEF u, t
<1>5. \A i \in 1..Len(t) : i \in 1..Len(s) \/ i = Len(s) + 1
  BY <1>1, <1>3
<1>6. Len(q) + 1 \in 1..Len(u) /\ \A i \in 1..Len(q) : i \in 1..Len(u)
  BY <1>1, <1>2
<1>7. Among(u, t)
  <2>1. ASSUME NEW j \in 1..Len(t)  PROVE \E k \in 1..Len(u) : t[j] = u[k]
    <3>1. CASE j \in 1..Len(s)
      <4>1. PICK k \in 1..Len(q) : s[j] = q[k]
        BY <3>1 DEF Among
      <4>. QED  BY <1>2, <1>3, <1>6, <3>1, <4>1
    <3>2. CASE j = Len(s) + 1
      BY <1>2, <1>3, <1>6, <3>2
    <3>. QED  BY <1>5, <3>1, <3>2
  <2>. QED  BY <2>1 DEF Among
<1>8. ASSUME NEW d, \A i \in 1..Len(d) : d[i].n \in 1..Len(q), Below(d, s)
      PROVE  Below(d, t)
  <2>1. ASSUME NEW i \in 1..Len(d), NEW j \in 1..Len(t)  PROVE d[i].n < t[j].n
    <3>1. CASE j \in 1..Len(s)
      BY <1>3, <1>8, <3>1 DEF Below
    <3>2. CASE j = Len(s) + 1
      BY <1>1, <1>3, <1>8, <3>2
    <3>. QED  BY <1>5, <3>1, <3>2
  <2>. QED  BY <2>1 DEF Below
<1>. QED  BY <1>3, <1>4, <1>7, <1>8 DEF u, t

-----------------------------------------------------------------------------
(* The channel                                                              *)

(* The part of the state that messages pass through.                        *)
path == <<queue, queued, wire, delivered>>

(* The inductive invariant of the channel.                                  *)
ChannelInv == OriginInv /\ OrderInv

(* Nothing is on its way at first.                                          *)
LEMMA InitInv == Init => ChannelInv
<1>. SUFFICES ASSUME Init PROVE ChannelInv
  OBVIOUS
<1>1. queue = <<>> /\ queued = <<>> /\ wire = <<>> /\ delivered = <<>>
  BY DEF Init
<1>. QED  BY <1>1 DEF ChannelInv, OriginInv, OrderInv, Among, Arrived, Numbered, Below

(* Steps that pass no message on change nothing of this.                    *)
LEMMA PathStutters ==
    ASSUME ChannelInv, UNCHANGED path
    PROVE  ChannelInv'
<1>1. queue' = queue /\ queued' = queued /\ wire' = wire /\ delivered' = delivered
  BY DEF path
<1>. QED  BY <1>1 DEF ChannelInv, OriginInv, OrderInv

(* RemoteDeliver numbers its message behind all others; the batch it may    *)
(* complete goes to the wire, is dropped, or is lost with the stream.       *)
LEMMA DeliverInv ==
    ASSUME ChannelInv, Deliver
    PROVE  ChannelInv'
<1>1. PICK x \in Messages :
        LET m == [n |-> Len(queued) + 1, target |-> x.target, sender |-> x.sender,
                  type |-> x.type, serializer |-> x.serializer]
        IN  /\ queued' = Append(queued, m)
            /\ IF Len(queue) + 1 >= BatchSize
               THEN SendBatch(Append(queue, m))
               ELSE queue' = Append(queue, m) /\ UNCHANGED <<writer, wire>>
  BY DEF Deliver
<1>. DEFINE m == [n |-> Len(queued) + 1, target |-> x.target, sender |-> x.sender,
                  type |-> x.type, serializer |-> x.serializer]
            q == queued
            t == Append(queue, m)
<1>2. queued' = Append(queued, m) /\ delivered' = delivered
  BY <1>1 DEF Deliver
<1>3. \/ queue' = t /\ wire' = wire
      \/ queue' = <<>> /\ wire' = wire
      \/ queue' = <<>> /\ wire' = Append(wire, Encode(t))
  <2>1. \/ SendBatch(t)
        \/ queue' = t /\ UNCHANGED <<writer, wire>>
    BY <1>1
  <2>. HIDE DEF t
  <2>2. SendBatch(t) => queue' = <<>> /\ (wire' = wire \/ wire' = Append(wire, Encode(t)))
    BY DEF SendBatch, SendMessageBatch
  <2>. QED  BY <2>1, <2>2
<1>4. /\ History(q) /\ queue \in Seq(Sent) /\ Among(q, queue)
      /\ wire \in Seq(Batches) /\ \A i \in 1..Len(wire) : Faithful(q, wire[i])
      /\ delivered \in Seq(Arrivals) /\ Arrived(q, delivered)
  BY DEF ChannelInv, OriginInv, History
<1>5. m \in Sent /\ m.n = Len(q) + 1
  <2>1. Len(queued) + 1 \in Nat
    BY <1>4 DEF History
  <2>2. x.target \in Targets /\ x.sender \in Senders /\ x.type \in Types
        /\ x.serializer \in Serializers
    BY DEF Targets, Senders, Types, Serializers
  <2>. QED  BY <2>1, <2>2 DEF Sent
<1>6. History(queued') /\ Among(queued', q)
  <2>. HIDE DEF m
  <2>. QED  BY <1>2, <1>4, <1>5, HistoryGrows
<1>7. Numbered(queue) /\ Numbered(delivered)
  BY DEF ChannelInv, OrderInv
<1>8. /\ t \in Seq(Sent) /\ Among(queued', t) /\ Numbered(t)
      /\ \A d : (\A i \in 1..Len(d) : d[i].n \in 1..Len(q)) /\ Below(d, queue) => Below(d, t)
  <2>. HIDE DEF m
  <2>. QED  BY <1>2, <1>4, <1>5, <1>7, QueueGrows
<1>9. Below(delivered, t) /\ \A i \in 1..Len(wire) : Below(wire[i].envelopes, t)
  <2>1. Below(delivered, queue) /\ \A i \in 1..Len(wire) : Below(wire[i].envelopes, queue)
    BY DEF ChannelInv, OrderInv
  <2>2. \A j \in 1..Len(delivered) : delivered[j].n \in 1..Len(q)
    BY <1>4, OldNumbers
  <2>3. \A i \in 1..Len(wire) :
           \A a \in 1..Len(wire[i].envelopes) : wire[i].envelopes[a].n \in 1..Len(q)
    BY <1>4, OldNumbers
  <2>. HIDE DEF t
  <2>. QED  BY <1>8, <2>1, <2>2, <2>3
<1>10. /\ \A i \in 1..Len(wire) : Faithful(queued', wire[i])
       /\ Arrived(queued', delivered)
  BY <1>4, <1>6, AmongFaithful, AmongArrived
<1>11. /\ \A i \in 1..Len(wire) : Below(delivered, wire[i].envelopes)
       /\ \A i, j \in 1..Len(wire) : i < j => Below(wire[i].envelopes, wire[j].envelopes)
  BY DEF ChannelInv, OrderInv
<1>12. queued' \in Seq(Sent) /\ \A i \in 1..Len(queued') : queued'[i].n = i
  BY <1>6 DEF History
<1>13. /\ queue' \in Seq(Sent) /\ Among(queued', queue') /\ Numbered(queue')
       /\ Below(delivered, queue') /\ \A i \in 1..Len(wire) : Below(wire[i].envelopes, queue')
  <2>1. CASE queue' = t
    <3>. HIDE DEF t
    <3>. QED  BY <2>1, <1>8, <1>9
  <2>2. CASE queue' = <<>>
    BY <2>2 DEF Among, Numbered, Below
  <2>. QED  BY <1>3, <2>1, <2>2
<1>14. CASE wire' = wire
  BY <1>2, <1>4, <1>7, <1>10, <1>11, <1>12, <1>13, <1>14 DEF ChannelInv, OriginInv, OrderInv
<1>15. CASE queue' = <<>> /\ wire' = Append(wire, Encode(t))
  <2>. DEFINE b == Encode(t)
              w == Append(wire, b)
  <2>1. b \in Batches /\ Faithful(t, b)
    <3>. HIDE DEF t
    <3>. QED  BY <1>8, EncodeFaithful
  <2>2. wire' = w
    BY <1>15
  <2>. HIDE DEF t, b
  <2>3. Faithful(queued', b)
    BY <1>8, <2>1, AmongFaithful
  <2>4. Below(delivered, b.envelopes) /\ \A i \in 1..Len(wire) : Below(wire[i].envelopes, b.envelopes)
    BY <1>9, <2>1, BelowFaithful
  <2>5. /\ w \in Seq(Batches) /\ Len(wire) \in Nat /\ Len(w) = Len(wire) + 1
        /\ w[Len(wire) + 1] = b /\ \A i \in 1..Len(wire) : w[i] = wire[i]
    BY <1>4, <2>1
  <2>. HIDE DEF w
  <2>6. \A i \in 1..Len(w) : i \in 1..Len(wire) \/ i = Len(wire) + 1
    BY <2>5
  <2>7. \A i \in 1..Len(w) : Faithful(queued', w[i])
    BY <1>10, <2>3, <2>5, <2>6
  <2>8. \A i \in 1..Len(w) : Below(delivered, w[i].envelopes) /\ Below(w[i].envelopes, queue')
    <3>1. \A s : Below(s, queue')
      BY <1>15 DEF Below
    <3>. QED  BY <1>11, <2>4, <2>5, <2>6, <3>1
  <2>9. \A i, j \in 1..Len(w) : i < j => Below(w[i].envelopes, w[j].envelopes)
    <3>. SUFFICES ASSUME NEW i \in 1..Len(w), NEW j \in 1..Len(w), i < j
                  PROVE  Below(w[i].envelopes, w[j].envelopes)
      OBVIOUS
    <3>1. i \in 1..Len(wire)
      BY <2>5
    <3>2. CASE j \in 1..Len(wire)
      BY <1>11, <2>5, <3>1, <3>2
    <3>3. CASE j = Len(wire) + 1
      BY <2>4, <2>5, <3>1, <3>3
    <3>. QED  BY <2>6, <3>2, <3>3
  <2>. QED  BY <1>2, <1>4, <1>7, <1>10, <1>12, <1>13, <2>2, <2>5, <2>7, <2>8, <2>9
            DEF ChannelInv, OriginInv, OrderInv
<1>. QED  BY <1>3, <1>14, <1>15

(* HandleDisconnect drops the queue.                                        *)
LEMMA HandleDisconnectInv ==
    ASSUME ChannelInv, HandleDisconnect
    PROVE  ChannelInv'
<1>1. queue' = <<>> /\ queued' = queued /\ wire' = wire /\ delivered' = delivered
  BY DEF HandleDisconnect, peer
<1>2. queue' \in Seq(Sent) /\ Among(queued, queue') /\ Numbered(queue') /\ \A s : Below(s, queue')
  BY <1>1 DEF Among, Numbered, Below
<1>. QED  BY <1>1, <1>2 DEF ChannelInv, OriginInv, OrderInv

(* A stream that breaks keeps the first batches on the wire.                *)
LEMMA StreamBreaksInv ==
    ASSUME ChannelInv, StreamBreaks
    PROVE  ChannelInv'
<1>1. queue' = queue /\ queued' = queued /\ delivered' = delivered
  BY DEF StreamBreaks
<1>2. PICK kept \in 0..Len(wire) : wire' = SubSeq(wire, 1, kept)
  BY DEF StreamBreaks
<1>3. wire \in Seq(Batches) /\ Len(wire) \in Nat
  BY DEF ChannelInv, OriginInv
<1>4. /\ wire' \in Seq(Batches) /\ Len(wire') = kept
      /\ \A i \in 1..kept : wire'[i] = wire[i] /\ i \in 1..Len(wire)
  <2>1. kept \in Nat /\ kept <= Len(wire)
    BY <1>3
  <2>2. wire' \in Seq(Batches) /\ Len(wire') = kept
    BY <1>2, <1>3, <2>1
  <2>3. \A i \in 1..kept : wire'[i] = wire[i]
    BY <1>2, <1>3, <2>1
  <2>. QED  BY <1>3, <2>1, <2>2, <2>3
<1>. QED  BY <1>1, <1>4 DEF ChannelInv, OriginInv, OrderInv

(* The peer reads the oldest batch and delivers what it can decode.         *)
LEMMA HandleMessageBatchInv ==
    ASSUME ChannelInv, HandleMessageBatch
    PROVE  ChannelInv'
<1>. DEFINE b == Head(wire)
            w == Tail(wire)
            d == Decode(b)
            l == delivered \o d
<1>1. /\ queue' = queue /\ queued' = queued /\ wire' = w /\ delivered' = l /\ wire # <<>>
  BY DEF HandleMessageBatch
<1>2. wire \in Seq(Batches) /\ delivered \in Seq(Arrivals) /\ queued \in Seq(Sent)
  BY DEF ChannelInv, OriginInv
<1>3. /\ b = wire[1] /\ 1 \in 1..Len(wire) /\ w \in Seq(Batches) /\ Len(w) = Len(wire) - 1
      /\ \A i \in 1..Len(w) : w[i] = wire[i + 1] /\ i + 1 \in 1..Len(wire) /\ 1 < i + 1
  BY <1>1, <1>2
<1>4. b \in Batches /\ Faithful(queued, b)
  BY <1>2, <1>3 DEF ChannelInv, OriginInv
<1>. HIDE DEF b
<1>5. d \in Seq(Arrivals) /\ Arrived(queued, d) /\ Numbered(d) /\ NumbersOf(b.envelopes, d)
  BY <1>2, <1>4, DecodeFaithful
<1>. HIDE DEF d, w
<1>6. /\ Below(delivered, b.envelopes) /\ Below(b.envelopes, queue)
      /\ \A i \in 1..Len(w) : /\ Below(b.envelopes, w[i].envelopes)
                              /\ Below(delivered, w[i].envelopes)
                              /\ Below(w[i].envelopes, queue)
                              /\ Faithful(queued, w[i])
  BY <1>3 DEF ChannelInv, OriginInv, OrderInv
<1>7. \A i, j \in 1..Len(w) : i < j => Below(w[i].envelopes, w[j].envelopes)
  <2>. SUFFICES ASSUME NEW i \in 1..Len(w), NEW j \in 1..Len(w), i < j
                PROVE  Below(w[i].envelopes, w[j].envelopes)
    OBVIOUS
  <2>1. i + 1 < j + 1
    OBVIOUS
  <2>2. i + 1 \in 1..Len(wire) /\ j + 1 \in 1..Len(wire)
    BY <1>3
  <2>. QED  BY <1>3, <2>1, <2>2 DEF ChannelInv, OrderInv
<1>8. /\ Below(delivered, d) /\ Below(d, queue)
      /\ \A i \in 1..Len(w) : Below(d, w[i].envelopes)
  BY <1>5, <1>6, BelowNumbers
<1>9. /\ l \in Seq(Arrivals) /\ Len(l) = Len(delivered) + Len(d)
      /\ Len(delivered) \in Nat /\ Len(d) \in Nat
      /\ \A i \in 1..Len(delivered) : l[i] = delivered[i]
      /\ \A i \in 1..Len(d) : l[Len(delivered) + i] = d[i]
  BY <1>2, <1>5
<1>. HIDE DEF l
<1>10. \A i \in 1..Len(l) : \/ i \in 1..Len(delivered)
                            \/ i - Len(delivered) \in 1..Len(d) /\ l[i] = d[i - Len(delivered)]
  <2>. SUFFICES ASSUME NEW i \in 1..Len(l), i \notin 1..Len(delivered)
                PROVE  i - Len(delivered) \in 1..Len(d) /\ l[i] = d[i - Len(delivered)]
    OBVIOUS
  <2>1. i - Len(delivered) \in 1..Len(d) /\ Len(delivered) + (i - Len(delivered)) = i
    BY <1>9
  <2>. QED  BY <1>9, <2>1
<1>11. \A s : Below(delivered, s) /\ Below(d, s) => Below(l, s)
  <2>. SUFFICES ASSUME NEW s, Below(delivered, s), Below(d, s),
                       NEW i \in 1..Len(l), NEW j \in 1..Len(s)
                PROVE  l[i].n < s[j].n
    BY DEF Below
  <2>1. CASE i \in 1..Len(delivered)
    BY <1>9, <2>1 DEF Below
  <2>2. CASE i - Len(delivered) \in 1..Len(d) /\ l[i] = d[i - Len(delivered)]
    BY <2>2 DEF Below
  <2>. QED  BY <1>10, <2>1, <2>2
<1>12. Arrived(queued, l)
  <2>1. Arrived(queued, delivered)
    BY DEF ChannelInv, OriginInv
  <2>2. ASSUME NEW i \in 1..Len(l)  PROVE \E k \in 1..Len(queued) : l[i] = Arrival(queued[k])
    <3>1. CASE i \in 1..Len(delivered)
      BY <1>9, <2>1, <3>1 DEF Arrived
    <3>2. CASE i - Len(delivered) \in 1..Len(d) /\ l[i] = d[i - Len(delivered)]
      BY <1>5, <3>2 DEF Arrived
    <3>. QED  BY <1>10, <3>1, <3>2
  <2>. QED  BY <2>2 DEF Arrived
<1>13. Numbered(l)
  <2>1. Numbered(delivered)
    BY DEF ChannelInv, OrderInv
  <2>. SUFFICES ASSUME NEW i \in 1..Len(l), NEW j \in 1..Len(l), i < j
                PROVE  l[i].n < l[j].n
    BY DEF Numbered
  <2>. DEFINE p == Len(delivered)
  <2>2. CASE i \in 1..p /\ j \in 1..p
    BY <1>9, <2>1, <2>2 DEF Numbered
  <2>3. CASE i \in 1..p /\ j \notin 1..p
    BY <1>8, <1>9, <1>10, <2>3 DEF Below
  <2>4. CASE i \notin 1..p
    <3>1. j \notin 1..p
      BY <1>9, <2>4
    <3>2. i - p < j - p
      BY <1>9
    <3>. QED  BY <1>5, <1>10, <2>4, <3>1, <3>2 DEF Numbered
  <2>. QED  BY <2>2, <2>3, <2>4
<1>14. /\ queued \in Seq(Sent) /\ (\A i \in 1..Len(queued) : queued[i].n = i)
       /\ queue \in Seq(Sent) /\ Among(queued, queue)
       /\ Numbered(queue) /\ Below(delivered, queue)
  BY DEF ChannelInv, OriginInv, OrderInv
<1>15. Below(l, queue) /\ \A i \in 1..Len(w) : Below(l, w[i].envelopes)
  BY <1>6, <1>8, <1>11, <1>14
<1>. QED  BY <1>1, <1>3, <1>6, <1>7, <1>9, <1>12, <1>13, <1>14, <1>15 DEF ChannelInv, OriginInv, OrderInv

(* Every step keeps it.                                                     *)
LEMMA NextInv ==
    ASSUME ChannelInv, [Next]_vars
    PROVE  ChannelInv'
<1>1. CASE Deliver
  BY <1>1, DeliverInv
<1>2. CASE HandleDisconnect
  BY <1>2, HandleDisconnectInv
<1>3. CASE StreamBreaks
  BY <1>3, StreamBreaksInv
<1>4. CASE HandleMessageBatch
  BY <1>4, HandleMessageBatchInv
<1>5. CASE UNCHANGED path
  BY <1>5, PathStutters
<1>6. CASE ConnectFails \/ ConnectRefused \/ ConnectSucceeds \/ StoreConnected \/ Disconnect
           \/ CloseClientConn \/ ReadDisconnectRequest \/ ReceiveLoop
  BY <1>5, <1>6 DEF path, peer, link, ConnectFails, ConnectRefused, ConnectSucceeds, StoreConnected,
       Disconnect, CloseClientConn, ReadDisconnectRequest, ReceiveLoop, ReadFails, ReadFreed, StoreLost,
       PublishLost, PublishRequest
<1>7. CASE ReceiveReturns \/ StopGrpcServer \/ ServerStopped \/ Block
  BY <1>5, <1>7 DEF path, ReceiveReturns, StopGrpcServer, ServerStopped, Block
<1>8. CASE UNCHANGED vars
  BY <1>5, <1>8 DEF path, vars
<1>. QED  BY <1>1, <1>2, <1>3, <1>4, <1>6, <1>7, <1>8 DEF Next, Serve

(* What arrives from the history, with growing numbers, is intact.          *)
LEMMA InvIntact == ChannelInv => DeliveredIntact
<1>. SUFFICES ASSUME ChannelInv, NEW i \in DOMAIN delivered
              PROVE  LET d == delivered[i]
                         q == queued[d.n]
                     IN  /\ d.target = q.target /\ d.message.type = q.type
                         /\ q.type \notin SystemMessages => d.message.envelope = q.sender
                         /\ i > 1 => delivered[i - 1].n < d.n
  BY DEF DeliveredIntact
<1>1. delivered \in Seq(Arrivals) /\ Arrived(queued, delivered) /\ Numbered(delivered)
      /\ \A k \in 1..Len(queued) : queued[k].n = k
  BY DEF ChannelInv, OriginInv, OrderInv
<1>2. i \in 1..Len(delivered) /\ (i > 1 => i - 1 \in 1..Len(delivered) /\ i - 1 < i)
  BY <1>1
<1>3. PICK k \in 1..Len(queued) : delivered[i] = Arrival(queued[k])
  BY <1>1, <1>2 DEF Arrived
<1>4. delivered[i].n = k
  BY <1>1, <1>3 DEF Arrival, DeserializeAndDeliver
<1>5. i > 1 => delivered[i - 1].n < delivered[i].n
  BY <1>1, <1>2 DEF Numbered
<1>6. LET q == queued[k]
      IN  /\ delivered[i].target = q.target /\ delivered[i].message.type = q.type
          /\ q.type \notin SystemMessages => delivered[i].message.envelope = q.sender
  BY <1>3 DEF Arrival, DeserializeAndDeliver, SystemMessages
<1>. QED  BY <1>4, <1>5, <1>6

(* For every set of messages, whichever serializers are registered and      *)
(* whatever the batch size: what is on the wire and what has arrived comes  *)
(* from the history of RemoteDeliver, in its order.                         *)
THEOREM ChannelSafe == Spec => []ChannelInv
<1>1. ChannelInv /\ [Next]_vars => ChannelInv'
  BY NextInv
<1>. QED  BY <1>1, InitInv, PTL DEF Spec

(* What EndpointReader passes on to the peer's actors is what was handed to *)
(* the EndpointWriter: the same target and type, for a user message the     *)
(* same sender, inside the envelope that is its message, in the same order  *)
(* and each message at most once, through the tables of SendMessageBatch,   *)
(* skipped messages, broken streams and dropped queues.                     *)
THEOREM ChannelIsFaithful == Spec => []DeliveredIntact
  BY ChannelSafe, InvIntact, PTL

-----------------------------------------------------------------------------
(* The shutdown of the peer's server                                        *)

(* No call of Receive reads once the server is down.                        *)
Quiet == server = "down" => handler # "reading"

(* Only a server that is up takes a stream, and it is down only after its   *)
(* calls have returned.                                                     *)
LEMMA QuietStep ==
    ASSUME Quiet, [Next]_vars
    PROVE  Quiet'
<1>1. CASE ConnectRefused \/ ConnectSucceeds
  BY <1>1 DEF Quiet, ConnectRefused, ConnectSucceeds
<1>2. CASE ReceiveReturns \/ StopGrpcServer \/ ServerStopped
  BY <1>2 DEF Quiet, ReceiveReturns, StopGrpcServer, ServerStopped
<1>3. CASE UNCHANGED <<handler, server>>
  BY <1>3 DEF Quiet
<1>4. CASE ConnectFails \/ StoreConnected \/ Deliver \/ Disconnect \/ CloseClientConn
           \/ HandleDisconnect \/ ReadDisconnectRequest \/ ReceiveLoop
  BY <1>3, <1>4 DEF peer, ConnectFails, StoreConnected, Deliver, Disconnect, CloseClientConn,
       HandleDisconnect, ReadDisconnectRequest, ReceiveLoop, ReadFails, ReadFreed, StoreLost, PublishLost,
       PublishRequest
<1>5. CASE HandleMessageBatch \/ StreamBreaks \/ Block \/ UNCHANGED vars
  BY <1>3, <1>5 DEF HandleMessageBatch, StreamBreaks, Block, vars
<1>. QED  BY <1>1, <1>2, <1>4, <1>5 DEF Next, Serve

(* Nothing but a call of Receive that reads delivers anything.              *)
LEMMA OnlyReceiveDelivers ==
    ASSUME [Next]_vars, delivered' # delivered
    PROVE  handler = "reading"
<1>1. CASE ConnectFails \/ ConnectRefused \/ ConnectSucceeds \/ StoreConnected \/ Deliver
           \/ Disconnect \/ CloseClientConn \/ HandleDisconnect \/ ReadDisconnectRequest
           \/ ReceiveLoop
  BY <1>1 DEF peer, ConnectFails, ConnectRefused, ConnectSucceeds, StoreConnected, Deliver,
       Disconnect, CloseClientConn, HandleDisconnect, ReadDisconnectRequest, ReceiveLoop,
       ReadFails, ReadFreed, StoreLost, PublishLost, PublishRequest
<1>2. CASE ReceiveReturns \/ StopGrpcServer \/ ServerStopped \/ StreamBreaks \/ Block
           \/ UNCHANGED vars
  BY <1>2 DEF ReceiveReturns, StopGrpcServer, ServerStopped, StreamBreaks, Block, vars
<1>3. CASE HandleMessageBatch
  BY <1>3 DEF HandleMessageBatch
<1>. QED  BY <1>1, <1>2, <1>3 DEF Next, Serve

(* After Remote::Shutdown of the peer has returned no message reaches an    *)
(* actor there, whatever was still on the wire: the safety half of          *)
(* ShutdownReturns.                                                         *)
THEOREM DownIsQuiet == Spec => QuietAfterShutdown
<1>1. Init => Quiet
  BY DEF Init, Quiet
<1>2. Quiet /\ [Next]_vars => Quiet'
  BY QuietStep
<1>3. Quiet /\ [Next]_vars => [server = "down" => delivered' = delivered]_vars
  BY OnlyReceiveDelivers DEF Quiet
<1>. QED  BY <1>1, <1>2, <1>3, PTL DEF Spec, QuietAfterShutdown
=============================================================================
