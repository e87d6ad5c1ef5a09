---------------------------- MODULE PartsProofs ----------------------------
(***************************************************************************)
(* Machine-checked proofs about the parts that run beside the actors.      *)
(* A step of one part leaves the variables of the others alone, so each    *)
(* proof looks at the steps of its own part only.                          *)
(***************************************************************************)
EXTENDS MCParts, Lists, FiniteSetTheorems, SequenceTheorems, WellFoundedInduction, TLAPS

(* The steps of one part, seen from the whole.                              *)
LEMMA OnePartMoves ==
    ASSUME [Next]_vars
    PROVE  /\ Q!Next \/ UNCHANGED probeVars
           /\ S!Next \/ UNCHANGED supervisionVars
           /\ D!Next \/ UNCHANGED receivingVars
           /\ G!Next \/ UNCHANGED registryVars
           /\ T!Next \/ UNCHANGED timerVars
           /\ R!Next \/ UNCHANGED routerVars
           /\ P!Next \/ UNCHANGED persistenceVars
           /\ H!Next \/ UNCHANGED hubVars
  BY DEF Next, Only, vars

-----------------------------------------------------------------------------
(* Induction and loops                                                      *)

(* A set of numbers has a least element: from well-foundedness, without an  *)
(* operator parameter.                                                      *)
LEMMA Least ==
    ASSUME NEW W \in SUBSET Nat, W # {}
    PROVE  \E n \in W : \A m \in W : n <= m
<1>. DEFINE Rel == OpToRel(<, Nat)
<1>1. IsWellFoundedOn(Rel, Nat)
  BY NatLessThanWellFounded
<1>2. \A m, n \in Nat : <<m, n>> \in Rel <=> m < n
  BY DEF OpToRel
<1>. HIDE DEF Rel
<1>3. PICK n \in W : \A m \in W : ~(<<m, n>> \in Rel)
  BY <1>1, WFMin
<1>4. \A m \in W : m \in Nat
  OBVIOUS
<1>5. ASSUME NEW m \in W PROVE n <= m
  <2>1. m \in Nat /\ n \in Nat /\ ~(m < n)
    BY <1>2, <1>3, <1>4
  <2>. QED  BY <2>1
<1>. QED  BY <1>3, <1>5

(* Induction over the numbers, for a set instead of a predicate.            *)
LEMMA Induction ==
    ASSUME NEW W, 0 \in W, \A n \in W : n + 1 \in W
    PROVE  Nat \subseteq W
<1>. SUFFICES ASSUME Nat \ W # {} PROVE FALSE
  OBVIOUS
<1>1. PICK n \in Nat \ W : \A m \in Nat \ W : n <= m
  BY Least
<1>2. n # 0
  BY <1>1
<1>3. n - 1 \in Nat /\ n - 1 \notin Nat \ W
  BY <1>1, <1>2
<1>4. n - 1 \in W /\ (n - 1) + 1 = n
  BY <1>1, <1>3
<1>. QED  BY <1>1, <1>4

(* f holds the values of a variable that starts as b and becomes g[i] of    *)
(* itself in round i of n.                                                  *)
Loop(f, n, V, b, g) ==
    f \in [0..n -> V] /\ f = [i \in 0..n |-> IF i = 0 THEN b ELSE g[i][f[i - 1]]]

(* Every loop has its values: what a recursive function needs to be one.    *)
LEMMA Recursion ==
    ASSUME NEW n \in Nat, NEW V, NEW b \in V, NEW g \in [1..n -> [V -> V]]
    PROVE  \E f : Loop(f, n, V, b, g)
<1>. DEFINE Good(k) == \E f : Loop(f, k, V, b, g)
            W == {k \in Nat : k <= n => Good(k)}
<1>1. 0 \in W
  <2>. DEFINE f == [i \in 0..0 |-> b]
  <2>1. f \in [0..0 -> V] /\ f = [i \in 0..0 |-> IF i = 0 THEN b ELSE g[i][f[i - 1]]]
    OBVIOUS
  <2>. QED  BY <2>1 DEF Loop
<1>2. ASSUME NEW k \in W PROVE k + 1 \in W
  <2>. SUFFICES ASSUME k + 1 <= n PROVE Good(k + 1)
    <3>. HIDE DEF Good
    <3>. QED  OBVIOUS
  <2>1. k \in Nat /\ k <= n /\ Good(k)
    <3>. HIDE DEF Good
    <3>1. k \in Nat
      OBVIOUS
    <3>2. k <= n
      BY <3>1
    <3>. QED  BY <3>1, <3>2
  <2>2. PICK f \in [0..k -> V] : f = [i \in 0..k |-> IF i = 0 THEN b ELSE g[i][f[i - 1]]]
    BY <2>1 DEF Loop
  <2>. DEFINE h == [i \in 0..(k + 1) |-> IF i <= k THEN f[i] ELSE g[i][f[i - 1]]]
  <2>3. h \in [0..(k + 1) -> V]
    <3>1. ASSUME NEW i \in 0..(k + 1) PROVE h[i] \in V
      <4>1. CASE i <= k
        BY <2>1, <4>1
      <4>2. CASE i = k + 1
        <5>1. f[i - 1] \in V /\ i \in 1..n
          BY <2>1, <4>2
        <5>2. g[i][f[i - 1]] \in V
          BY <5>1
        <5>. QED  BY <4>2, <5>2, <2>1
      <4>. QED  BY <4>1, <4>2, <2>1
    <3>. QED  BY <3>1
  <2>4. ASSUME NEW i \in 0..(k + 1) PROVE h[i] = IF i = 0 THEN b ELSE g[i][h[i - 1]]
    <3>1. CASE i <= k
      <4>1. h[i] = f[i] /\ (i # 0 => h[i - 1] = f[i - 1])
        BY <2>1, <3>1
      <4>2. f[i] = IF i = 0 THEN b ELSE g[i][f[i - 1]]
        BY <2>1, <2>2, <3>1
      <4>. QED  BY <4>1, <4>2
    <3>2. CASE i = k + 1
      BY <2>1, <3>2
    <3>. QED  BY <2>1, <3>1, <3>2
  <2>5. h = [i \in 0..(k + 1) |-> IF i = 0 THEN b ELSE g[i][h[i - 1]]]
    BY <2>4
  <2>. HIDE DEF h
  <2>. QED  BY <2>3, <2>5 DEF Loop
<1>3. n \in W
  <2>. HIDE DEF W
  <2>. QED  BY <1>1, <1>2, Induction
<1>. QED  BY <1>3

(* f holds what the pass of Without over q has kept after each entry.       *)
Kept(f, V, q, x) ==
    /\ f \in [0..Len(q) -> Seq(V)]
    /\ f[0] = <<>>
    /\ \A i \in 1..Len(q) : f[i] = IF q[i] = x THEN f[i - 1] ELSE Append(f[i - 1], q[i])
    /\ Without(q, x) = f[Len(q)]

(* The recursive definition of Without is such a loop.                      *)
LEMMA WithoutLoop ==
    ASSUME NEW V, NEW q \in Seq(V), NEW x
    PROVE  \E f : Kept(f, V, q, x)
<1>. DEFINE n == Len(q)
            Step(f) == [i \in 0..Len(q) |-> IF i = 0 THEN <<>>
                          ELSE IF q[i] = x THEN f[i - 1] ELSE Append(f[i - 1], q[i])]
            g == [i \in 1..n |-> [v \in Seq(V) |-> IF q[i] = x THEN v ELSE Append(v, q[i])]]
            keep == CHOOSE f : f = Step(f)
<1>1. g \in [1..n -> [Seq(V) -> Seq(V)]] /\ n \in Nat /\ <<>> \in Seq(V)
  OBVIOUS
<1>2. PICK f : Loop(f, n, Seq(V), <<>>, g)
  <2>. HIDE DEF g, n
  <2>. QED  BY <1>1, Recursion
<1>3. f = Step(f)
  <2>1. ASSUME NEW i \in 0..n, i # 0
        PROVE g[i][f[i - 1]] = IF q[i] = x THEN f[i - 1] ELSE Append(f[i - 1], q[i])
    <3>1. i \in 1..n /\ i - 1 \in 0..n
      BY <1>1, <2>1
    <3>2. f[i - 1] \in Seq(V)
      BY <1>2, <3>1 DEF Loop
    <3>. QED  BY <3>1, <3>2
  <2>. QED  BY <1>2, <2>1 DEF Loop
<1>4. keep = Step(keep)
  <2>. HIDE DEF Step
  <2>. QED  BY <1>3
<1>5. Without(q, x) = keep[n]
  BY DEF Without
<1>. HIDE DEF keep
<1>6. /\ keep[0] = <<>>
      /\ \A i \in 1..n : keep[i] = IF q[i] = x THEN keep[i - 1] ELSE Append(keep[i - 1], q[i])
  <2>1. \A i \in 0..n : keep[i] = IF i = 0 THEN <<>>
                                ELSE IF q[i] = x THEN keep[i - 1] ELSE Append(keep[i - 1], q[i])
    BY <1>4
  <2>. HIDE DEF n
  <2>. QED  BY <1>1, <2>1
<1>7. keep \in [0..n -> Seq(V)]
  <2>. DEFINE W == {k \in Nat : k <= n => keep[k] \in Seq(V)}
  <2>1. 0 \in W
    BY <1>1, <1>6
  <2>2. ASSUME NEW k \in W PROVE k + 1 \in W
    <3>1. k \in Nat
      OBVIOUS
    <3>2. CASE k + 1 <= n
      <4>1. k \in 0..n /\ k + 1 \in 1..n /\ (k + 1) - 1 = k
        BY <1>1, <3>1, <3>2
      <4>2. keep[k] \in Seq(V) /\ q[k + 1] \in V
        BY <4>1
      <4>3. keep[k + 1] = IF q[k + 1] = x THEN keep[k] ELSE Append(keep[k], q[k + 1])
        BY <1>6, <4>1
      <4>4. keep[k + 1] \in Seq(V)
        BY <4>2, <4>3
      <4>. QED  BY <3>1, <4>4
    <3>. QED  BY <1>1, <3>1, <3>2
  <2>3. Nat \subseteq W
    <3>. HIDE DEF W
    <3>. QED  BY <2>1, <2>2, Induction
  <2>4. \A i \in 0..n : keep[i] \in Seq(V)
    BY <1>1, <2>3
  <2>. QED  BY <1>1, <1>4, <2>4
<1>. HIDE DEF g, Step
<1>. QED  BY <1>5, <1>6, <1>7 DEF Kept

(* The entries that stay are among the others and as different as before;   *)
(* if there is nothing to remove the list stays as it is.                   *)
LEMMA WithoutKeeps ==
    ASSUME NEW V, NEW q \in Seq(V), NEW x
    PROVE  /\ Without(q, x) \in Seq(V)
           /\ \A j \in 1..Len(Without(q, x)) : 
                 /\ Without(q, x)[j] # x 
                 /\ \E m \in 1..Len(q) : Without(q, x)[j] = q[m]
           /\ (\A i, j \in 1..Len(q) : q[i] = q[j] => i = j)
              => \A i, j \in 1..Len(Without(q, x)) : Without(q, x)[i] = Without(q, x)[j] => i = j
           /\ (\A i \in 1..Len(q) : q[i] # x) => Without(q, x) = q
<1>0. PICK f : Kept(f, V, q, x)
  BY WithoutLoop
<1>1. /\ f \in [0..Len(q) -> Seq(V)]
      /\ f[0] = <<>>
      /\ \A i \in 1..Len(q) : f[i] = IF q[i] = x THEN f[i - 1] ELSE Append(f[i - 1], q[i])
      /\ Without(q, x) = f[Len(q)]
  BY <1>0 DEF Kept
<1>. DEFINE From(i) == \A j \in 1..Len(f[i]) : f[i][j] # x /\ \E m \in 1..i : f[i][j] = q[m]
            One(i) == (\A k, j \in 1..Len(q) : q[k] = q[j] => k = j)
                         => \A k, j \in 1..Len(f[i]) : f[i][k] = f[i][j] => k = j
            All(i) == (\A k \in 1..Len(q) : q[k] # x)
                         => Len(f[i]) = i /\ \A j \in 1..i : f[i][j] = q[j]
<1>2. From(0) /\ One(0) /\ All(0)
  BY <1>1
<1>3. ASSUME NEW k \in Nat, k + 1 <= Len(q), From(k), One(k), All(k)
      PROVE  From(k + 1) /\ One(k + 1) /\ All(k + 1)
  <2>1. k \in Nat
    OBVIOUS
  <2>2. k \in 0..Len(q) /\ k + 1 \in 1..Len(q) /\ (k + 1) - 1 = k
    BY <1>3
  <2>3. From(k) /\ One(k) /\ All(k)
    BY <1>3
  <2>. DEFINE r == f[k]
              s == f[k + 1]
              y == q[k + 1]
  <2>4. s = IF y = x THEN r ELSE Append(r, y)
    BY <1>1, <2>2
  <2>5. r \in Seq(V) /\ s \in Seq(V) /\ y \in V
    BY <1>1, <2>2
  <2>6. CASE y = x
    <3>1. s = r
      BY <2>4, <2>6
    <3>2. From(k + 1)
      <4>1. ASSUME NEW j \in 1..Len(s) PROVE s[j] # x /\ \E m \in 1..(k + 1) : s[j] = q[m]
        <5>1. PICK m \in 1..k : r[j] = q[m]
          BY <2>3, <3>1
        <5>2. m \in 1..(k + 1) /\ s[j] = q[m] /\ s[j] # x
          BY <2>1, <2>3, <3>1, <5>1
        <5>. QED  BY <5>2
      <4>. QED  BY <4>1
    <3>3. One(k + 1)
      BY <2>3, <3>1
    <3>4. All(k + 1)
      BY <2>2, <2>6
    <3>. QED  BY <3>2, <3>3, <3>4
  <2>7. CASE y # x
    <3>1. s = Append(r, y)
      BY <2>4, <2>7
    <3>. HIDE DEF r, s, y
    <3>2. Len(s) = Len(r) + 1 /\ Len(r) \in Nat /\ s[Len(s)] = y /\ \A j \in 1..Len(r) : s[j] = r[j]
      BY <2>5, <3>1
    <3>. USE DEF r, s, y
    <3>3. From(k + 1)
      <4>1. ASSUME NEW j \in 1..Len(s) PROVE s[j] # x /\ \E m \in 1..(k + 1) : s[j] = q[m]
        <5>1. CASE j = Len(s)
          BY <2>1, <2>7, <3>2, <5>1
        <5>2. CASE j \in 1..Len(r)
          <6>1. PICK m \in 1..k : r[j] = q[m]
            BY <2>3, <5>2
          <6>2. s[j] = r[j] /\ r[j] # x
            BY <2>3, <3>2, <5>2
          <6>3. m \in 1..(k + 1)
            BY <2>1
          <6>. QED  BY <6>1, <6>2, <6>3
        <5>3. j = Len(s) \/ j \in 1..Len(r)
          <6>. HIDE DEF r, s
          <6>. QED  BY <3>2
        <5>. QED  BY <5>1, <5>2, <5>3
      <4>. QED  BY <4>1
    <3>4. One(k + 1)
      <4>. SUFFICES ASSUME \A i, j \in 1..Len(q) : q[i] = q[j] => i = j,
                           NEW i \in 1..Len(s), NEW j \in 1..Len(s), s[i] = s[j]
                    PROVE  i = j
        OBVIOUS
      <4>1. \A a, b \in 1..Len(r) : r[a] = r[b] => a = b
        BY <2>3
      <4>2. \A a \in 1..Len(r) : r[a] # y
        <5>. SUFFICES ASSUME NEW a \in 1..Len(r), r[a] = y PROVE FALSE
          OBVIOUS
        <5>1. PICK m \in 1..k : r[a] = q[m]
          BY <2>3
        <5>2. m \in 1..Len(q) /\ m # k + 1
          BY <2>1, <2>2
        <5>. QED  BY <2>2, <5>1, <5>2
      <4>. HIDE DEF r, s, y
      <4>3. i = Len(r) + 1 \/ i \in 1..Len(r)
        BY <3>2
      <4>4. j = Len(r) + 1 \/ j \in 1..Len(r)
        BY <3>2
      <4>. QED  BY <3>2, <4>1, <4>2, <4>3, <4>4
    <3>5. All(k + 1)
      <4>. SUFFICES ASSUME \A i \in 1..Len(q) : q[i] # x
                    PROVE  Len(s) = k + 1 /\ \A j \in 1..(k + 1) : s[j] = q[j]
        OBVIOUS
      <4>1. Len(r) = k /\ \A j \in 1..k : r[j] = q[j]
        BY <2>3
      <4>2. y = q[k + 1]
        OBVIOUS
      <4>. HIDE DEF r, s, y
      <4>. QED  BY <2>1, <3>2, <4>1, <4>2
    <3>. QED  BY <3>3, <3>4, <3>5
  <2>. QED  BY <2>6, <2>7
<1>4. From(Len(q)) /\ One(Len(q)) /\ All(Len(q))
  <2>. DEFINE W == {i \in Nat : i <= Len(q) => From(i) /\ One(i) /\ All(i)}
  <2>. HIDE DEF From, One, All
  <2>1. 0 \in W
    BY <1>2
  <2>2. ASSUME NEW k \in W PROVE k + 1 \in W
    BY <1>3
  <2>3. Nat \subseteq W
    <3>. HIDE DEF W
    <3>. QED  BY <2>1, <2>2, Induction
  <2>. QED  BY <2>3
<1>5. Without(q, x) \in Seq(V) /\ Without(q, x) = f[Len(q)]
  BY <1>1
<1>6. ASSUME \A i \in 1..Len(q) : q[i] # x PROVE Without(q, x) = q
  <2>1. Len(Without(q, x)) = Len(q) /\ \A j \in 1..Len(q) : Without(q, x)[j] = q[j]
    BY <1>4, <1>5, <1>6
  <2>. QED  BY <1>5, <2>1, SeqEqual
<1>. QED  BY <1>4, <1>5, <1>6

(* Division with remainder is unique.                                       *)
LEMMA OneRemainder ==
    ASSUME NEW n \in Nat, n > 0, NEW d \in Int, NEW e \in Int,
           NEW p \in 0..(n - 1), NEW q \in 0..(n - 1), d * n + p = e * n + q
    PROVE  p = q
  OBVIOUS

(* The remainder of the next number.                                        *)
LEMMA NextRemainder ==
    ASSUME NEW n \in Nat, n > 0, NEW a \in Nat
    PROVE  /\ a % n \in 0..(n - 1)
           /\ (a + 1) % n = IF a % n = n - 1 THEN 0 ELSE (a % n) + 1
<1>1. /\ \A b \in Nat : b % n \in 0..(n - 1)
      /\ \A b \in Nat : b \div n \in Int
      /\ \A b \in Nat : b = (b \div n) * n + (b % n)
  OBVIOUS
<1>. DEFINE d == a \div n
            e == (a + 1) \div n
            r == a % n
            s == (a + 1) % n
<1>2. /\ d \in Int /\ e \in Int /\ r \in 0..(n - 1) /\ s \in 0..(n - 1)
      /\ a = d * n + r /\ a + 1 = e * n + s
  BY <1>1
<1>. HIDE DEF d, e, r, s
<1>3. CASE r = n - 1
  <2>1. d + 1 \in Int /\ 0 \in 0..(n - 1) /\ (d + 1) * n + 0 = e * n + s
    BY <1>2, <1>3
  <2>2. s = 0
    BY <1>2, <2>1, OneRemainder
  <2>. QED  BY <1>2, <1>3, <2>2 DEF r, s
<1>4. CASE r # n - 1
  <2>1. r + 1 \in 0..(n - 1) /\ d * n + (r + 1) = e * n + s
    BY <1>2, <1>4
  <2>2. s = r + 1
    BY <1>2, <2>1, OneRemainder
  <2>. QED  BY <1>2, <1>4, <2>2 DEF r, s
<1>. QED  BY <1>3, <1>4

-----------------------------------------------------------------------------
(* PriorityQueue                                                            *)

Awake == {t \in Takers : popper[t] = "awake"}
ProbeTypes == heap \in Nat /\ popper \in [Takers -> {"out", "asleep", "awake"}]

(* The library's Cardinality, under its name inside Probe.                  *)
LEMMA SameCardinality == \A X : Q!Cardinality(X) = Cardinality(X)
  BY DEF Q!Cardinality, Cardinality

(* A taker that is woken is one more of them.                               *)
LEMMA OneMoreAwake ==
    ASSUME ProbeTypes, NEW t \in Takers, popper[t] = "asleep",
           popper' = [popper EXCEPT ![t] = "awake"]
    PROVE  /\ Cardinality(Awake) \in Nat
           /\ Cardinality(Awake') = Cardinality(Awake) + 1
<1>1. Awake' = Awake \cup {t} /\ t \notin Awake
  BY DEF Awake, ProbeTypes
<1>2. IsFiniteSet(Awake)
  BY PartsAssumption, FS_Subset DEF Awake
<1>. QED  BY <1>1, <1>2, FS_AddElement, FS_CardinalityType

(* While a taker is asleep in Pop, every item is on its way to a taker that *)
(* was woken: no item waits for a notification that was used up.            *)
THEOREM ItemsAreTaken == Spec => []NoItemSleeps
<1>. DEFINE Inv == ProbeTypes /\ Q!NoItemSleeps
<1>1. Init => Inv
  <2>. SUFFICES ASSUME Init  PROVE Inv
    OBVIOUS
  <2>1. heap = 0 /\ popper = [t \in Takers |-> "out"]
    BY DEF Init, Q!Init
  <2>. QED  BY <2>1 DEF ProbeTypes, Q!NoItemSleeps
<1>2. Inv /\ [Next]_vars => Inv'
  <2>. SUFFICES ASSUME Inv, [Next]_vars  PROVE Inv'
    OBVIOUS
  <2>1. CASE UNCHANGED <<heap, popper>>
    BY <2>1 DEF ProbeTypes, Q!NoItemSleeps
  <2>2. IsFiniteSet(Awake) /\ Cardinality(Awake) \in Nat
    BY PartsAssumption, FS_Subset, FS_CardinalityType DEF Awake
  <2>3. (\E t \in Takers : popper[t] = "asleep") => heap <= Cardinality(Awake)
    BY SameCardinality DEF Q!NoItemSleeps, Awake
  <2>4. ASSUME heap' \in Nat, popper' \in [Takers -> {"out", "asleep", "awake"}],
               (\E t \in Takers : popper'[t] = "asleep") => heap' <= Cardinality(Awake')
        PROVE  Inv'
    BY <2>4, SameCardinality DEF ProbeTypes, Q!NoItemSleeps, Awake
  <2>5. CASE Q!Push
    <3>1. heap' = heap + 1 /\ popper' \in Q!NotifyOne
      BY <2>5 DEF Q!Push
    <3>2. CASE \A t \in Takers : popper[t] # "asleep"
      <4>1. popper' = popper
        BY <3>1, <3>2 DEF Q!NotifyOne
      <4>. QED  BY <2>4, <3>1, <3>2, <4>1 DEF ProbeTypes
    <3>3. CASE \E t \in Takers : popper[t] = "asleep"
      <4>1. PICK t \in Takers : popper[t] = "asleep" /\ popper' = [popper EXCEPT ![t] = "awake"]
        BY <3>1, <3>3 DEF Q!NotifyOne, Q!Notified
      <4>2. Cardinality(Awake') = Cardinality(Awake) + 1
        BY <4>1, OneMoreAwake
      <4>3. heap' <= Cardinality(Awake')
        BY <2>2, <2>3, <3>1, <3>3, <4>2 DEF ProbeTypes
      <4>4. heap' \in Nat /\ popper' \in [Takers -> {"out", "asleep", "awake"}]
        BY <3>1, <4>1 DEF ProbeTypes
      <4>. QED  BY <2>4, <4>3, <4>4
    <3>. QED  BY <3>2, <3>3
  <2>6. ASSUME NEW t \in Takers, Q!Pop(t)  PROVE Inv'
    <3>1. /\ popper[t] \in {"out", "awake"}
          /\ heap' = IF heap = 0 THEN 0 ELSE heap - 1
          /\ popper' = [popper EXCEPT ![t] = IF heap = 0 THEN "asleep" ELSE "out"]
      BY <2>6 DEF Q!Pop
    <3>2. heap' \in Nat /\ popper' \in [Takers -> {"out", "asleep", "awake"}]
      BY <3>1 DEF ProbeTypes
    <3>3. Awake' = Awake \ {t}
      BY <3>1 DEF Awake, ProbeTypes
    <3>4. Cardinality(Awake') = IF t \in Awake THEN Cardinality(Awake) - 1 ELSE Cardinality(Awake)
      BY <2>2, <3>3, FS_RemoveElement
    <3>5. CASE heap = 0
      <4>1. heap' = 0 /\ Cardinality(Awake') \in Nat
        BY <2>2, <3>1, <3>3, <3>5, FS_Subset, FS_CardinalityType
      <4>. QED  BY <2>4, <3>2, <4>1
    <3>6. CASE heap # 0
      <4>1. \A u \in Takers : popper'[u] = "asleep" => popper[u] = "asleep"
        BY <3>1, <3>6 DEF ProbeTypes
      <4>2. (\E u \in Takers : popper'[u] = "asleep") => heap' <= Cardinality(Awake')
        BY <2>2, <2>3, <3>1, <3>4, <3>6, <4>1 DEF ProbeTypes
      <4>. QED  BY <2>4, <3>2, <4>2
    <3>. QED  BY <3>5, <3>6
  <2>7. ASSUME NEW t \in Takers, Q!SpuriousWakeup(t)  PROVE Inv'
    <3>1. popper[t] = "asleep" /\ heap' = heap /\ popper' = [popper EXCEPT ![t] = "awake"]
      BY <2>7 DEF Q!SpuriousWakeup
    <3>2. Cardinality(Awake') = Cardinality(Awake) + 1
      BY <3>1, OneMoreAwake
    <3>3. heap' <= Cardinality(Awake')
      BY <2>2, <2>3, <3>1, <3>2 DEF ProbeTypes
    <3>4. heap' \in Nat /\ popper' \in [Takers -> {"out", "asleep", "awake"}]
      BY <3>1 DEF ProbeTypes
    <3>. QED  BY <2>4, <3>3, <3>4
  <2>8. CASE Q!ClearHeap
    BY <2>2, <2>4, <2>8 DEF Q!ClearHeap, ProbeTypes, Awake
  <2>9. CASE UNCHANGED <<heap, popper>> \/ Q!Push \/ Q!ClearHeap
             \/ \E t \in Takers : Q!Pop(t) \/ Q!SpuriousWakeup(t)
    BY <2>1, <2>5, <2>6, <2>7, <2>8, <2>9
  <2>10. Q!Next => UNCHANGED <<heap, popper>> \/ Q!Push \/ Q!ClearHeap
                   \/ \E t \in Takers : Q!Pop(t) \/ Q!SpuriousWakeup(t)
    BY DEF Q!Next, Q!OnMessage, Q!Expect, Q!ExpectMsgMatches, Q!ExpectMsgTimesOut,
           Q!ExpectNoMsg, Q!Clear, Q!StreamActorReceive, Q!Publish, Q!Unsubscribe, Q!heapVars
  <2>. QED  BY <2>9, <2>10, OnePartMoves DEF probeVars
<1>3. Inv => NoItemSleeps
  BY DEF NoItemSleeps
<1>. QED  BY <1>1, <1>2, <1>3, PTL DEF Spec

-----------------------------------------------------------------------------
(* Supervision                                                              *)

(* The statistics count exactly the failures that nobody has forgiven yet.  *)
StatsTypes ==
    /\ stats \in [Children -> [failure_count : Nat, age : Nat]]
    /\ since \in [Children -> Nat]
    /\ fate \in [Children -> {"running", "resumed", "restarted", "stopped", "escalated",
                              "stopped after retries"}]
StatsExact == \A c \in Children : stats[c].failure_count = since[c]

(* One child's statistics and its ghost count are set together.             *)
LEMMA OneStat ==
    ASSUME StatsTypes, StatsExact, NEW c \in Children, NEW n \in Nat, NEW g \in Nat,
           stats' = [stats EXCEPT ![c] = [failure_count |-> n, age |-> g]],
           since' = [since EXCEPT ![c] = n],
           fate' \in [Children -> {"running", "resumed", "restarted", "stopped", "escalated",
                                   "stopped after retries"}]
    PROVE  StatsTypes' /\ StatsExact'
<1>. DEFINE r == [failure_count |-> n, age |-> g]
<1>1. r \in [failure_count : Nat, age : Nat] /\ r.failure_count = n
  OBVIOUS
<1>2. stats' = [stats EXCEPT ![c] = r]
  OBVIOUS
<1>. HIDE DEF r
<1>3. stats' \in [Children -> [failure_count : Nat, age : Nat]] /\ since' \in [Children -> Nat]
  <2>. DEFINE Stat == [failure_count : Nat, age : Nat]
  <2>1. stats \in [Children -> Stat] /\ r \in Stat
    BY <1>1 DEF StatsTypes
  <2>. HIDE DEF Stat
  <2>2. stats' \in [Children -> Stat]
    BY <1>2, <2>1
  <2>3. since' \in [Children -> Nat]
    BY DEF StatsTypes
  <2>. QED  BY <2>2, <2>3 DEF Stat
<1>4. ASSUME NEW d \in Children  PROVE stats'[d].failure_count = since'[d]
  <2>1. CASE d = c
    BY <1>1, <1>2, <2>1 DEF StatsTypes
  <2>2. CASE d # c
    BY <1>2, <2>2 DEF StatsTypes, StatsExact
  <2>. QED  BY <2>1, <2>2
<1>. QED  BY <1>3, <1>4 DEF StatsTypes, StatsExact

(* Every call on the statistics, also the reset inside ShouldStop, keeps    *)
(* them exact.                                                              *)
LEMMA StatsStayExact ==
    ASSUME StatsTypes, StatsExact, S!Next
    PROVE  StatsTypes' /\ StatsExact'
<1>. USE PartsAssumption
<1>1. CASE S!Tick
  <2>1. stats' = [c \in Children |->
                    [stats[c] EXCEPT !.age = IF @ < Within + 1 THEN @ + 1 ELSE @]]
        /\ fate' = fate /\ since' = since
    BY <1>1 DEF S!Tick, S!Old
  <2>2. ASSUME NEW c \in Children
        PROVE  /\ stats'[c].failure_count = stats[c].failure_count
               /\ stats'[c] \in [failure_count : Nat, age : Nat]
    <3>1. stats[c] \in [failure_count : Nat, age : Nat]
      BY DEF StatsTypes
    <3>2. stats'[c] = [stats[c] EXCEPT !.age = IF stats[c].age < Within + 1
                                               THEN stats[c].age + 1 ELSE stats[c].age]
      BY <2>1
    <3>. QED  BY <3>1, <3>2
  <2>3. stats' \in [Children -> [failure_count : Nat, age : Nat]]
    BY <2>1, <2>2
  <2>. QED  BY <2>1, <2>2, <2>3 DEF StatsTypes, StatsExact
<1>2. ASSUME NEW c \in Children, S!Fail(c)  PROVE StatsTypes' /\ StatsExact'
  <2>1. stats[c].failure_count = since[c] /\ since[c] \in Nat
    BY DEF StatsTypes, StatsExact
  <2>2. /\ stats' = [stats EXCEPT ![c] = [failure_count |-> since[c] + 1, age |-> 0]]
        /\ since' = [since EXCEPT ![c] = since[c] + 1] /\ fate' = fate
    BY <1>2, <2>1 DEF S!Fail
  <2>3. since[c] + 1 \in Nat /\ 0 \in Nat
    BY <2>1
  <2>. QED  BY <2>2, <2>3, OneStat DEF StatsTypes
<1>3. ASSUME NEW c \in Children, S!Reset(c)  PROVE StatsTypes' /\ StatsExact'
  <2>1. /\ stats' = [stats EXCEPT ![c] = [failure_count |-> 0, age |-> Within + 1]]
        /\ since' = [since EXCEPT ![c] = 0] /\ fate' = fate
    BY <1>3 DEF S!Reset, S!Fresh, S!Old
  <2>2. Within + 1 \in Nat /\ 0 \in Nat
    OBVIOUS
  <2>. QED  BY <2>1, <2>2, OneStat DEF StatsTypes
<1>4. ASSUME NEW c \in Children, S!HandleFailure(c)  PROVE StatsTypes' /\ StatsExact'
  <2>1. fate' \in [Children -> {"running", "resumed", "restarted", "stopped", "escalated",
                                "stopped after retries"}]
    BY <1>4 DEF S!HandleFailure, S!OneForOneHandleFailure, S!AllForOneHandleFailure,
                S!RestartingHandleFailure, S!Apply, S!Affect, StatsTypes
  <2>2. \/ UNCHANGED <<stats, since>>
        \/ /\ stats' = S!Asked(c)
           /\ since' = [since EXCEPT ![c] = IF S!Stale(c) THEN 0 ELSE @]
    BY <1>4 DEF S!HandleFailure, S!OneForOneHandleFailure, S!AllForOneHandleFailure,
                S!RestartingHandleFailure, S!Apply
  <2>3. CASE UNCHANGED <<stats, since>>
    BY <2>1, <2>3 DEF StatsTypes, StatsExact
  <2>4. CASE /\ stats' = S!Asked(c)
             /\ since' = [since EXCEPT ![c] = IF S!Stale(c) THEN 0 ELSE @]
    <3>1. CASE S!Stale(c)
      <4>1. stats' = [stats EXCEPT ![c] = [failure_count |-> 0, age |-> Within + 1]]
            /\ since' = [since EXCEPT ![c] = 0]
        BY <2>4, <3>1 DEF S!Asked, S!Fresh, S!Old
      <4>2. Within + 1 \in Nat /\ 0 \in Nat
        OBVIOUS
      <4>. QED  BY <2>1, <4>1, <4>2, OneStat
    <3>2. CASE ~S!Stale(c)
      <4>1. stats' = stats /\ since' = since
        BY <2>4, <3>2 DEF S!Asked, StatsTypes
      <4>. QED  BY <2>1, <4>1 DEF StatsTypes, StatsExact
    <3>. QED  BY <3>1, <3>2
  <2>. QED  BY <2>2, <2>3, <2>4
<1>. QED  BY <1>1, <1>2, <1>3, <1>4 DEF S!Next

(* What a positive answer of ShouldStop says about the failures.            *)
LEMMA StopIsEarned ==
    ASSUME StatsTypes, StatsExact, NEW d \in Children, S!ShouldStop(d)
    PROVE  since[d] >= MaxRetries /\ stats[d].age <= Within
<1>1. stats[d].failure_count = since[d] /\ stats[d].age \in Nat /\ since[d] \in Nat
  BY DEF StatsTypes, StatsExact
<1>2. since[d] >= MaxRetries /\ ~(stats[d].age > Within)
  BY <1>1 DEF S!ShouldStop, S!Stale
<1>3. Within \in Nat
  BY PartsAssumption
<1>. HIDE DEF StatsTypes, StatsExact
<1>4. stats[d].age <= Within
  BY <1>1, <1>2, <1>3
<1>. QED  BY <1>2, <1>4

(* A restart becomes a stop only for a child that has MaxRetries failures   *)
(* of which none was forgiven, the last of them within the window, or       *)
(* beside such a child under the all-for-one strategy.                      *)
THEOREM RetriesBeforeStop == Spec => StopNeedsRetries
<1>. DEFINE Inv == StatsTypes /\ StatsExact
            Step == \A c \in Children :
                      fate[c] # "stopped after retries" /\ fate'[c] = "stopped after retries" =>
                        \E d \in Children : /\ since[d] >= MaxRetries /\ stats[d].age <= Within
                                            /\ strategy = "AllForOne" \/ d = c
<1>1. Init => Inv
  BY PartsAssumption DEF Init, S!Init, S!Fresh, S!Old, StatsTypes, StatsExact
<1>2. Inv /\ [Next]_vars => Inv'
  BY StatsStayExact, OnePartMoves DEF supervisionVars, StatsTypes, StatsExact
<1>3. Inv /\ [Next]_vars => [Step]_supervisionVars
  <2>. SUFFICES ASSUME Inv, S!Next, NEW c \in Children,
                       fate[c] # "stopped after retries", fate'[c] = "stopped after retries"
                PROVE  \E d \in Children : /\ since[d] >= MaxRetries /\ stats[d].age <= Within
                                           /\ strategy = "AllForOne" \/ d = c
    BY OnePartMoves
  <2>1. PICK d \in Children : S!HandleFailure(d)
    BY DEF S!Next, S!Tick, S!Fail, S!Reset, StatsTypes
  <2>2. PICK cs \in {{d}, Children} :
          /\ cs = {d} \/ strategy = "AllForOne"
          /\ \E dir : S!Apply(d, dir, cs) /\ dir = "Restart"
          /\ c \in cs
    BY <2>1 DEF S!HandleFailure, S!OneForOneHandleFailure, S!AllForOneHandleFailure,
                S!RestartingHandleFailure, S!Apply, S!Affect
  <2>3. S!ShouldStop(d)
    BY <2>2 DEF S!Apply, S!Affect
  <2>4. since[d] >= MaxRetries /\ stats[d].age <= Within
    BY <2>3, StopIsEarned
  <2>. QED  BY <2>2, <2>4
<1>4. StopNeedsRetries <=> [][Step]_supervisionVars
  BY DEF StopNeedsRetries, S!StopNeedsRetries, S!supervisionVars, supervisionVars
<1>. QED  BY <1>1, <1>2, <1>3, <1>4, PTL DEF Spec

-----------------------------------------------------------------------------
(* Deduplication                                                            *)

(* The links of the chain, in the order in which a message meets them.      *)
LEMMA ChainOrder == D!ReceiverChain = <<"deduplicate", "pass", "actor">>
<1>. DEFINE m == <<"deduplicate", "pass">>
            F(h) == [i \in 1..(Len(m) + 1) |->
                       IF i > Len(m) THEN <<"actor">> ELSE <<m[i]>> \o h[i + 1]]
            h0 == CHOOSE h : h = F(h)
            w == [i \in 1..3 |-> IF i = 1 THEN <<"deduplicate", "pass", "actor">>
                                 ELSE IF i = 2 THEN <<"pass", "actor">> ELSE <<"actor">>]
<1>1. Len(m) = 2 /\ m[1] = "deduplicate" /\ m[2] = "pass"
  OBVIOUS
<1>2. /\ <<"pass">> \o <<"actor">> = <<"pass", "actor">>
      /\ <<"deduplicate">> \o <<"pass", "actor">> = <<"deduplicate", "pass", "actor">>
  <2>. DEFINE Links == {"deduplicate", "pass", "actor"}
  <2>. DEFINE s == <<"deduplicate">>  t == <<"pass">>  u == <<"actor">>  v == <<"pass", "actor">>
              x == <<"deduplicate", "pass", "actor">>
  <2>1. /\ s \in Seq(Links) /\ t \in Seq(Links) /\ u \in Seq(Links)
        /\ v \in Seq(Links) /\ x \in Seq(Links)
    <3>1. \A a, b, c \in Links : <<a>> \in Seq(Links) /\ <<a, b>> \in Seq(Links)
                                                      /\ <<a, b, c>> \in Seq(Links)
      <4>. HIDE DEF Links
      <4>. QED  OBVIOUS
    <3>. QED  BY <3>1
  <2>2. /\ Len(s) = 1 /\ Len(t) = 1 /\ Len(u) = 1 /\ Len(v) = 2 /\ Len(x) = 3
        /\ s[1] = "deduplicate" /\ t[1] = "pass" /\ u[1] = "actor"
        /\ v[1] = "pass" /\ v[2] = "actor"
        /\ x[1] = "deduplicate" /\ x[2] = "pass" /\ x[3] = "actor"
    OBVIOUS
  <2>. HIDE DEF s, t, u, v, x, Links
  <2>3. t \o u = v
    <3>1. /\ t \o u \in Seq(Links) /\ Len(t \o u) = 2
          /\ \A i \in 1..2 : (t \o u)[i] = IF i <= 1 THEN t[i] ELSE u[i - 1]
      <4>1. /\ t \o u \in Seq(Links) /\ Len(t \o u) = Len(t) + Len(u)
            /\ \A i \in 1 .. Len(t) + Len(u) :
                 (t \o u)[i] = IF i <= Len(t) THEN t[i] ELSE u[i - Len(t)]
        BY <2>1, ConcatProperties, Zenon
      <4>. QED  BY <2>2, <4>1
    <3>2. \A i \in 1..2 : (t \o u)[i] = v[i]
      BY <2>2, <3>1
    <3>. QED  BY <2>1, <2>2, <3>1, <3>2, SeqEqual
  <2>4. s \o v = x
    <3>1. /\ s \o v \in Seq(Links) /\ Len(s \o v) = 3
          /\ \A i \in 1..3 : (s \o v)[i] = IF i <= 1 THEN s[i] ELSE v[i - 1]
      <4>1. /\ s \o v \in Seq(Links) /\ Len(s \o v) = Len(s) + Len(v)
            /\ \A i \in 1 .. Len(s) + Len(v) :
                 (s \o v)[i] = IF i <= Len(s) THEN s[i] ELSE v[i - Len(s)]
        BY <2>1, ConcatProperties, Zenon
      <4>. QED  BY <2>2, <4>1
    <3>2. \A i \in 1..3 : (s \o v)[i] = x[i]
      BY <2>2, <3>1
    <3>. QED  BY <2>1, <2>2, <3>1, <3>2, SeqEqual
  <2>. QED  BY <2>3, <2>4 DEF s, t, u, v, x
<1>3. D!ReceiverChain = h0[1]
  BY DEF D!ReceiverChain, D!Chain
<1>. HIDE DEF m
<1>4. w = F(w)
  BY <1>1, <1>2
<1>. HIDE DEF w
<1>5. h0 = F(h0)
  BY <1>4
<1>. HIDE DEF h0
<1>6. \A i \in 1..3 : h0[i] = IF i > 2 THEN <<"actor">> ELSE <<m[i]>> \o h0[i + 1]
  <2>1. F(h0) = [i \in 1..3 |-> IF i > 2 THEN <<"actor">> ELSE <<m[i]>> \o h0[i + 1]]
    BY <1>1
  <2>. HIDE DEF F
  <2>2. h0 = [i \in 1..3 |-> IF i > 2 THEN <<"actor">> ELSE <<m[i]>> \o h0[i + 1]]
    BY <1>5, <2>1
  <2>. DEFINE g == [i \in 1..3 |-> IF i > 2 THEN <<"actor">> ELSE <<m[i]>> \o h0[i + 1]]
  <2>3. \A i \in 1..3 : g[i] = IF i > 2 THEN <<"actor">> ELSE <<m[i]>> \o h0[i + 1]
    OBVIOUS
  <2>4. h0 = g
    BY <2>2
  <2>. HIDE DEF g
  <2>. QED  BY <2>3, <2>4
<1>. HIDE DEF F
<1>7. h0[3] = <<"actor">> /\ h0[2] = <<m[2]>> \o h0[3] /\ h0[1] = <<m[1]>> \o h0[2]
  <2>1. 3 \in 1..3 /\ 2 \in 1..3 /\ 1 \in 1..3 /\ 3 > 2 /\ ~(2 > 2) /\ ~(1 > 2)
        /\ 2 + 1 = 3 /\ 1 + 1 = 2
    OBVIOUS
  <2>. QED  BY <1>6, <2>1, Zenon
<1>. QED  BY <1>1, <1>2, <1>3, <1>7

(* Neither link of the middleware is followed by the lock.                  *)
LEMMA AfterLinks == D!After("deduplicate") = "pass" /\ D!After("pass") = "actor"
<1>. DEFINE c == <<"deduplicate", "pass", "actor">>
<1>1. DOMAIN c = 1..3 /\ c[1] = "deduplicate" /\ c[2] = "pass" /\ c[3] = "actor"
  OBVIOUS
<1>2. /\ D!After("deduplicate") = c[(CHOOSE i \in DOMAIN c : c[i] = "deduplicate") + 1]
      /\ D!After("pass") = c[(CHOOSE i \in DOMAIN c : c[i] = "pass") + 1]
  BY ChainOrder DEF D!After
<1>. HIDE DEF c
<1>3. (CHOOSE i \in DOMAIN c : c[i] = "deduplicate") = 1
  BY <1>1
<1>4. (CHOOSE i \in DOMAIN c : c[i] = "pass") = 2
  BY <1>1
<1>. QED  BY <1>1, <1>2, <1>3, <1>4

Msg == [at : {"idle", "deduplicate", "pass", "actor", "lock"}, key : Keys \cup {"none"}, age : Nat]

(* A thread that waits for the lock of the deduplication has a key and      *)
(* holds the clock it read for at most MaxDelay ticks.                      *)
Held(r) == r.at = "lock" => r.key \in Keys /\ r.age <= MaxDelay
HeldInv == receiver \in [Actors -> Msg] /\ \A a \in Actors : Held(receiver[a])

(* A time stamp is at most MaxDelay older than the last message that was    *)
(* let through, unless that one is nearly TTL old itself.                   *)
GapInv ==
    /\ seen \in [Keys -> Nat] /\ gap \in [Keys -> Nat]
    /\ \A k \in Keys : gap[k] <= TTL + MaxDelay + 1
    /\ \A k \in Keys : seen[k] <= gap[k] + MaxDelay \/ TTL <= gap[k] + MaxDelay
    /\ least \in Nat /\ TTL <= least + MaxDelay

(* One thread moves on.                                                     *)
LEMMA OneMsg ==
    ASSUME HeldInv, NEW a \in Actors, NEW r \in Msg, Held(r),
           receiver' = [receiver EXCEPT ![a] = r]
    PROVE  HeldInv'
<1>1. receiver' \in [Actors -> Msg]
  BY DEF HeldInv
<1>2. ASSUME NEW b \in Actors  PROVE Held(receiver'[b])
  <2>1. receiver'[b] = r \/ receiver'[b] = receiver[b]
    BY DEF HeldInv
  <2>. QED  BY <2>1 DEF HeldInv
<1>. QED  BY <1>1, <1>2 DEF HeldInv

(* The threads on their way through the chain.                              *)
LEMMA HeldStays == ASSUME HeldInv, D!Next  PROVE HeldInv'
<1>0. D!Idle \in Msg /\ D!Idle.at = "idle" /\ D!Idle = [at |-> "idle", key |-> "none", age |-> 0]
  BY DEF D!Idle, Msg
<1>1. ASSUME NEW a \in Actors, NEW k \in Keys \cup {"none"}, D!DefaultReceive(a, k)
      PROVE  HeldInv'
  <2>. DEFINE r == [at |-> "deduplicate", key |-> k, age |-> 0]
  <2>1. Head(D!ReceiverChain) = "deduplicate"
    BY ChainOrder
  <2>2. receiver' = [receiver EXCEPT ![a] = r]
    BY <1>1, <2>1 DEF D!DefaultReceive
  <2>3. r \in Msg /\ Held(r)
    BY DEF Msg, Held
  <2>. HIDE DEF r
  <2>. QED  BY <2>2, <2>3, OneMsg
<1>2. ASSUME NEW a \in Actors, D!Pass(a)  PROVE HeldInv'
  <2>. DEFINE r == [receiver[a] EXCEPT !.at = "actor"]
  <2>1. receiver' = [receiver EXCEPT ![a] = r]
    BY <1>2, AfterLinks DEF D!Pass
  <2>2. receiver[a] \in Msg
    BY DEF HeldInv
  <2>3. r \in Msg /\ Held(r)
    BY <2>2 DEF Msg, Held
  <2>. HIDE DEF r
  <2>. QED  BY <2>1, <2>3, OneMsg
<1>3. ASSUME NEW a \in Actors, D!ReadClock(a)  PROVE HeldInv'
  <2>. DEFINE p == IF receiver[a].key \in Keys THEN "lock" ELSE "pass"
              r == [at |-> p, key |-> receiver[a].key, age |-> 0]
  <2>1. receiver[a] \in Msg
    BY DEF HeldInv
  <2>2. receiver' = [receiver EXCEPT ![a] = r]
    BY <1>3, AfterLinks DEF D!ReadClock
  <2>3. r \in Msg /\ Held(r)
    BY <2>1, PartsAssumption DEF Msg, Held
  <2>. HIDE DEF r
  <2>. QED  BY <2>2, <2>3, OneMsg
<1>4. ASSUME NEW a \in Actors, D!ShouldProcess(a)  PROVE HeldInv'
  <2>1. PICK process : receiver' = [receiver EXCEPT ![a] = D!DeduplicationContext(a, process)]
    BY <1>4 DEF D!ShouldProcess
  <2>. DEFINE r == D!DeduplicationContext(a, process)
  <2>2. r = [at |-> "pass", key |-> "none", age |-> 0] \/ r = D!Idle
    BY <1>0, AfterLinks DEF D!DeduplicationContext
  <2>3. r \in Msg /\ Held(r)
    BY <1>0, <2>2 DEF Msg, Held
  <2>. HIDE DEF r
  <2>. QED  BY <2>1, <2>3, OneMsg DEF r
<1>5. ASSUME NEW a \in Actors, D!BehaviorReceive(a)  PROVE HeldInv'
  <2>1. receiver' = [receiver EXCEPT ![a] = D!Idle]
    BY <1>5 DEF D!BehaviorReceive
  <2>2. Held(D!Idle)
    BY <1>0 DEF Held
  <2>. QED  BY <1>0, <2>1, <2>2, OneMsg
<1>6. CASE D!Tick
  <2>1. ASSUME NEW a \in Actors
        PROVE  receiver'[a] \in Msg /\ Held(receiver'[a])
    <3>1. receiver[a] \in Msg /\ Held(receiver[a])
      BY DEF HeldInv
    <3>2. CASE receiver[a].at = "lock"
      <4>1. receiver'[a] = [receiver[a] EXCEPT !.age = receiver[a].age + 1]
            /\ receiver[a].age < MaxDelay
        BY <1>6, <3>2 DEF D!Tick
      <4>2. receiver[a].age \in Nat /\ receiver[a].key \in Keys
        BY <3>1, <3>2 DEF Msg, Held
      <4>3. receiver[a].age + 1 \in Nat /\ receiver[a].age + 1 <= MaxDelay
        BY <4>1, <4>2, PartsAssumption
      <4>4. receiver'[a] \in Msg /\ receiver'[a].key = receiver[a].key
            /\ receiver'[a].age = receiver[a].age + 1
        BY <3>1, <4>1, <4>3 DEF Msg
      <4>. QED  BY <4>2, <4>3, <4>4 DEF Held
    <3>3. CASE receiver[a].at # "lock"
      BY <1>6, <3>1, <3>3 DEF D!Tick
    <3>. QED  BY <3>2, <3>3
  <2>2. receiver' \in [Actors -> Msg]
    BY <1>6, <2>1 DEF D!Tick
  <2>. QED  BY <2>1, <2>2 DEF HeldInv
<1>. QED  BY <1>1, <1>2, <1>3, <1>4, <1>5, <1>6 DEF D!Next

(* The decision under the lock: what is let through was last let through    *)
(* TTL ago, less MaxDelay.                                                  *)
LEMMA DecisionKeepsGap ==
    ASSUME HeldInv, GapInv, NEW a \in Actors, D!ShouldProcess(a)
    PROVE  GapInv'
<1>. DEFINE k == receiver[a].key
            n == receiver[a].age
            dup == seen[k] # D!Gone /\ D!Elapsed(a) < TTL
<1>1. k \in Keys /\ n \in Nat /\ n <= MaxDelay
  <2>1. receiver[a] \in Msg /\ Held(receiver[a]) /\ receiver[a].at = "lock"
    BY DEF D!ShouldProcess, HeldInv
  <2>. QED  BY <2>1 DEF Msg, Held
<1>2. /\ seen' = [seen EXCEPT ![k] = n]
      /\ gap' = [gap EXCEPT ![k] = IF dup THEN gap[k] ELSE 0]
      /\ least' = IF ~dup /\ gap[k] < least THEN gap[k] ELSE least
  BY DEF D!ShouldProcess, D!Stamp
<1>3. D!Gone = TTL + MaxDelay + 1
  BY DEF D!Gone
<1>4. D!Elapsed(a) = IF seen[k] >= n THEN seen[k] - n ELSE 0
  BY DEF D!Elapsed
<1>5. /\ seen[k] \in Nat /\ gap[k] \in Nat /\ TTL \in Nat /\ MaxDelay \in Nat /\ least \in Nat
      /\ seen[k] <= gap[k] + MaxDelay \/ TTL <= gap[k] + MaxDelay
      /\ TTL <= least + MaxDelay
  BY <1>1, PartsAssumption DEF GapInv
<1>6. ~dup => TTL <= gap[k] + MaxDelay
  <2>. SUFFICES ASSUME ~dup  PROVE TTL <= gap[k] + MaxDelay
    OBVIOUS
  <2>1. CASE seen[k] = D!Gone
    BY <1>3, <1>5, <2>1
  <2>2. CASE ~(D!Elapsed(a) < TTL)
    <3>1. CASE seen[k] >= n
      <4>1. ~(seen[k] - n < TTL)
        BY <1>4, <2>2, <3>1
      <4>. HIDE DEF k, n, dup
      <4>. QED  BY <1>1, <1>5, <3>1, <4>1
    <3>2. CASE ~(seen[k] >= n)
      <4>1. ~(0 < TTL)
        BY <1>4, <2>2, <3>2
      <4>. HIDE DEF k, n, dup
      <4>. QED  BY <1>5, <4>1
    <3>. QED  BY <3>1, <3>2
  <2>. QED  BY <2>1, <2>2
<1>. HIDE DEF k, n, dup
<1>7. least' \in Nat /\ TTL <= least' + MaxDelay
  BY <1>2, <1>5, <1>6
<1>8. seen' \in [Keys -> Nat] /\ gap' \in [Keys -> Nat]
  BY <1>1, <1>2, <1>5 DEF GapInv
<1>9. ASSUME NEW j \in Keys
      PROVE  /\ gap'[j] <= TTL + MaxDelay + 1
             /\ seen'[j] <= gap'[j] + MaxDelay \/ TTL <= gap'[j] + MaxDelay
  <2>1. CASE j = k
    <3>1. seen'[j] = n /\ gap'[j] = IF dup THEN gap[k] ELSE 0
      BY <1>1, <1>2, <2>1 DEF GapInv
    <3>2. gap[k] <= TTL + MaxDelay + 1
      BY <1>1 DEF GapInv
    <3>. QED  BY <1>1, <1>5, <3>1, <3>2
  <2>2. CASE j # k
    <3>1. seen'[j] = seen[j] /\ gap'[j] = gap[j]
      BY <1>1, <1>2, <2>2 DEF GapInv
    <3>. QED  BY <3>1 DEF GapInv
  <2>. QED  BY <2>1, <2>2
<1>. QED  BY <1>7, <1>8, <1>9 DEF GapInv

(* A tick ages the stamp and the gap alike, up to where the stamp is as     *)
(* good as absent.                                                          *)
LEMMA TickKeepsGap == ASSUME GapInv, D!Tick  PROVE GapInv'
<1>. DEFINE top == TTL + MaxDelay + 1
            O(i) == IF i < top THEN i + 1 ELSE top
<1>1. /\ seen' = [k \in Keys |-> O(seen[k])] /\ gap' = [k \in Keys |-> O(gap[k])]
      /\ least' = least
  BY DEF D!Tick, D!Older, D!Gone
<1>2. \A i, j, u, v \in Nat :
        j <= u + v + 1 =>
          LET oi == IF i < u + v + 1 THEN i + 1 ELSE u + v + 1
              oj == IF j < u + v + 1 THEN j + 1 ELSE u + v + 1
          IN /\ oi \in Nat /\ oj \in Nat /\ oj <= u + v + 1
             /\ i <= j + v \/ u <= j + v => oi <= oj + v \/ u <= oj + v
  OBVIOUS
<1>3. ASSUME NEW k \in Keys
      PROVE  /\ O(seen[k]) \in Nat /\ O(gap[k]) \in Nat /\ O(gap[k]) <= top
             /\ O(seen[k]) <= O(gap[k]) + MaxDelay \/ TTL <= O(gap[k]) + MaxDelay
  <2>1. /\ seen[k] \in Nat /\ gap[k] \in Nat /\ gap[k] <= top
        /\ seen[k] <= gap[k] + MaxDelay \/ TTL <= gap[k] + MaxDelay
    BY DEF GapInv
  <2>2. TTL \in Nat /\ MaxDelay \in Nat
    BY PartsAssumption
  <2>. QED  BY <1>2, <2>1, <2>2
<1>. HIDE DEF O
<1>. QED  BY <1>1, <1>3 DEF GapInv

(* The whole invariant of the deduplication.                                *)
LEMMA GapStays == ASSUME HeldInv, GapInv, D!Next  PROVE GapInv'
<1>1. ASSUME NEW a \in Actors, D!ReadClock(a)  PROVE GapInv'
  <2>1. seen' = [k \in Keys |-> IF seen[k] >= TTL THEN TTL + MaxDelay + 1 ELSE seen[k]]
        /\ gap' = gap /\ least' = least
    BY <1>1 DEF D!ReadClock, D!Cleanup, D!Gone
  <2>2. TTL \in Nat /\ MaxDelay \in Nat /\ TTL + MaxDelay + 1 \in Nat
    BY PartsAssumption
  <2>3. seen' \in [Keys -> Nat]
    BY <2>1, <2>2 DEF GapInv
  <2>4. ASSUME NEW k \in Keys
        PROVE  seen'[k] <= gap[k] + MaxDelay \/ TTL <= gap[k] + MaxDelay
    <3>1. /\ seen[k] \in Nat /\ gap[k] \in Nat
          /\ seen[k] <= gap[k] + MaxDelay \/ TTL <= gap[k] + MaxDelay
      BY DEF GapInv
    <3>2. CASE seen[k] >= TTL
      BY <2>2, <3>1, <3>2
    <3>3. CASE ~(seen[k] >= TTL)
      <4>1. seen'[k] = seen[k]
        BY <2>1, <3>3
      <4>. QED  BY <3>1, <4>1
    <3>. QED  BY <3>2, <3>3
  <2>. QED  BY <2>1, <2>3, <2>4 DEF GapInv
<1>2. ASSUME UNCHANGED <<seen, gap, least>>  PROVE GapInv'
  BY <1>2 DEF GapInv
<1>. QED  BY <1>1, <1>2, TickKeepsGap, DecisionKeepsGap
          DEF D!Next, D!DefaultReceive, D!Pass, D!BehaviorReceive

(* Two messages with one key are let through at least TTL - MaxDelay apart, *)
(* whichever actors of the Props receive them and however their threads     *)
(* interleave between reading the clock and taking the lock.                *)
THEOREM DuplicatesKeepApart == Spec => []DuplicateGap
<1>. DEFINE Inv == HeldInv /\ GapInv
<1>1. Init => Inv
  <2>. SUFFICES ASSUME Init  PROVE HeldInv /\ GapInv
    OBVIOUS
  <2>1. /\ seen = [k \in Keys |-> TTL + MaxDelay + 1] /\ gap = [k \in Keys |-> TTL + MaxDelay + 1]
        /\ least = TTL + MaxDelay + 1
        /\ receiver = [a \in Actors |-> [at |-> "idle", key |-> "none", age |-> 0]]
    BY DEF Init, D!Init, D!Gone, D!Idle
  <2>2. HeldInv
    BY <2>1 DEF HeldInv, Held, Msg
  <2>3. GapInv
    BY <2>1, PartsAssumption DEF GapInv
  <2>. QED  BY <2>2, <2>3
<1>2. Inv /\ [Next]_vars => Inv'
  <2>. SUFFICES ASSUME HeldInv, GapInv, [Next]_vars  PROVE HeldInv' /\ GapInv'
    OBVIOUS
  <2>1. CASE D!Next
    BY <2>1, HeldStays, GapStays
  <2>2. CASE UNCHANGED receivingVars
    BY <2>2 DEF receivingVars, HeldInv, GapInv
  <2>. QED  BY <2>1, <2>2, OnePartMoves
<1>3. Inv => DuplicateGap
  <2>. SUFFICES ASSUME GapInv  PROVE least >= TTL - MaxDelay
    BY DEF DuplicateGap, D!DuplicateGap
  <2>. QED  BY PartsAssumption DEF GapInv
<1>. QED  BY <1>1, <1>2, <1>3, PTL DEF Spec

-----------------------------------------------------------------------------
(* ProcessRegistry                                                          *)

Id(n) == G!Uint64ToID(n)

(* The digits of all numbers up to u.                                       *)
Digits(f, u) == f = [n \in 0..u |-> IF n < Base THEN <<n>> ELSE Append(f[n \div Base], n % Base)]

(* Taking a digit off a number.                                             *)
LEMMA OneDigitLess ==
    ASSUME NEW n \in Nat
    PROVE  /\ n % Base \in 0..(Base - 1) /\ n \div Base \in Nat
           /\ n = (n \div Base) * Base + (n % Base)
           /\ n >= Base => n \div Base < n
<1>1. Base \in Nat /\ Base > 1
  BY PartsAssumption
<1>2. n % Base \in 0..(Base - 1) /\ n \div Base \in Int /\ n = (n \div Base) * Base + (n % Base)
  BY <1>1
<1>. DEFINE d == n \div Base
            r == n % Base
<1>3. \A e \in Int, s \in 0..(Base - 1) : n = e * Base + s => e >= 0 /\ (n >= Base => e < n)
  BY <1>1
<1>. QED  BY <1>2, <1>3

(* There is such a function, and only one.                                  *)
LEMMA DigitsExist == ASSUME NEW u \in Nat  PROVE \E f : Digits(f, u)
<1>. DEFINE W == {k \in Nat : \E f : Digits(f, k)}
<1>0. Base \in Nat /\ Base > 1
  BY PartsAssumption
<1>1. 0 \in W
  <2>. DEFINE f == [i \in 0..0 |-> <<0>>]
  <2>1. Digits(f, 0)
    BY <1>0 DEF Digits
  <2>. HIDE DEF f
  <2>. QED  BY <2>1
<1>2. ASSUME NEW k \in W  PROVE k + 1 \in W
  <2>1. k \in Nat
    OBVIOUS
  <2>2. PICK f : Digits(f, k)
    OBVIOUS
  <2>. DEFINE B(g, n) == IF n < Base THEN <<n>> ELSE Append(g[n \div Base], n % Base)
              h == [i \in 0..(k + 1) |-> IF i <= k THEN f[i] ELSE B(f, k + 1)]
  <2>3. \A i \in 0..k : f[i] = B(f, i)
    BY <2>2 DEF Digits
  <2>. HIDE DEF W
  <2>4. \A i \in 0..k : h[i] = f[i]
    BY <2>1
  <2>5. ASSUME NEW i \in 0..(k + 1)  PROVE h[i] = B(h, i)
    <3>1. i >= Base => i \div Base \in 0..k
      <4>1. i \in Nat
        BY <2>1
      <4>. QED  BY <2>1, <4>1, OneDigitLess
    <3>2. i >= Base => h[i \div Base] = f[i \div Base]
      BY <2>4, <3>1
    <3>3. i \in Nat /\ (~(i < Base) => i >= Base)
      BY <1>0, <2>1
    <3>. HIDE DEF h
    <3>4. B(h, i) = B(f, i)
      BY <3>2, <3>3
    <3>. USE DEF h
    <3>5. h[i] = B(f, i)
      <4>1. CASE i <= k
        <5>1. h[i] = f[i] /\ i \in 0..k
          BY <2>1, <4>1
        <5>. QED  BY <2>3, <5>1
      <4>2. CASE i = k + 1
        <5>1. h[i] = B(f, k + 1)
          BY <2>1, <4>2
        <5>. QED  BY <4>2, <5>1
      <4>. QED  BY <2>1, <4>1, <4>2
    <3>. QED  BY <3>4, <3>5
  <2>6. h = [i \in 0..(k + 1) |-> B(h, i)]
    BY <2>5
  <2>. HIDE DEF h
  <2>7. Digits(h, k + 1)
    BY <2>6 DEF Digits
  <2>. USE DEF W
  <2>. QED  BY <2>1, <2>7
<1>3. Nat \subseteq W
  <2>. HIDE DEF W
  <2>. QED  BY <1>1, <1>2, Induction
<1>. QED  BY <1>3

(* Two such functions agree where both are defined.                         *)
LEMMA DigitsUnique ==
    ASSUME NEW u \in Nat, NEW v \in Nat, NEW f, NEW g, Digits(f, u), Digits(g, v)
    PROVE  \A k \in Nat : k <= u /\ k <= v => f[k] = g[k]
<1>. DEFINE Bad == {k \in Nat : k <= u /\ k <= v /\ f[k] # g[k]}
<1>. SUFFICES ASSUME Bad # {}  PROVE FALSE
  OBVIOUS
<1>1. PICK k \in Bad : \A m \in Bad : k <= m
  <2>1. Bad \in SUBSET Nat
    OBVIOUS
  <2>. HIDE DEF Bad
  <2>. QED  BY <2>1, Least
<1>2. k \in Nat /\ k <= u /\ k <= v /\ f[k] # g[k]
  OBVIOUS
<1>3. /\ f[k] = IF k < Base THEN <<k>> ELSE Append(f[k \div Base], k % Base)
      /\ g[k] = IF k < Base THEN <<k>> ELSE Append(g[k \div Base], k % Base)
  <2>1. k \in 0..u /\ k \in 0..v
    BY <1>2
  <2>2. /\ \A i \in 0..u : f[i] = IF i < Base THEN <<i>> ELSE Append(f[i \div Base], i % Base)
        /\ \A i \in 0..v : g[i] = IF i < Base THEN <<i>> ELSE Append(g[i \div Base], i % Base)
    BY DEF Digits
  <2>. HIDE DEF Bad
  <2>. QED  BY <2>1, <2>2
<1>4. k >= Base
  BY <1>2, <1>3, PartsAssumption
<1>5. k \div Base \in Nat /\ k \div Base < k
  BY <1>2, <1>4, OneDigitLess
<1>6. k \div Base \notin Bad
  <2>1. ~(k <= k \div Base)
    BY <1>2, <1>5
  <2>. HIDE DEF Bad
  <2>. QED  BY <1>1, <2>1
<1>7. f[k \div Base] = g[k \div Base]
  BY <1>2, <1>5, <1>6
<1>. QED  BY <1>2, <1>3, <1>7

(* The recursive definition does what it says.                              *)
LEMMA IdRule ==
    ASSUME NEW n \in Nat
    PROVE  Id(n) = IF n < Base THEN <<n>> ELSE Append(Id(n \div Base), n % Base)
<1>. DEFINE F(u) == CHOOSE f : Digits(f, u)
<1>1. \A u \in Nat : Digits(F(u), u)
  BY DigitsExist
<1>2. \A u : Id(u) = F(u)[u]
  BY DEF Id, G!Uint64ToID, Digits
<1>. HIDE DEF F
<1>3. Id(n) = IF n < Base THEN <<n>> ELSE Append(F(n)[n \div Base], n % Base)
  BY <1>1, <1>2 DEF Digits
<1>4. CASE n >= Base
  <2>. DEFINE m == n \div Base
  <2>1. m \in Nat /\ m <= n /\ m <= m
    BY <1>4, OneDigitLess
  <2>. HIDE DEF m
  <2>2. Digits(F(n), n) /\ Digits(F(m), m)
    BY <1>1, <2>1
  <2>3. F(n)[m] = F(m)[m]
    BY <2>1, <2>2, DigitsUnique
  <2>. QED  BY <1>2, <1>3, <2>3 DEF m
<1>5. CASE n < Base
  BY <1>3, <1>5
<1>. QED  BY <1>4, <1>5, PartsAssumption

(* An id is a sequence of at least one digit, by induction on the number.   *)
LEMMA IdShape == \A n \in Nat : Id(n) \in Seq(Nat) /\ Len(Id(n)) > 0
<1>. DEFINE Good(n) == Id(n) \in Seq(Nat) /\ Len(Id(n)) > 0
            Bad == {n \in Nat : ~Good(n)}
<1>. SUFFICES ASSUME Bad # {}  PROVE FALSE
  OBVIOUS
<1>1. PICK k \in Bad : \A m \in Bad : k <= m
  <2>1. Bad \in SUBSET Nat
    OBVIOUS
  <2>. HIDE DEF Bad
  <2>. QED  BY <2>1, Least
<1>. HIDE DEF Good
<1>2. k \in Nat /\ ~Good(k)
  OBVIOUS
<1>3. CASE k < Base
  <2>1. Id(k) = <<k>>
    BY <1>2, <1>3, IdRule
  <2>. QED  BY <1>2, <2>1 DEF Good
<1>4. CASE k >= Base
  <2>. DEFINE m == k \div Base
              r == k % Base
  <2>1. m \in Nat /\ m < k /\ r \in Nat
    BY <1>2, <1>4, OneDigitLess
  <2>2. Id(k) = Append(Id(m), r)
    <3>1. ~(k < Base)
      BY <1>2, <1>4, PartsAssumption
    <3>. QED  BY <1>2, <3>1, IdRule
  <2>. HIDE DEF m, r
  <2>3. Good(m)
    <3>1. ~(k <= m)
      BY <1>2, <2>1
    <3>2. m \notin Bad
      <4>. HIDE DEF Bad
      <4>. QED  BY <1>1, <3>1
    <3>. QED  BY <2>1, <3>2
  <2>. QED  BY <1>2, <2>1, <2>2, <2>3 DEF Good
<1>. QED  BY <1>2, <1>3, <1>4, PartsAssumption

(* Two lists with one more entry each are equal only if both parts are.     *)
LEMMA AppendOnce ==
    ASSUME NEW s \in Seq(Nat), NEW t \in Seq(Nat), NEW p \in Nat, NEW q \in Nat
    PROVE  Append(s, p) = Append(t, q) => s = t /\ p = q
<1>1. /\ Len(Append(s, p)) = Len(s) + 1 /\ Append(s, p)[Len(s) + 1] = p
      /\ \A i \in 1..Len(s) : Append(s, p)[i] = s[i]
  OBVIOUS
<1>2. /\ Len(Append(t, q)) = Len(t) + 1 /\ Append(t, q)[Len(t) + 1] = q
      /\ \A i \in 1..Len(t) : Append(t, q)[i] = t[i]
  OBVIOUS
<1>. HAVE Append(s, p) = Append(t, q)
<1>3. Len(s) = Len(t)
  BY <1>1, <1>2
<1>4. p = q /\ \A i \in 1..Len(s) : s[i] = t[i]
  BY <1>1, <1>2, <1>3
<1>. QED  BY <1>3, <1>4, SeqEqual

(* Numbers have different ids.                                              *)
LEMMA IdsDiffer == \A m, n \in Nat : Id(m) = Id(n) => m = n
<1>. DEFINE Bad == {m \in Nat : \E n \in Nat : Id(m) = Id(n) /\ m # n}
<1>. SUFFICES ASSUME Bad # {}  PROVE FALSE
  OBVIOUS
<1>1. PICK m \in Bad : \A k \in Bad : m <= k
  <2>1. Bad \in SUBSET Nat
    OBVIOUS
  <2>. HIDE DEF Bad
  <2>. QED  BY <2>1, Least
<1>2. m \in Nat
  OBVIOUS
<1>3. PICK n \in Nat : Id(m) = Id(n) /\ m # n
  OBVIOUS
<1>4. Base \in Nat /\ Base > 1
  BY PartsAssumption
<1>5. ASSUME NEW k \in Nat
      PROVE  /\ k < Base => Id(k) = <<k>> /\ Len(Id(k)) = 1
             /\ k >= Base => /\ Id(k) = Append(Id(k \div Base), k % Base)
                             /\ Len(Id(k)) = Len(Id(k \div Base)) + 1 /\ Len(Id(k)) > 1
  <2>1. CASE k < Base
    BY <1>4, <2>1, IdRule
  <2>2. CASE k >= Base
    <3>1. k \div Base \in Nat
      BY OneDigitLess
    <3>2. Id(k) = Append(Id(k \div Base), k % Base)
      <4>1. ~(k < Base)
        BY <1>4, <2>2
      <4>. QED  BY <4>1, IdRule
    <3>3. Id(k \div Base) \in Seq(Nat) /\ Len(Id(k \div Base)) > 0
      BY <3>1, IdShape
    <3>4. Len(Id(k)) = Len(Id(k \div Base)) + 1 /\ Len(Id(k \div Base)) \in Nat
      BY <3>2, <3>3
    <3>. QED  BY <1>4, <2>2, <3>2, <3>3, <3>4
  <2>. QED  BY <1>4, <2>1, <2>2
<1>6. CASE m < Base
  <2>1. n < Base
    <3>1. Len(Id(n)) = 1
      BY <1>2, <1>3, <1>5, <1>6
    <3>2. ~(n >= Base)
      BY <1>5, <3>1
    <3>. QED  BY <1>4, <3>2
  <2>2. <<m>> = <<n>>
    BY <1>2, <1>3, <1>5, <1>6, <2>1
  <2>. QED  BY <1>3, <2>2
<1>7. CASE m >= Base
  <2>1. n >= Base
    <3>1. Len(Id(n)) > 1
      BY <1>2, <1>3, <1>5, <1>7
    <3>2. ASSUME n < Base  PROVE FALSE
      <4>1. Len(Id(n)) = 1
        BY <1>5, <3>2
      <4>. QED  BY <3>1, <4>1
    <3>. QED  BY <1>4, <3>2
  <2>. DEFINE a == m \div Base
              b == n \div Base
              p == m % Base
              q == n % Base
  <2>2. a \in Nat /\ b \in Nat /\ a < m
    BY <1>2, <1>7, OneDigitLess
  <2>3. m = a * Base + p /\ n = b * Base + q
    BY <1>2, <1>3, OneDigitLess
  <2>4. Append(Id(a), p) = Append(Id(b), q)
    BY <1>2, <1>3, <1>5, <1>7, <2>1
  <2>. HIDE DEF a, b, p, q
  <2>5. Id(a) \in Seq(Nat) /\ Id(b) \in Seq(Nat)
    BY <2>2, IdShape
  <2>6. p \in Nat /\ q \in Nat
    BY <1>2, <1>3, OneDigitLess, PartsAssumption DEF p, q
  <2>7. Id(a) = Id(b) /\ p = q
    BY <2>4, <2>5, <2>6, AppendOnce
  <2>8. a \notin Bad
    <3>1. ~(m <= a)
      BY <1>2, <2>2
    <3>. HIDE DEF Bad
    <3>. QED  BY <1>1, <3>1
  <2>9. a = b
    BY <2>2, <2>7, <2>8
  <2>. QED  BY <1>3, <2>3, <2>7, <2>9
<1>. QED  BY <1>2, <1>4, <1>6, <1>7

(* Each id has a shard.                                                     *)
LEMMA ShardOfId == \A q \in Seq(Nat) : G!Bucket(q) \in 0..(Shards - 1)
<1>. SUFFICES ASSUME NEW q \in Seq(Nat)  PROVE G!Bucket(q) \in 0..(Shards - 1)
  OBVIOUS
<1>. DEFINE l == Len(q)
            g == [i \in 1..l |-> [v \in Nat |-> v * 31 + q[i]]]
            Step(f) == [i \in 0..l |-> IF i = 0 THEN 0 ELSE f[i - 1] * 31 + q[i]]
            hash == CHOOSE f : f = Step(f)
<1>1. q \in Seq(Nat) /\ l \in Nat
  OBVIOUS
<1>2. G!Bucket(q) = hash[l] % Shards
  BY DEF G!Bucket
<1>3. g \in [1..l -> [Nat -> Nat]]
  BY <1>1
<1>4. PICK f : Loop(f, l, Nat, 0, g)
  <2>. HIDE DEF g, l
  <2>. QED  BY <1>1, <1>3, Recursion
<1>5. f = Step(f)
  <2>1. ASSUME NEW i \in 0..l, i # 0  PROVE g[i][f[i - 1]] = f[i - 1] * 31 + q[i]
    <3>1. i \in 1..l /\ i - 1 \in 0..l
      BY <1>1, <2>1
    <3>2. f[i - 1] \in Nat
      BY <1>4, <3>1 DEF Loop
    <3>. QED  BY <3>1, <3>2
  <2>. QED  BY <1>4, <2>1 DEF Loop
<1>6. hash = Step(hash)
  <2>. HIDE DEF Step
  <2>. QED  BY <1>5
<1>. HIDE DEF hash
<1>7. hash[l] \in Nat
  <2>. DEFINE W == {k \in Nat : k <= l => hash[k] \in Nat}
  <2>0. \A i \in 0..l : hash[i] = IF i = 0 THEN 0 ELSE hash[i - 1] * 31 + q[i]
    BY <1>6
  <2>1. 0 \in W
    BY <1>1, <2>0
  <2>2. ASSUME NEW k \in Nat, k <= l => hash[k] \in Nat, k + 1 <= l  PROVE hash[k + 1] \in Nat
    <3>1. k + 1 \in 0..l /\ k + 1 \in 1..l /\ (k + 1) - 1 = k /\ k + 1 # 0 /\ k <= l
      BY <1>1, <2>2
    <3>2. hash[k + 1] = hash[k] * 31 + q[k + 1]
      BY <2>0, <3>1
    <3>3. hash[k] \in Nat /\ q[k + 1] \in Nat
      BY <1>1, <2>2, <3>1
    <3>. QED  BY <3>2, <3>3
  <2>3. \A k \in W : k + 1 \in W
    BY <2>2
  <2>4. Nat \subseteq W
    <3>. HIDE DEF W
    <3>. QED  BY <2>1, <2>3, Induction
  <2>. QED  BY <1>1, <2>4
<1>8. \A a \in Nat : a % Shards \in 0..(Shards - 1)
  BY PartsAssumption
<1>. QED  BY <1>2, <1>7, <1>8

Given == {Id(n) : n \in 1..sequence_id}

(* A thread about to register an id that nobody chose has one that was      *)
(* given out to it alone and never registered.                              *)
Fresh(t) ==
    thread[t].op = "spawn" /\ thread[t].id \notin Names =>
        /\ thread[t].id \in Given /\ thread[t].id \notin used
        /\ \A u \in Threads \ {t} : thread[u].op = "spawn" => thread[u].id # thread[t].id
IdsInv ==
    /\ sequence_id \in Nat /\ sequence_id <= MaxIds
    /\ thread = [t \in Threads |-> thread[t]]
    /\ \A e \in local_pids : e.id \in used
    /\ used \subseteq Given \cup Names /\ reused \subseteq Names
    /\ \A t \in Threads : Fresh(t)

(* What is found in a shard that was cleared was added to it afterwards.    *)
AfterClear(e) == G!Bucket(e.id) < cleared => e.since > G!Bucket(e.id)
ShardsInv ==
    /\ cleared \in Nat
    /\ ~stopped => cleared = 0
    /\ \A e \in local_pids : AfterClear(e)

(* An id that was registered is a list of digits, so it has a shard.        *)
LEMMA ShardOfEntry ==
    ASSUME IdsInv, NEW e \in local_pids
    PROVE  G!Bucket(e.id) \in 0..(Shards - 1)
<1>1. e.id \in Given \cup Names
  BY DEF IdsInv
<1>2. e.id \in Seq(Nat)
  <2>1. CASE e.id \in Names
    BY <2>1, PartsAssumption
  <2>2. CASE e.id \in Given
    <3>1. PICK n \in 1..sequence_id : e.id = Id(n)
      BY <2>2 DEF Given
    <3>2. n \in Nat
      BY DEF IdsInv
    <3>. QED  BY <3>1, <3>2, IdShape
  <2>. QED  BY <1>1, <2>1, <2>2
<1>. QED  BY <1>2, ShardOfId

(* A number not used yet gives an id not given yet.                         *)
LEMMA NewIdIsNew ==
    ASSUME sequence_id \in Nat, sequence_id < MaxIds
    PROVE  /\ Id(sequence_id + 1) \notin Given
           /\ {Id(n) : n \in 1..(sequence_id + 1)} = Given \cup {Id(sequence_id + 1)}
<1>1. \A n \in 1..sequence_id : n \in Nat /\ n # sequence_id + 1
  OBVIOUS
<1>2. sequence_id + 1 \in Nat
  OBVIOUS
<1>3. Id(sequence_id + 1) \notin Given
  BY <1>1, <1>2, IdsDiffer DEF Given
<1>4. \A n : n \in 1..(sequence_id + 1) <=> n \in 1..sequence_id \/ n = sequence_id + 1
  OBVIOUS
<1>5. {Id(n) : n \in 1..(sequence_id + 1)} = Given \cup {Id(sequence_id + 1)}
  BY <1>4 DEF Given
<1>. QED  BY <1>3, <1>5

(* A step that registers nothing, with no thread that begins to.            *)
LEMMA FewerIds ==
    ASSUME IdsInv, sequence_id' = sequence_id, local_pids' \subseteq local_pids,
           used' = used, reused' = reused,
           thread' = [t \in Threads |-> thread'[t]],
           \A t \in Threads : thread'[t].op = "spawn" => thread'[t] = thread[t]
    PROVE  IdsInv'
<1>1. Given' = Given
  BY DEF Given
<1>2. ASSUME NEW t \in Threads  PROVE Fresh(t)'
  BY <1>1 DEF IdsInv, Fresh
<1>. QED  BY <1>1, <1>2 DEF IdsInv

(* A generated id stays unique through every operation of the registry.     *)
LEMMA IdsStay == ASSUME IdsInv, G!Next  PROVE IdsInv'
<1>1. ASSUME NEW t \in Threads, NEW op, G!NextID(t, op)  PROVE IdsInv'
  <2>. DEFINE x == Id(sequence_id + 1)
  <2>1. /\ sequence_id < MaxIds /\ sequence_id' = sequence_id + 1
        /\ thread' = [thread EXCEPT ![t] = [op |-> op, id |-> x]]
        /\ local_pids' = local_pids /\ used' = used /\ reused' = reused
    BY <1>1 DEF G!NextID, G!history, Id
  <2>2. sequence_id \in Nat
    BY DEF IdsInv
  <2>3. Given' = Given \cup {x} /\ x \notin Given
    <3>1. x \notin Given /\ {Id(n) : n \in 1..(sequence_id + 1)} = Given \cup {x}
      BY <2>1, <2>2, NewIdIsNew
    <3>2. Given' = {Id(n) : n \in 1..(sequence_id + 1)}
      BY <2>1 DEF Given, Id
    <3>. QED  BY <3>1, <3>2
  <2>4. sequence_id' \in Nat /\ sequence_id' <= MaxIds
    BY <2>1, <2>2, PartsAssumption
  <2>. HIDE DEF x
  <2>5. /\ thread'[t] = [op |-> op, id |-> x] /\ thread'[t].id = x
        /\ \A u \in Threads : u # t => thread'[u] = thread[u]
        /\ thread' = [u \in Threads |-> thread'[u]]
    BY <2>1 DEF IdsInv
  <2>6. ASSUME NEW u \in Threads  PROVE Fresh(u)'
    <3>1. CASE u = t
      BY <2>1, <2>3, <2>5, <3>1 DEF IdsInv, Fresh
    <3>2. CASE u # t
      BY <2>1, <2>3, <2>5, <3>2 DEF IdsInv, Fresh
    <3>. QED  BY <3>1, <3>2
  <2>. QED  BY <2>1, <2>3, <2>4, <2>5, <2>6 DEF IdsInv
<1>2. ASSUME NEW t \in Threads, G!Add(t)  PROVE IdsInv'
  <2>. DEFINE i == thread[t].id
  <2>1. /\ thread[t].op = "spawn" /\ thread' = [thread EXCEPT ![t] = G!Out]
        /\ sequence_id' = sequence_id
    BY <1>2 DEF G!Add
  <2>2. Given' = Given
    BY <2>1 DEF Given
  <2>3. /\ thread'[t].op # "spawn" /\ \A u \in Threads : u # t => thread'[u] = thread[u]
        /\ thread' = [u \in Threads |-> thread'[u]]
    BY <2>1 DEF IdsInv, G!Out
  <2>4. CASE G!Registered(i)
    <3>1. local_pids' = local_pids /\ used' = used /\ reused' = reused
      BY <1>2, <2>4 DEF G!Add, G!history
    <3>. QED  BY <2>1, <2>3, <3>1, FewerIds
  <2>5. CASE ~G!Registered(i)
    <3>1. /\ local_pids' = local_pids \cup {[id |-> i, since |-> cleared]}
          /\ used' = used \cup {i} /\ reused' = reused \cup ({i} \cap used)
      BY <1>2, <2>5 DEF G!Add
    <3>2. i \in Given \cup Names /\ (i \in used => i \in Names)
      BY <2>1 DEF IdsInv, Fresh
    <3>3. \A e \in local_pids' : e.id \in used'
      BY <3>1 DEF IdsInv
    <3>4. used' \subseteq Given' \cup Names /\ reused' \subseteq Names
      BY <2>2, <3>1, <3>2 DEF IdsInv
    <3>5. ASSUME NEW u \in Threads  PROVE Fresh(u)'
      BY <2>1, <2>2, <2>3, <3>1 DEF IdsInv, Fresh
    <3>. QED  BY <2>1, <2>3, <3>3, <3>4, <3>5 DEF IdsInv
  <2>. QED  BY <2>4, <2>5
<1>3. ASSUME NEW t \in Threads, NEW id, G!Remove(t, id)  PROVE IdsInv'
  BY <1>3, FewerIds DEF G!Remove, G!history, IdsInv
<1>4. ASSUME NEW t \in Threads, NEW x, x.op # "spawn", thread' = [thread EXCEPT ![t] = x],
             sequence_id' = sequence_id, local_pids' = local_pids, used' = used, reused' = reused
      PROVE  IdsInv'
  <2>1. /\ thread' = [u \in Threads |-> thread'[u]]
        /\ \A u \in Threads : thread'[u].op = "spawn" => thread'[u] = thread[u]
    BY <1>4 DEF IdsInv
  <2>. QED  BY <1>4, <2>1, FewerIds
<1>5. ASSUME NEW t \in Threads, NEW id, G!Get(t, id)  PROVE IdsInv'
  <2>. DEFINE o == IF G!Registered(id) THEN "found"
                   ELSE IF dead_letter THEN "dead letter" ELSE "lost"
              x == [G!Out EXCEPT !.op = o]
  <2>1. x.op = o /\ o # "spawn"
    BY DEF G!Out
  <2>2. thread' = [thread EXCEPT ![t] = x]
        /\ sequence_id' = sequence_id /\ local_pids' = local_pids /\ used' = used /\ reused' = reused
    BY <1>5 DEF G!Get, G!history
  <2>. HIDE DEF x
  <2>. QED  BY <1>4, <2>1, <2>2
<1>6. ASSUME NEW t \in Threads, G!Returns(t) \/ G!NewFutureThrows(t)  PROVE IdsInv'
  <2>1. G!Out.op # "spawn"
    BY DEF G!Out
  <2>2. thread' = [thread EXCEPT ![t] = G!Out]
        /\ sequence_id' = sequence_id /\ local_pids' = local_pids /\ used' = used /\ reused' = reused
    BY <1>6 DEF G!Returns, G!NewFutureThrows, G!history
  <2>. QED  BY <1>4, <2>1, <2>2
<1>7. CASE G!Shutdown \/ G!Clear \/ G!DropParts
  BY <1>7, FewerIds DEF G!Shutdown, G!Clear, G!DropParts, G!history, IdsInv
<1>8. ASSUME NEW t \in Threads, NEW name \in Names, G!SpawnNamed(t, name)  PROVE IdsInv'
  <2>1. /\ thread' = [thread EXCEPT ![t] = [op |-> "spawn", id |-> name]]
        /\ sequence_id' = sequence_id /\ local_pids' = local_pids /\ used' = used /\ reused' = reused
    BY <1>8 DEF G!SpawnNamed, G!history
  <2>2. Given' = Given
    BY <2>1 DEF Given
  <2>3. /\ thread'[t].id = name /\ \A u \in Threads : u # t => thread'[u] = thread[u]
        /\ thread' = [u \in Threads |-> thread'[u]]
    BY <2>1 DEF IdsInv
  <2>4. ASSUME NEW u \in Threads  PROVE Fresh(u)'
    BY <2>1, <2>2, <2>3 DEF IdsInv, Fresh
  <2>. QED  BY <2>1, <2>2, <2>3, <2>4 DEF IdsInv
<1>. QED  BY <1>1, <1>2, <1>3, <1>5, <1>6, <1>7, <1>8 DEF G!Next

(* Shutdown clears the shards in order; what is added behind it is young.   *)
LEMMA ShardsStay == ASSUME IdsInv, ShardsInv, G!Next  PROVE ShardsInv'
<1>1. ASSUME cleared' = cleared, stopped' = stopped, local_pids' \subseteq local_pids
      PROVE  ShardsInv'
  BY <1>1 DEF ShardsInv, AfterClear
<1>2. ASSUME NEW t \in Threads, G!Add(t)  PROVE ShardsInv'
  <2>. DEFINE new == [id |-> thread[t].id, since |-> cleared]
  <2>1. /\ cleared' = cleared /\ stopped' = stopped
        /\ \A e \in local_pids' : e \in local_pids \/ e = new
    BY <1>2 DEF G!Add
  <2>2. ASSUME NEW e \in local_pids'  PROVE AfterClear(e)'
    BY <2>1 DEF AfterClear, ShardsInv
  <2>. QED  BY <2>1, <2>2 DEF ShardsInv
<1>3. CASE G!Shutdown
  BY <1>3 DEF G!Shutdown, ShardsInv, AfterClear
<1>4. CASE G!Clear
  <2>1. /\ stopped /\ stopped' = stopped /\ cleared' = cleared + 1
        /\ \A e \in local_pids' : e \in local_pids /\ G!Bucket(e.id) # cleared
    BY <1>4 DEF G!Clear
  <2>2. ASSUME NEW e \in local_pids'  PROVE AfterClear(e)'
    <3>. DEFINE b == G!Bucket(e.id)
    <3>1. e \in local_pids
      BY <2>1
    <3>2. b \in 0..(Shards - 1) /\ b # cleared /\ cleared \in Nat
      BY <2>1, <3>1, ShardOfEntry DEF ShardsInv
    <3>3. b < cleared => e.since > b
      BY <3>1 DEF ShardsInv, AfterClear
    <3>. HIDE DEF b
    <3>4. b < cleared + 1 => b < cleared
      BY <3>2, PartsAssumption
    <3>. QED  BY <2>1, <3>3, <3>4 DEF AfterClear, b
  <2>. QED  BY <2>1, <2>2 DEF ShardsInv
<1>5. ASSUME NEW t \in Threads, NEW id, G!Remove(t, id)  PROVE ShardsInv'
  BY <1>1, <1>5 DEF G!Remove
<1>6. ASSUME NEW t \in Threads, NEW op, NEW id,
             \/ G!NextID(t, op) \/ G!SpawnNamed(t, id) \/ G!NewFutureThrows(t)
             \/ G!Returns(t) \/ G!Get(t, id)
      PROVE  ShardsInv'
  <2>1. cleared' = cleared /\ stopped' = stopped /\ local_pids' = local_pids
    BY <1>6 DEF G!NextID, G!SpawnNamed, G!NewFutureThrows, G!Returns, G!Get
  <2>. QED  BY <1>1, <2>1
<1>7. CASE G!DropParts
  BY <1>1, <1>7 DEF G!DropParts
<1>. QED  BY <1>2, <1>3, <1>4, <1>5, <1>6, <1>7 DEF G!Next

(* Once Shutdown has cleared every shard, whatever the registry still finds *)
(* was added behind it, under a caller's name or not, and an id of NextID   *)
(* that no caller chose as a name never stands for a second process.        *)
THEOREM OldIdsAreGone == Spec => []ShutdownForgets
<1>. DEFINE Inv == IdsInv /\ ShardsInv
<1>1. Init => Inv
  <2>. SUFFICES ASSUME Init  PROVE IdsInv /\ ShardsInv
    OBVIOUS
  <2>1. /\ sequence_id = 0 /\ local_pids = {} /\ used = {} /\ reused = {} /\ cleared = 0
        /\ thread = [t \in Threads |-> [op |-> "out", id |-> <<>>]]
    BY DEF Init, G!Init, G!Out
  <2>2. IdsInv
    BY <2>1, PartsAssumption DEF IdsInv, Fresh
  <2>3. ShardsInv
    BY <2>1 DEF ShardsInv
  <2>. QED  BY <2>2, <2>3
<1>2. Inv /\ [Next]_vars => Inv'
  <2>. SUFFICES ASSUME IdsInv, ShardsInv, [Next]_vars  PROVE IdsInv' /\ ShardsInv'
    OBVIOUS
  <2>1. CASE G!Next
    BY <2>1, IdsStay, ShardsStay
  <2>2. CASE UNCHANGED registryVars
    BY <2>2 DEF registryVars, IdsInv, ShardsInv, AfterClear, Fresh, Given
  <2>. QED  BY <2>1, <2>2, OnePartMoves
<1>3. Inv => ShutdownForgets
  <2>. SUFFICES ASSUME IdsInv, ShardsInv, cleared = Shards, NEW e \in local_pids
                PROVE  e.since > G!Bucket(e.id)
    BY DEF ShutdownForgets, G!ShutdownForgets, IdsInv
  <2>1. G!Bucket(e.id) \in 0..(Shards - 1)
    BY ShardOfEntry
  <2>2. G!Bucket(e.id) < cleared
    BY <2>1, PartsAssumption
  <2>. QED  BY <2>2 DEF ShardsInv, AfterClear
<1>. QED  BY <1>1, <1>2, <1>3, PTL DEF Spec

-----------------------------------------------------------------------------
(* Timers                                                                   *)

TimerRecord == [kind : {"none", "once", "repeat"}, state : 0..2, cancelled : BOOLEAN,
                pc : {"none", "spin", "sleep", "check", "send", "handler", "done"}, late : 0..2,
                joined : BOOLEAN]

(* A timer: a message sent after the cancellation was the last one.         *)
GoodTimer(r) ==
    /\ r \in TimerRecord
    /\ r.kind = "none" <=> r.pc = "none"
    /\ r.kind = "once" => r.pc \in {"sleep", "send", "handler", "done"} /\ r.state = 0
    /\ r.kind = "repeat" /\ r.cancelled => r.state = 2
    /\ r.late = 0 \/ r.late = 1
    /\ r.late = 1 => \/ r.pc = "done"
                     \/ r.kind = "once" /\ r.pc = "handler"
                     \/ r.kind = "repeat" /\ r.state = 2 /\ r.pc \in {"sleep", "check", "handler"}
    /\ r.joined => r.pc = "done"

(* A call of a cancel function: who is in it and what it has done so far.   *)
GoodCall(c, r, f) ==
    /\ r = T!Idle \/ r \in [slot : T!Slots, step : {"store", "join"}]
    /\ r.slot = "receive" => c = T!Actor
    /\ r.step = "store" => f[r.slot].kind = "repeat" /\ f[r.slot].state = 2

(* The actor starts its next receive timer when its own call has joined the *)
(* one before.                                                              *)
Rearming == rearm => \/ call[T!Actor] = [slot |-> "receive", step |-> "join"]
                     \/ call[T!Actor] = T!Idle /\ ~T!Held("receive")

TimersInv ==
    /\ timer = [s \in T!Slots |-> timer[s]] /\ call = [c \in Callers |-> call[c]]
    /\ \A s \in T!Slots : GoodTimer(timer[s])
    /\ \A c \in Callers : GoodCall(c, call[c], timer)
    /\ timer["receive"].kind # "repeat"
    /\ Rearming
    /\ ~dropped

(* The threads that may cancel include the actor.                           *)
LEMMA ActorCalls == T!Actor \in Callers
  BY PartsAssumption DEF T!Actor

(* Each step of a timer's thread keeps it good.                             *)
LEMMA PcMoves ==
    ASSUME NEW r, GoodTimer(r), r.kind # "none", r.pc # "done",
           NEW p \in {"sleep", "check", "send", "done"},
           r.kind = "once" => p \in {"send", "done"},
           p = "send" => r.pc = "sleep" \/ r.state # 2,
           r.kind = "repeat" /\ p = "send" => r.state # 2,
           r.kind = "once" /\ p = "send" => r.late = 0,
           p = "sleep" => r.pc \in {"spin", "send", "handler"}
    PROVE  LET q == [r EXCEPT !.pc = p]
           IN  /\ GoodTimer(q) /\ q.kind = r.kind /\ q.state = r.state /\ q.joined = r.joined
               /\ q.pc = p /\ q.cancelled = r.cancelled /\ q.late = r.late
<1>. DEFINE q == [r EXCEPT !.pc = p]
<1>1. r \in TimerRecord
  BY DEF GoodTimer
<1>2. /\ q \in TimerRecord /\ q.kind = r.kind /\ q.state = r.state /\ q.joined = r.joined
      /\ q.pc = p /\ q.cancelled = r.cancelled /\ q.late = r.late
  BY <1>1 DEF TimerRecord
<1>. HIDE DEF q
<1>3. /\ q.kind = "none" <=> q.pc = "none"
      /\ q.kind = "once" => q.pc \in {"sleep", "send", "handler", "done"} /\ q.state = 0
      /\ q.late = 0 \/ q.late = 1
  BY <1>2 DEF GoodTimer
<1>4. q.late = 1 => \/ q.pc = "done"
                    \/ q.kind = "once" /\ q.pc = "handler"
                    \/ q.kind = "repeat" /\ q.state = 2 /\ q.pc \in {"sleep", "check", "handler"}
  <2>1. r.late = 1 => \/ r.pc = "done"
                      \/ r.kind = "once" /\ r.pc = "handler"
                      \/ r.kind = "repeat" /\ r.state = 2 /\ r.pc \in {"sleep", "check", "handler"}
    BY DEF GoodTimer
  <2>2. r.kind \in {"once", "repeat"}
    BY <1>1 DEF TimerRecord
  <2>. QED  BY <1>2, <2>1, <2>2
<1>5. (q.kind = "repeat" /\ q.cancelled => q.state = 2) /\ (q.joined => q.pc = "done")
  BY <1>2, Zenon DEF GoodTimer
<1>6. GoodTimer(q)
  BY <1>2, <1>3, <1>4, <1>5, Zenon DEF GoodTimer
<1>. QED  BY <1>2, <1>6 DEF q

(* The fields of a timer, after a cancel call and after a message.          *)
Fields(q, k, st, cancel, p, n, join) ==
    /\ q \in TimerRecord
    /\ q.kind = k /\ q.state = st /\ q.cancelled = cancel
    /\ q.pc = p /\ q.late = n /\ q.joined = join

LEMMA CancelFields ==
    ASSUME NEW r \in TimerRecord, NEW b \in BOOLEAN, NEW n \in 0..2,
           NEW q, q = [r EXCEPT !.cancelled = b, !.state = n]
    PROVE  Fields(q, r.kind, n, b, r.pc, r.late, r.joined)
  BY DEF TimerRecord, Fields

LEMMA SendFields ==
    ASSUME NEW r \in TimerRecord, NEW n \in 0..2,
           NEW p \in {"none", "spin", "sleep", "check", "send", "handler", "done"},
           NEW q, q = [r EXCEPT !.pc = p, !.late = n]
    PROVE  Fields(q, r.kind, r.state, r.cancelled, p, n, r.joined)
  BY DEF TimerRecord, Fields

(* What a cancel call does to a timer.                                      *)
Cancelled(r) == [r EXCEPT !.cancelled = @ \/ r.kind = "once",
                          !.state = IF r.kind = "repeat" THEN 2 ELSE @]

LEMMA CancelKeeps ==
    ASSUME NEW r, GoodTimer(r), r.kind # "none"
    PROVE  LET q == Cancelled(r)
           IN  /\ GoodTimer(q) /\ q.kind = r.kind /\ q.pc = r.pc /\ q.joined = r.joined
               /\ (r.state = 2 => q.state = 2)
               /\ (r.kind = "repeat" => q.state = 2)
<1>. DEFINE q == Cancelled(r)
            b == (r.cancelled \/ r.kind = "once")
            n == IF r.kind = "repeat" THEN 2 ELSE r.state
<1>1. r \in TimerRecord
  BY DEF GoodTimer
<1>2. b \in BOOLEAN
  OBVIOUS
<1>3. n \in 0..2 /\ (r.kind = "repeat" => n = 2) /\ (r.kind # "repeat" => n = r.state)
      /\ (r.state = 2 => n = 2)
  BY <1>1 DEF TimerRecord
<1>4. q = [r EXCEPT !.cancelled = b, !.state = n]
  BY DEF Cancelled
<1>. HIDE DEF q, b, n
<1>5. Fields(q, r.kind, n, b, r.pc, r.late, r.joined)
  BY <1>1, <1>2, <1>3, <1>4, CancelFields
<1>6. /\ q \in TimerRecord /\ q.kind = r.kind /\ q.state = n /\ q.joined = r.joined
      /\ q.pc = r.pc /\ q.cancelled = b /\ q.late = r.late
  BY <1>5, Zenon DEF Fields
<1>7. /\ q.kind = "none" <=> q.pc = "none"
      /\ q.kind = "once" => q.pc \in {"sleep", "send", "handler", "done"} /\ q.state = 0
      /\ q.late = 0 \/ q.late = 1
      /\ q.late = 1 => \/ q.pc = "done"
                       \/ q.kind = "once" /\ q.pc = "handler"
                       \/ q.kind = "repeat" /\ q.state = 2 /\ q.pc \in {"sleep", "check", "handler"}
  BY <1>3, <1>6 DEF GoodTimer
<1>8. (q.kind = "repeat" /\ q.cancelled => q.state = 2) /\ (q.joined => q.pc = "done")
  <2>1. r.joined => r.pc = "done"
    BY DEF GoodTimer
  <2>. QED  BY <1>3, <1>6, <2>1, Zenon
<1>9. GoodTimer(q)
  BY <1>6, <1>7, <1>8, Zenon DEF GoodTimer
<1>10. (r.state = 2 => q.state = 2) /\ (r.kind = "repeat" => q.state = 2)
  BY <1>3, <1>6, Zenon
<1>. QED  BY <1>6, <1>9, <1>10 DEF q

(* The message of the thread: only the first of them after a cancellation   *)
(* is counted, and the thread sees the flags before it sends another.       *)
LEMMA SendKeeps ==
    ASSUME NEW r, GoodTimer(r), r.pc = "send", NEW p \in {"done", "sleep", "handler"},
           p = "done" => r.kind = "once", p = "sleep" => r.kind # "once"
    PROVE  LET q == [r EXCEPT !.pc = p,
                              !.late = IF (r.cancelled \/ r.state = 2) /\ @ < 2
                                       THEN @ + 1 ELSE @]
           IN  /\ GoodTimer(q) /\ q.kind = r.kind /\ q.state = r.state /\ q.joined = r.joined
               /\ q.pc # "none"
<1>. DEFINE b == r.cancelled \/ r.state = 2
            n == IF b /\ r.late < 2 THEN r.late + 1 ELSE r.late
            q == [r EXCEPT !.pc = p, !.late = n]
<1>1. r \in TimerRecord
  BY DEF GoodTimer
<1>2. r.late = 0
  <2>1. r.late # 1
    BY DEF GoodTimer
  <2>. QED  BY <2>1 DEF GoodTimer
<1>3. r.kind \in {"once", "repeat"} /\ r.joined = FALSE
  <2>1. r.kind # "none" /\ ~r.joined
    BY DEF GoodTimer
  <2>2. r.kind \in {"none", "once", "repeat"} /\ r.joined \in BOOLEAN
    BY <1>1 DEF TimerRecord
  <2>. QED  BY <2>1, <2>2
<1>4. n \in {0, 1} /\ (n = 1 => b)
  BY <1>2
<1>5. (r.kind = "once" => p # "sleep") /\ (r.kind # "once" => p # "done")
  OBVIOUS
<1>6. r.kind = "repeat" => (b => r.state = 2)
  <2>1. r.kind = "repeat" /\ r.cancelled => r.state = 2
    BY DEF GoodTimer
  <2>. QED  BY <2>1, Zenon
<1>7. q = [r EXCEPT !.pc = p, !.late = n]
  OBVIOUS
<1>. HIDE DEF q, n, b
<1>8. n \in 0..2 /\ p \in {"none", "spin", "sleep", "check", "send", "handler", "done"}
  BY <1>4, <1>5
<1>9. Fields(q, r.kind, r.state, r.cancelled, p, n, r.joined)
  BY <1>1, <1>7, <1>8, SendFields
<1>10. /\ q \in TimerRecord /\ q.kind = r.kind /\ q.state = r.state /\ q.joined = r.joined
      /\ q.pc = p /\ q.cancelled = r.cancelled /\ q.late = n
  BY <1>9, Zenon DEF Fields
<1>11. /\ q.kind = "none" <=> q.pc = "none"
       /\ q.kind = "once" => q.pc \in {"sleep", "send", "handler", "done"} /\ q.state = 0
       /\ q.late = 0 \/ q.late = 1
  BY <1>3, <1>4, <1>5, <1>10 DEF GoodTimer
<1>12. q.late = 1 => \/ q.pc = "done"
                     \/ q.kind = "once" /\ q.pc = "handler"
                     \/ q.kind = "repeat" /\ q.state = 2 /\ q.pc \in {"sleep", "check", "handler"}
  BY <1>3, <1>4, <1>5, <1>6, <1>10
<1>13. (q.kind = "repeat" /\ q.cancelled => q.state = 2) /\ (q.joined => q.pc = "done")
  <2>1. r.kind = "repeat" /\ r.cancelled => r.state = 2
    BY DEF GoodTimer
  <2>. QED  BY <1>3, <1>10, <2>1, Zenon
<1>14. GoodTimer(q)
  BY <1>10, <1>11, <1>12, <1>13, Zenon DEF GoodTimer
<1>15. q.pc # "none"
  BY <1>5, <1>10
<1>. QED  BY <1>10, <1>14, <1>15 DEF q, n, b

(* The other fields, one at a time.                                         *)
LEMMA OneField ==
    ASSUME NEW r, GoodTimer(r)
    PROVE  /\ (r.kind = "repeat" /\ r.state = 0) =>
                 LET q == [r EXCEPT !.state = 1]
                 IN  GoodTimer(q) /\ Fields(q, r.kind, 1, r.cancelled, r.pc, r.late, r.joined)
           /\ (r.kind = "repeat" /\ r.state = 2) =>
                 LET q == [r EXCEPT !.cancelled = TRUE]
                 IN  GoodTimer(q) /\ Fields(q, r.kind, r.state, TRUE, r.pc, r.late, r.joined)
           /\ r.pc = "done" =>
                 LET q == [r EXCEPT !.joined = TRUE]
                 IN  GoodTimer(q) /\ Fields(q, r.kind, r.state, r.cancelled, r.pc, r.late, TRUE)
<1>1. r \in TimerRecord
  BY DEF GoodTimer
<1>2. /\ (r.kind = "none" <=> r.pc = "none")
      /\ (r.kind = "once" => r.pc \in {"sleep", "send", "handler", "done"} /\ r.state = 0)
      /\ (r.kind = "repeat" /\ r.cancelled => r.state = 2)
      /\ (r.late = 0 \/ r.late = 1)
      /\ (r.late = 1 => \/ r.pc = "done"
                        \/ r.kind = "once" /\ r.pc = "handler"
                        \/ r.kind = "repeat" /\ r.state = 2 /\ r.pc \in {"sleep", "check", "handler"})
      /\ (r.joined => r.pc = "done")
  BY DEF GoodTimer
<1>3. ASSUME r.kind = "repeat", r.state = 0, NEW q, q = [r EXCEPT !.state = 1]
      PROVE  GoodTimer(q) /\ Fields(q, r.kind, 1, r.cancelled, r.pc, r.late, r.joined)
  <2>1. Fields(q, r.kind, 1, r.cancelled, r.pc, r.late, r.joined)
    BY <1>1, <1>3 DEF TimerRecord, Fields
  <2>2. q.late = 1 => q.pc = "done"
    BY <1>2, <1>3, <2>1 DEF Fields
  <2>3. ~q.cancelled
    <3>1. ~r.cancelled
      BY <1>2, <1>3
    <3>. QED  BY <2>1, <3>1, Zenon DEF Fields
  <2>. QED  BY <1>2, <1>3, <2>1, <2>2, <2>3, Zenon DEF Fields, GoodTimer
<1>4. ASSUME r.kind = "repeat", r.state = 2, NEW q, q = [r EXCEPT !.cancelled = TRUE]
      PROVE  GoodTimer(q) /\ Fields(q, r.kind, r.state, TRUE, r.pc, r.late, r.joined)
  <2>1. Fields(q, r.kind, r.state, TRUE, r.pc, r.late, r.joined)
    BY <1>1, <1>4 DEF TimerRecord, Fields
  <2>. QED  BY <1>2, <1>4, <2>1, Zenon DEF Fields, GoodTimer
<1>5. ASSUME r.pc = "done", NEW q, q = [r EXCEPT !.joined = TRUE]
      PROVE  GoodTimer(q) /\ Fields(q, r.kind, r.state, r.cancelled, r.pc, r.late, TRUE)
  <2>1. Fields(q, r.kind, r.state, r.cancelled, r.pc, r.late, TRUE)
    BY <1>1, <1>5 DEF TimerRecord, Fields
  <2>. QED  BY <1>2, <1>5, <2>1, Zenon DEF Fields, GoodTimer
<1>. QED  BY <1>3, <1>4, <1>5

(* A new thread takes the slot of one that was joined.                      *)
LEMMA BeginKeeps ==
    ASSUME TimersInv, NEW s \in T!Slots, ~T!Held(s), NEW k \in {"once", "repeat"},
           T!Begin(s, k)
    PROVE  /\ timer' = [x \in T!Slots |-> timer'[x]]
           /\ \A x \in T!Slots : GoodTimer(timer'[x])
           /\ \A x \in T!Slots : x # s => timer'[x] = timer[x]
           /\ timer'[s].kind = k /\ ~dropped'
<1>. DEFINE p == IF k = "once" THEN "sleep" ELSE "spin"
            q == [T!NoTimer EXCEPT !.kind = k, !.pc = p]
<1>1. Fields(q, k, 0, FALSE, p, 0, FALSE)
  <2>1. Fields(T!NoTimer, "none", 0, FALSE, "none", 0, FALSE)
    BY DEF T!NoTimer, Fields, TimerRecord
  <2>2. p \in {"sleep", "spin"}
    OBVIOUS
  <2>. HIDE DEF p
  <2>. QED  BY <2>1, <2>2 DEF Fields, TimerRecord
<1>2. GoodTimer(q) /\ q.kind = k
  <2>1. k = "once" => p = "sleep"
    OBVIOUS
  <2>2. p # "none" /\ k # "none"
    OBVIOUS
  <2>. HIDE DEF q, p
  <2>. QED  BY <1>1, <2>1, <2>2 DEF GoodTimer, Fields
<1>3. timer' = [timer EXCEPT ![s] = q] /\ dropped' = (dropped \/ T!Held(s))
  BY DEF T!Begin
<1>. HIDE DEF q
<1>4. timer'[s] = q /\ \A x \in T!Slots : x # s => timer'[x] = timer[x]
  BY <1>3 DEF TimersInv
<1>. QED  BY <1>2, <1>3, <1>4 DEF TimersInv

(* A step of a timer's thread, or of the function that started it, leaves   *)
(* every call as it was.                                                    *)
LEMMA ThreadKeeps ==
    ASSUME TimersInv, NEW s \in T!Slots, NEW q, GoodTimer(q),
           q.kind = timer[s].kind, timer[s].state = 2 => q.state = 2,
           q.joined <=> timer[s].joined, q.pc = "none" <=> timer[s].pc = "none",
           timer' = [timer EXCEPT ![s] = q], UNCHANGED <<call, rearm, dropped>>
    PROVE  TimersInv'
<1>1. /\ timer' = [x \in T!Slots |-> timer'[x]]
      /\ timer'[s] = q /\ \A x \in T!Slots : x # s => timer'[x] = timer[x]
  BY DEF TimersInv
<1>2. \A x \in T!Slots : GoodTimer(timer'[x])
  BY <1>1 DEF TimersInv
<1>3. /\ timer'["receive"].kind # "repeat"
      /\ ~T!Held("receive") => ~T!Held("receive")'
  <2>1. "receive" \in T!Slots
    BY DEF T!Slots
  <2>. QED  BY <1>1, <2>1 DEF TimersInv, T!Held
<1>4. ASSUME NEW c \in Callers  PROVE GoodCall(c, call'[c], timer')
  <2>1. GoodCall(c, call[c], timer)
    BY DEF TimersInv
  <2>2. call[c].step = "store" => call[c].slot \in T!Slots
    BY <2>1 DEF GoodCall, T!Idle
  <2>. QED  BY <1>1, <2>1, <2>2 DEF GoodCall
<1>5. Rearming'
  BY <1>3 DEF TimersInv, Rearming
<1>. QED  BY <1>1, <1>2, <1>3, <1>4, <1>5 DEF TimersInv

(* So it does for the steps of a thread.                                    *)
LEMMA ThreadSteps ==
    ASSUME TimersInv, NEW s \in T!Slots, T!Ready(s) \/ T!Thread(s) \/ T!HandlerReturns(s)
    PROVE  TimersInv'
<1>. DEFINE r == timer[s]
<1>1. GoodTimer(r) /\ r \in TimerRecord
  BY DEF TimersInv, GoodTimer
<1>2. /\ (r.kind = "none" <=> r.pc = "none")
      /\ (r.kind = "once" => r.pc \in {"sleep", "send", "handler", "done"} /\ r.state = 0)
      /\ (r.late = 0 \/ r.late = 1)
      /\ (r.late = 1 => \/ r.pc = "done"
                        \/ r.kind = "once" /\ r.pc = "handler"
                        \/ r.kind = "repeat" /\ r.state = 2 /\ r.pc \in {"sleep", "check", "handler"})
      /\ r.kind \in {"none", "once", "repeat"}
  BY <1>1 DEF GoodTimer, TimerRecord
<1>3. CASE T!Ready(s)
  <2>1. /\ r.kind = "repeat" /\ r.state = 0 /\ UNCHANGED <<call, rearm, dropped>>
        /\ timer' = [timer EXCEPT ![s] = [r EXCEPT !.state = 1]]
    BY <1>3 DEF T!Ready
  <2>. DEFINE q == [r EXCEPT !.state = 1]
  <2>2. GoodTimer(q) /\ Fields(q, r.kind, 1, r.cancelled, r.pc, r.late, r.joined)
    BY <1>1, <2>1, OneField
  <2>3. timer' = [timer EXCEPT ![s] = q]
    BY <2>1
  <2>. HIDE DEF q
  <2>4. q.kind = r.kind /\ q.pc = r.pc /\ q.joined = r.joined
    BY <2>2, Zenon DEF Fields
  <2>5. (r.state = 2 => q.state = 2) /\ (q.pc = "none" <=> r.pc = "none")
    BY <2>1, <2>4
  <2>. QED  BY <2>1, <2>2, <2>3, <2>4, <2>5, ThreadKeeps
<1>4. ASSUME NEW p, T!Goes(s, p), p \in {"sleep", "check", "send", "done"},
             r.kind # "none", r.pc # "done",
             r.kind = "once" => p \in {"send", "done"},
             p = "send" => r.pc = "sleep" \/ r.state # 2,
             r.kind = "repeat" /\ p = "send" => r.state # 2,
             r.kind = "once" /\ p = "send" => r.late = 0,
             p = "sleep" => r.pc \in {"spin", "send", "handler"}
      PROVE  TimersInv'
  <2>1. /\ timer' = [timer EXCEPT ![s] = [r EXCEPT !.pc = p]]
        /\ UNCHANGED <<call, rearm, dropped>>
    BY <1>4 DEF T!Goes
  <2>. DEFINE q == [r EXCEPT !.pc = p]
  <2>2. GoodTimer(q) /\ q.kind = r.kind /\ q.state = r.state /\ q.joined = r.joined /\ q.pc = p
    BY <1>1, <1>4, PcMoves, ZenonT(60)
  <2>. HIDE DEF q
  <2>3. q.pc = "none" <=> r.pc = "none"
    BY <1>2, <1>4, <2>2
  <2>. QED  BY <2>1, <2>2, <2>3, ThreadKeeps DEF q
<1>5. CASE T!SpinEnds(s)
  <2>1. r.pc = "spin" /\ T!Goes(s, IF r.state = 2 THEN "done" ELSE "sleep")
    BY <1>5 DEF T!SpinEnds
  <2>2. r.kind = "repeat"
    BY <1>2, <2>1
  <2>. QED  BY <1>4, <2>1, <2>2
<1>6. CASE T!Wakes(s)
  <2>1. r.pc = "sleep" /\ T!Goes(s, IF r.cancelled THEN "done"
                                   ELSE IF r.kind = "once" THEN "send" ELSE "check")
    BY <1>6 DEF T!Wakes
  <2>2. r.kind \in {"once", "repeat"} /\ (r.kind = "once" => r.late = 0)
    BY <1>2, <2>1
  <2>3. CASE T!Goes(s, "done")
    BY <1>4, <2>1, <2>2, <2>3
  <2>4. CASE T!Goes(s, "send") /\ r.kind = "once"
    BY <1>4, <2>1, <2>2, <2>4
  <2>5. CASE T!Goes(s, "check") /\ r.kind # "once"
    BY <1>4, <2>1, <2>2, <2>5
  <2>6. T!Goes(s, "done") \/ (T!Goes(s, "send") /\ r.kind = "once")
        \/ (T!Goes(s, "check") /\ r.kind # "once")
    BY <2>1
  <2>. QED  BY <2>3, <2>4, <2>5, <2>6
<1>7. CASE T!ChecksState(s)
  <2>1. r.pc = "check" /\ T!Goes(s, IF r.state = 2 THEN "done" ELSE "send")
    BY <1>7 DEF T!ChecksState
  <2>2. r.kind = "repeat"
    BY <1>2, <2>1
  <2>. QED  BY <1>4, <2>1, <2>2
<1>8. CASE T!Sends(s)
  <2>1. PICK p \in {T!AfterMessage(s), "handler"} :
           timer' = [timer EXCEPT ![s] =
              [timer[s] EXCEPT
                 !.pc = p,
                 !.late = IF (timer[s].cancelled \/ timer[s].state = 2) /\ @ < 2
                          THEN @ + 1 ELSE @]]
    BY <1>8, Zenon DEF T!Sends
  <2>2. r.pc = "send" /\ UNCHANGED <<call, rearm, dropped>>
    BY <1>8 DEF T!Sends
  <2>3. /\ p \in {"done", "sleep", "handler"}
        /\ (p = "done" => r.kind = "once") /\ (p = "sleep" => r.kind # "once")
    BY <2>1 DEF T!AfterMessage
  <2>. DEFINE q == [r EXCEPT !.pc = p,
                             !.late = IF (r.cancelled \/ r.state = 2) /\ @ < 2
                                      THEN @ + 1 ELSE @]
  <2>4. /\ GoodTimer(q) /\ q.kind = r.kind /\ q.state = r.state /\ q.joined = r.joined
        /\ q.pc # "none"
    BY <1>1, <2>2, <2>3, SendKeeps
  <2>5. timer' = [timer EXCEPT ![s] = q]
    BY <2>1, Zenon
  <2>. HIDE DEF q
  <2>. QED  BY <2>2, <2>4, <2>5, ThreadKeeps
<1>9. ASSUME r.pc \in {"send", "handler"}, T!Goes(s, T!AfterMessage(s))  PROVE TimersInv'
  <2>1. r.kind \in {"once", "repeat"}
    BY <1>2, <1>9
  <2>2. CASE r.kind = "once"
    <3>1. T!Goes(s, "done")
      BY <1>9, <2>2 DEF T!AfterMessage
    <3>. QED  BY <1>4, <1>9, <2>2, <3>1
  <2>3. CASE r.kind = "repeat"
    <3>1. T!Goes(s, "sleep")
      BY <1>9, <2>3 DEF T!AfterMessage
    <3>. QED  BY <1>4, <1>9, <2>3, <3>1
  <2>. QED  BY <2>1, <2>2, <2>3
<1>10. CASE T!UsesFreed(s)
  <2>1. CASE T!Goes(s, T!AfterMessage(s))
    BY <1>9, <1>10, <2>1 DEF T!UsesFreed
  <2>2. CASE UNCHANGED <<timer, call, receive_timeout, rearm, dropped, inline>>
    BY <2>2 DEF TimersInv, Rearming, T!Held
  <2>. QED  BY <1>10, <2>1, <2>2 DEF T!UsesFreed
<1>11. CASE T!HandlerReturns(s)
  BY <1>9, <1>11 DEF T!HandlerReturns
<1>. QED  BY <1>3, <1>5, <1>6, <1>7, <1>8, <1>10, <1>11 DEF T!Thread

(* A step of a cancel function moves one timer and one call.                *)
LEMMA CallKeeps ==
    ASSUME TimersInv, NEW s \in T!Slots, NEW c \in Callers, NEW q, NEW r, GoodTimer(q),
           q.kind = timer[s].kind, timer[s].state = 2 => q.state = 2,
           timer' = [timer EXCEPT ![s] = q], call' = [call EXCEPT ![c] = r], dropped' = dropped
    PROVE  /\ timer'[s] = q /\ \A x \in T!Slots : x # s => timer'[x] = timer[x]
           /\ call'[c] = r /\ \A d \in Callers : d # c => call'[d] = call[d]
           /\ GoodCall(c, r, timer') /\ Rearming' => TimersInv'
<1>1. /\ timer' = [x \in T!Slots |-> timer'[x]]
      /\ timer'[s] = q /\ \A x \in T!Slots : x # s => timer'[x] = timer[x]
  BY DEF TimersInv
<1>2. /\ call' = [d \in Callers |-> call'[d]]
      /\ call'[c] = r /\ \A d \in Callers : d # c => call'[d] = call[d]
  BY DEF TimersInv
<1>3. \A x \in T!Slots : GoodTimer(timer'[x])
  BY <1>1 DEF TimersInv
<1>4. timer'["receive"].kind # "repeat"
  <2>1. "receive" \in T!Slots
    BY DEF T!Slots
  <2>. QED  BY <1>1, <2>1 DEF TimersInv
<1>5. ASSUME NEW d \in Callers, d # c  PROVE GoodCall(d, call'[d], timer')
  <2>1. GoodCall(d, call[d], timer) /\ call'[d] = call[d]
    BY <1>2, <1>5 DEF TimersInv
  <2>2. call[d].step = "store" => call[d].slot \in T!Slots
    BY <2>1 DEF GoodCall, T!Idle
  <2>. QED  BY <1>1, <2>1, <2>2 DEF GoodCall
<1>6. ASSUME GoodCall(c, r, timer'), Rearming'  PROVE TimersInv'
  BY <1>1, <1>2, <1>3, <1>4, <1>5, <1>6 DEF TimersInv
<1>. QED  BY <1>1, <1>2, <1>6

(* The first section of a cancel function, by a thread that may call it.    *)
LEMMA CancelStep ==
    ASSUME TimersInv, NEW c \in Callers, NEW s \in T!Slots, timer[s].kind # "none",
           s = "receive" => c = T!Actor, NEW b, T!Cancel(c, s, b)
    PROVE  /\ Rearming' => TimersInv'
           /\ \A x \in T!Slots : x # s => timer'[x] = timer[x]
           /\ \A d \in Callers : d # c => call'[d] = call[d]
           /\ timer[s].kind = "once" /\ ~timer[s].joined =>
                 call'[c] = [slot |-> s, step |-> "join"]
<1>. DEFINE q == Cancelled(timer[s])
            r == IF timer[s].kind = "once"
                 THEN IF timer[s].joined THEN T!Idle ELSE [slot |-> s, step |-> "join"]
                 ELSE IF timer[s].state = 2 THEN T!Idle ELSE [slot |-> s, step |-> "store"]
<1>1. timer' = [timer EXCEPT ![s] = q] /\ call' = [call EXCEPT ![c] = r] /\ dropped' = dropped
  BY DEF T!Cancel, Cancelled
<1>2. /\ GoodTimer(q) /\ q.kind = timer[s].kind
      /\ (timer[s].state = 2 => q.state = 2) /\ (timer[s].kind = "repeat" => q.state = 2)
  <2>1. GoodTimer(timer[s])
    BY DEF TimersInv
  <2>. QED  BY <2>1, CancelKeeps
<1>3. timer[s].kind \in {"once", "repeat"}
  BY DEF TimersInv, GoodTimer, TimerRecord
<1>4. \/ r = T!Idle \/ r = [slot |-> s, step |-> "join"]
      \/ r = [slot |-> s, step |-> "store"] /\ timer[s].kind # "once"
  BY Zenon
<1>5. timer[s].kind = "once" /\ ~timer[s].joined => r = [slot |-> s, step |-> "join"]
  BY Zenon
<1>. HIDE DEF q, r
<1>6. /\ timer'[s] = q /\ \A x \in T!Slots : x # s => timer'[x] = timer[x]
      /\ call'[c] = r /\ \A d \in Callers : d # c => call'[d] = call[d]
      /\ GoodCall(c, r, timer') /\ Rearming' => TimersInv'
  BY <1>1, <1>2, CallKeeps
<1>7. GoodCall(c, r, timer')
  <2>1. GoodCall(c, T!Idle, timer')
    BY DEF GoodCall, T!Idle
  <2>2. GoodCall(c, [slot |-> s, step |-> "join"], timer')
    BY DEF GoodCall
  <2>3. CASE r = [slot |-> s, step |-> "store"] /\ timer[s].kind # "once"
    BY <1>2, <1>3, <1>6, <2>3 DEF GoodCall
  <2>. QED  BY <1>4, <2>1, <2>2, <2>3
<1>. QED  BY <1>5, <1>6, <1>7

(* The steps of the actor on its receive timeout, and of whoever starts the *)
(* other timer.                                                             *)
LEMMA StartSteps ==
    ASSUME TimersInv,
           \/ T!StartOther \/ T!StartReceiveTimer \/ T!CancelReceiveTimeout
           \/ \E t \in Timeouts : T!SetReceiveTimeout(t)
    PROVE  TimersInv'
<1>a. T!Actor \in Callers /\ "receive" \in T!Slots /\ "other" \in T!Slots
  BY ActorCalls DEF T!Slots
<1>b. \A x \in T!Slots : GoodTimer(timer[x])
  BY DEF TimersInv
<1>1. CASE T!StartOther
  <2>1. PICK k \in {"once", "repeat"} : T!Begin("other", k)
    BY <1>1 DEF T!StartOther, T!SendOnce, T!RequestOnce, T!SendRepeatedly, T!RequestRepeatedly
  <2>2. /\ ~T!Held("other") /\ \A c \in Callers : call[c].slot # "other"
        /\ call' = call /\ rearm' = rearm
    BY <1>1 DEF T!StartOther
  <2>3. /\ timer' = [x \in T!Slots |-> timer'[x]]
        /\ \A x \in T!Slots : GoodTimer(timer'[x])
        /\ timer'["receive"] = timer["receive"] /\ ~dropped'
    BY <1>a, <2>1, <2>2, BeginKeeps
  <2>4. ASSUME NEW c \in Callers  PROVE GoodCall(c, call'[c], timer')
    <3>1. GoodCall(c, call[c], timer)
      BY DEF TimersInv
    <3>2. call[c].step = "store" => call[c].slot = "receive"
      BY <2>2, <3>1 DEF GoodCall, T!Idle, T!Slots
    <3>. QED  BY <2>2, <2>3, <3>1, <3>2 DEF GoodCall
  <2>5. Rearming'
    BY <2>2, <2>3 DEF TimersInv, Rearming, T!Held
  <2>. QED  BY <2>2, <2>3, <2>4, <2>5 DEF TimersInv
<1>2. ASSUME T!SendOnce("receive"), ~T!Held("receive"), call[T!Actor] = T!Idle, call' = call,
             ~rearm'
      PROVE  TimersInv'
  <2>1. /\ timer' = [x \in T!Slots |-> timer'[x]]
        /\ \A x \in T!Slots : GoodTimer(timer'[x])
        /\ timer'["other"] = timer["other"] /\ timer'["receive"].kind = "once" /\ ~dropped'
    BY <1>a, <1>2, BeginKeeps DEF T!SendOnce
  <2>2. ASSUME NEW c \in Callers  PROVE GoodCall(c, call'[c], timer')
    <3>1. GoodCall(c, call[c], timer)
      BY DEF TimersInv
    <3>2. call[c].step = "store" => call[c].slot = "other"
      BY <3>1 DEF GoodCall, T!Idle, T!Slots, TimersInv
    <3>. QED  BY <1>2, <2>1, <3>1, <3>2 DEF GoodCall
  <2>. QED  BY <1>2, <2>1, <2>2 DEF TimersInv, Rearming
<1>3. CASE T!StartReceiveTimer
  <2>1. T!Idle # [slot |-> "receive", step |-> "join"]
    BY DEF T!Idle
  <2>2. ~T!Held("receive")
    BY <1>3, <2>1 DEF T!StartReceiveTimer, TimersInv, Rearming
  <2>. QED  BY <1>2, <1>3, <2>2 DEF T!StartReceiveTimer
<1>4. T!Held("receive") => timer["receive"].kind = "once" /\ ~timer["receive"].joined
  <2>1. timer["receive"].kind \in {"none", "once", "repeat"}
    BY <1>a, <1>b DEF GoodTimer, TimerRecord
  <2>2. timer["receive"].kind = "none" <=> timer["receive"].pc = "none"
    BY <1>a, <1>b DEF GoodTimer
  <2>. QED  BY <2>1, <2>2 DEF TimersInv, T!Held
<1>5. CASE T!CancelReceiveTimeout
  <2>1. T!Held("receive") /\ T!Cancel(T!Actor, "receive", FALSE) /\ rearm' = FALSE
    BY <1>5 DEF T!CancelReceiveTimeout, T!Cancel
  <2>2. Rearming'
    BY <2>1 DEF Rearming
  <2>. QED  BY <1>a, <1>4, <2>1, <2>2, CancelStep
<1>6. ASSUME NEW t \in Timeouts, T!SetReceiveTimeout(t)  PROVE TimersInv'
  <2>1. CASE T!Held("receive")
    <3>1. T!Cancel(T!Actor, "receive", t > 0)
      BY <1>6, <2>1 DEF T!SetReceiveTimeout
    <3>2. /\ Rearming' => TimersInv'
          /\ call'[T!Actor] = [slot |-> "receive", step |-> "join"]
      BY <1>a, <1>4, <2>1, <3>1, CancelStep
    <3>. QED  BY <3>2 DEF Rearming
  <2>2. CASE ~T!Held("receive")
    <3>1. call[T!Actor] = T!Idle /\ ~rearm
      BY <1>6 DEF T!SetReceiveTimeout
    <3>2. CASE T!SendOnce("receive") /\ UNCHANGED <<call, rearm>>
      BY <1>2, <2>2, <3>1, <3>2
    <3>3. CASE UNCHANGED <<timer, call, rearm, dropped>>
      BY <3>3 DEF TimersInv, Rearming, T!Held
    <3>. QED  BY <1>6, <2>2, <3>2, <3>3 DEF T!SetReceiveTimeout
  <2>. QED  BY <2>1, <2>2
<1>. QED  BY <1>1, <1>3, <1>5, <1>6

(* The steps of the callers inside a cancel function.                       *)
LEMMA CallSteps ==
    ASSUME TimersInv, NEW c \in Callers, T!CancelOther(c) \/ T!StoreCancelled(c) \/ T!Join(c)
    PROVE  TimersInv'
<1>. DEFINE s == call[c].slot
<1>a. T!Actor \in Callers /\ "receive" \in T!Slots /\ "other" \in T!Slots
  BY ActorCalls DEF T!Slots
<1>b. GoodCall(c, call[c], timer)
  BY DEF TimersInv
<1>c. call[c].step \in {"store", "join"} =>
         /\ call[c] \in [slot : T!Slots, step : {"store", "join"}]
         /\ s \in T!Slots /\ GoodTimer(timer[s]) /\ call[c] # T!Idle
  BY <1>b DEF GoodCall, T!Idle, TimersInv
<1>1. CASE T!CancelOther(c)
  <2>1. /\ ~(c = T!Actor /\ rearm) /\ timer["other"].kind # "none"
        /\ T!Cancel(c, "other", rearm) /\ rearm' = rearm
    BY <1>1 DEF T!CancelOther, T!Cancel
  <2>2. /\ Rearming' => TimersInv'
        /\ timer'["receive"] = timer["receive"]
        /\ \A d \in Callers : d # c => call'[d] = call[d]
    BY <1>a, <2>1, CancelStep
  <2>3. Rearming'
    BY <1>a, <2>1, <2>2 DEF TimersInv, Rearming, T!Held
  <2>. QED  BY <2>2, <2>3
<1>2. CASE T!StoreCancelled(c)
  <2>. DEFINE q == [timer[s] EXCEPT !.cancelled = TRUE]
              r == [call[c] EXCEPT !.step = "join"]
  <2>1. /\ call[c].step = "store" /\ rearm' = rearm /\ dropped' = dropped
        /\ timer' = [timer EXCEPT ![s] = q] /\ call' = [call EXCEPT ![c] = r]
    BY <1>2 DEF T!StoreCancelled
  <2>2. timer[s].kind = "repeat" /\ timer[s].state = 2
    BY <1>b, <2>1 DEF GoodCall
  <2>3. /\ GoodTimer(q)
        /\ Fields(q, timer[s].kind, timer[s].state, TRUE, timer[s].pc, timer[s].late,
                  timer[s].joined)
    BY <1>c, <2>1, <2>2, OneField
  <2>4. r \in [slot : T!Slots, step : {"store", "join"}] /\ r.slot = s /\ r.step = "join"
    BY <1>c, <2>1
  <2>5. s # "receive"
    BY <2>2 DEF TimersInv
  <2>. HIDE DEF q, r
  <2>6. q.kind = timer[s].kind /\ (timer[s].state = 2 => q.state = 2)
    BY <2>3 DEF Fields
  <2>6a. s \in T!Slots
    BY <1>c, <2>1
  <2>7. /\ \A x \in T!Slots : x # s => timer'[x] = timer[x]
        /\ \A d \in Callers : d # c => call'[d] = call[d]
        /\ GoodCall(c, r, timer') /\ Rearming' => TimersInv'
    BY <2>1, <2>3, <2>6, <2>6a, CallKeeps, ZenonT(60)
  <2>8. GoodCall(c, r, timer')
    BY <2>4, <2>5 DEF GoodCall
  <2>9. timer'["receive"] = timer["receive"]
    BY <1>a, <2>5, <2>7
  <2>10. rearm => call[T!Actor].step # "store"
    BY DEF TimersInv, Rearming, T!Idle
  <2>11. Rearming'
    BY <1>a, <2>1, <2>7, <2>9, <2>10 DEF TimersInv, Rearming, T!Held
  <2>. QED  BY <2>7, <2>8, <2>11
<1>3. CASE T!Join(c)
  <2>. DEFINE q == [timer[s] EXCEPT !.joined = TRUE]
  <2>1. /\ call[c].step = "join" /\ timer[s].pc = "done" /\ rearm' = rearm /\ dropped' = dropped
        /\ timer' = [timer EXCEPT ![s] = q] /\ call' = [call EXCEPT ![c] = T!Idle]
    BY <1>3 DEF T!Join
  <2>2. /\ GoodTimer(q)
        /\ Fields(q, timer[s].kind, timer[s].state, timer[s].cancelled, timer[s].pc,
                  timer[s].late, TRUE)
    BY <1>c, <2>1, OneField
  <2>. HIDE DEF q
  <2>3a. q.kind = timer[s].kind /\ (timer[s].state = 2 => q.state = 2)
    BY <2>2 DEF Fields
  <2>3. q.joined
    BY <2>2, Zenon DEF Fields
  <2>3b. s \in T!Slots
    BY <1>c, <2>1
  <2>4. /\ timer'[s] = q /\ \A x \in T!Slots : x # s => timer'[x] = timer[x]
        /\ call'[c] = T!Idle /\ \A d \in Callers : d # c => call'[d] = call[d]
        /\ GoodCall(c, T!Idle, timer') /\ Rearming' => TimersInv'
    BY <2>1, <2>2, <2>3a, <2>3b, CallKeeps, ZenonT(60)
  <2>5. GoodCall(c, T!Idle, timer')
    BY DEF GoodCall, T!Idle
  <2>6. CASE c = T!Actor
    <3>1. rearm => s = "receive"
      BY <1>c, <2>1, <2>6 DEF TimersInv, Rearming
    <3>2. rearm => ~T!Held("receive")'
      BY <2>3, <2>4, <3>1 DEF T!Held
    <3>. QED  BY <2>1, <2>4, <2>5, <2>6, <3>2 DEF Rearming
  <2>7. CASE c # T!Actor
    <3>1. s # "receive"
      BY <1>b, <2>7 DEF GoodCall
    <3>2. timer'["receive"] = timer["receive"] /\ call'[T!Actor] = call[T!Actor]
      BY <1>a, <2>4, <2>7, <3>1
    <3>3. Rearming'
      BY <2>1, <3>2 DEF TimersInv, Rearming, T!Held
    <3>. QED  BY <2>4, <2>5, <3>3
  <2>. QED  BY <2>6, <2>7
<1>. QED  BY <1>1, <1>2, <1>3

(* Cancelling a timer silences it: at most the message already on its way   *)
(* is sent after the first cancel call, none after a call has joined the    *)
(* thread, and no joinable thread loses its owner, for any number of        *)
(* callers and any sequence of receive timeouts.                            *)
THEOREM CancelledIsQuiet == Spec => []T!Quiet
<1>1. Init => TimersInv
  <2>. SUFFICES ASSUME Init PROVE TimersInv
    OBVIOUS
  <2>1. T!Init
    BY DEF Init
  <2>2. GoodTimer(T!NoTimer)
    BY DEF GoodTimer, TimerRecord, T!NoTimer
  <2>3. T!NoTimer.kind # "repeat"
    BY DEF T!NoTimer
  <2>4. \A c \in Callers : GoodCall(c, T!Idle, timer)
    BY DEF GoodCall, T!Idle
  <2>5. "receive" \in T!Slots
    BY DEF T!Slots
  <2>. QED  BY <2>1, <2>2, <2>3, <2>4, <2>5 DEF T!Init, TimersInv, Rearming
<1>2. TimersInv /\ [Next]_vars => TimersInv'
  <2>. SUFFICES ASSUME TimersInv, [Next]_vars PROVE TimersInv'
    OBVIOUS
  <2>1. CASE UNCHANGED timerVars
    BY <2>1 DEF timerVars, TimersInv, Rearming, T!Held
  <2>2. CASE T!JoinItself
    BY <2>2 DEF T!JoinItself, TimersInv, Rearming, T!Held
  <2>3. CASE T!Next
    BY <2>2, <2>3, ThreadSteps, CallSteps, StartSteps DEF T!Next
  <2>. QED  BY <2>1, <2>3, OnePartMoves
<1>3. TimersInv => T!Quiet
  <2>. SUFFICES ASSUME TimersInv PROVE T!Quiet
    OBVIOUS
  <2>1. ASSUME NEW s \in T!Slots
        PROVE  timer[s].late <= 1 /\ (timer[s].joined => timer[s].pc = "done")
    <3>1. GoodTimer(timer[s])
      BY DEF TimersInv
    <3>2. timer[s].late <= 1
      BY <3>1 DEF GoodTimer
    <3>3. timer[s].joined => timer[s].pc = "done"
      BY <3>1, Zenon DEF GoodTimer
    <3>. QED  BY <3>2, <3>3
  <2>. QED  BY <2>1, Zenon DEF T!Quiet, TimersInv
<1>. QED  BY <1>1, <1>2, <1>3, PTL DEF Spec

-----------------------------------------------------------------------------
(* Routers                                                                  *)

(* The place the next message goes to, counted from 0.                      *)
Place(a, n) == LET r == R!Remainder(a, n) IN IF r < 0 THEN r + n ELSE r

(* It goes around the list, also through the negative numbers.              *)
LEMMA PlaceNext ==
    ASSUME NEW n \in Nat, n > 0, NEW a \in Int
    PROVE  /\ Place(a, n) \in 0..(n - 1)
           /\ Place(a + 1, n) = IF Place(a, n) = n - 1 THEN 0 ELSE Place(a, n) + 1
<1>1. CASE a >= 0
  <2>1. a \in Nat /\ a + 1 \in Nat
    BY <1>1
  <2>2. a % n \in 0..(n - 1) /\ (a + 1) % n = IF a % n = n - 1 THEN 0 ELSE (a % n) + 1
    BY <2>1, NextRemainder
  <2>3. R!Remainder(a, n) = a % n /\ R!Remainder(a + 1, n) = (a + 1) % n
    BY <2>1 DEF R!Remainder
  <2>4. (a + 1) % n \in 0..(n - 1)
    BY <2>2
  <2>. QED  BY <2>2, <2>3, <2>4 DEF Place
<1>2. CASE a < 0
  <2>. DEFINE c == -(a + 1)
              r == c % n
  <2>1. c \in Nat /\ -a = c + 1
    BY <1>2
  <2>. HIDE DEF c
  <2>2. r \in 0..(n - 1) /\ (c + 1) % n = IF r = n - 1 THEN 0 ELSE r + 1
    BY <2>1, NextRemainder
  <2>. HIDE DEF r
  <2>3. R!Remainder(a, n) = IF r = n - 1 THEN 0 ELSE -(r + 1)
    <3>1. R!Remainder(a, n) = -((c + 1) % n)
      BY <1>2, <2>1 DEF R!Remainder
    <3>. QED  BY <2>2, <3>1
  <2>4. R!Remainder(a + 1, n) = -r
    <3>1. CASE a + 1 < 0
      <4>1. R!Remainder(a + 1, n) = -((-(a + 1)) % n)
        BY <3>1 DEF R!Remainder
      <4>. QED  BY <4>1 DEF c, r
    <3>2. CASE a + 1 = 0
      <4>1. c = 0 /\ R!Remainder(a + 1, n) = 0 % n
        BY <3>2 DEF R!Remainder, c
      <4>2. 0 % n = 0
        OBVIOUS
      <4>. QED  BY <4>1, <4>2 DEF r
    <3>. QED  BY <1>2, <3>1, <3>2
  <2>. QED  BY <2>2, <2>3, <2>4 DEF Place
<1>. QED  BY <1>1, <1>2

(* How far position j lies behind place p of a list of n, from 1 to n.      *)
Back(j, p, n) == IF j - 1 < p THEN p - (j - 1) ELSE (p - (j - 1)) + n

(* The k positions served last, of a list of n, have had one message more.  *)
Ahead(t, p, n, k) ==
    /\ t \in [1..n -> {0, 1}]
    /\ \A j \in 1..n : t[j] = IF Back(j, p, n) <= k THEN 1 ELSE 0

(* While no sender is set no message is sent.                               *)
RoutersInv ==
    /\ routees \in Seq(Pids) /\ group \in Seq(Pids)
    /\ sender \in BOOLEAN
    /\ kind = "RoundRobin" =>
         /\ index \in Int
         /\ \E k \in Nat : /\ k = 0 \/ k < Len(routees)
                           /\ ~sender => k = 0
                           /\ Ahead(turns, Place(index, Len(routees)), Len(routees), k)

(* The rotation begins anew.                                                *)
LEMMA NoneAhead ==
    ASSUME NEW n \in Nat, NEW a \in Int
    PROVE  Ahead(R!NoTurns(n), Place(a, n), n, 0)
<1>1. R!NoTurns(n) \in [1..n -> {0, 1}] /\ \A j \in 1..n : R!NoTurns(n)[j] = 0
  BY DEF R!NoTurns
<1>2. ASSUME NEW j \in 1..n  PROVE ~(Back(j, Place(a, n), n) <= 0)
  <2>1. Place(a, n) \in 0..(n - 1)
    BY PlaceNext
  <2>. QED  BY <2>1 DEF Back
<1>. QED  BY <1>1, <1>2 DEF Ahead

(* A message is one position's turn: it joins those served last, or all     *)
(* have had their turn and the count begins anew.                           *)
LEMMA TurnPasses ==
    ASSUME NEW n \in Nat, n > 0, NEW a \in Int, n = Len(routees),
           NEW k \in Nat, k = 0 \/ k < n, Ahead(turns, Place(a, n), n, k)
    PROVE  \E l \in Nat : /\ l = 0 \/ l < n
                          /\ Ahead(R!Served(R!Position(a)), Place(a + 1, n), n, l)
<1>. DEFINE p == Place(a, n)
            pp == Place(a + 1, n)
            t == [turns EXCEPT ![p + 1] = turns[p + 1] + 1]
            low == R!Low(t)
<1>1. p \in 0..(n - 1) /\ pp = IF p = n - 1 THEN 0 ELSE p + 1
  BY PlaceNext
<1>2. R!Position(a) = p + 1
  <2>1. R!Position(a) = 1 + Place(a, n)
    BY DEF R!Position, Place
  <2>. QED  BY <1>1, <2>1
<1>3. R!Served(R!Position(a)) = [j \in DOMAIN t |-> t[j] - low]
  BY <1>2 DEF R!Served
<1>4. turns \in [1..n -> {0, 1}] /\ \A j \in 1..n : turns[j] = IF Back(j, p, n) <= k THEN 1 ELSE 0
  BY DEF Ahead
<1>. HIDE DEF p, pp, low
<1>5. k < n
  OBVIOUS
<1>6. ASSUME NEW j \in 1..n
      PROVE  /\ j = p + 1 => Back(j, p, n) = n /\ Back(j, pp, n) = 1
             /\ j # p + 1 => Back(j, p, n) \in 1..(n - 1) /\ Back(j, pp, n) = Back(j, p, n) + 1
  BY <1>1 DEF Back
<1>7. turns[p + 1] = 0 /\ p + 1 \in 1..n
  <2>1. p + 1 \in 1..n
    BY <1>1
  <2>2. Back(p + 1, p, n) = n
    BY <1>6, <2>1
  <2>. QED  BY <1>4, <1>5, <2>1, <2>2
<1>8. DOMAIN t = 1..n /\ \A j \in 1..n : t[j] = IF j = p + 1 THEN 1 ELSE turns[j]
  BY <1>4, <1>7
<1>. HIDE DEF t
<1>9. \A j \in 1..n : t[j] = IF Back(j, pp, n) <= k + 1 THEN 1 ELSE 0
  BY <1>4, <1>6, <1>8
<1>10. low \in {t[j] : j \in 1..n} /\ \A j \in 1..n : low <= t[j]
  <2>1. \E m \in {t[j] : j \in DOMAIN t} : \A j \in DOMAIN t : m <= t[j]
    <3>1. CASE \E i \in 1..n : t[i] = 0
      <4>1. PICK i \in 1..n : t[i] = 0
        BY <3>1
      <4>2. \A j \in 1..n : 0 <= t[j]
        BY <1>9
      <4>. QED  BY <1>8, <4>1, <4>2
    <3>2. CASE \A i \in 1..n : t[i] # 0
      <4>1. \A j \in 1..n : t[j] = 1
        BY <1>9, <3>2
      <4>. QED  BY <1>7, <1>8, <4>1
    <3>. QED  BY <3>1, <3>2
  <2>2. low \in {t[j] : j \in DOMAIN t} /\ \A j \in DOMAIN t : low <= t[j]
    BY <2>1 DEF low, R!Low
  <2>. QED  BY <1>8, <2>2
<1>11. CASE k + 1 = n
  <2>1. \A j \in 1..n : t[j] = 1
    <3>1. \A j \in 1..n : Back(j, pp, n) <= n
      BY <1>1, <1>6
    <3>. QED  BY <1>9, <1>11, <3>1
  <2>2. low = 1
    BY <1>10, <2>1
  <2>3. [j \in DOMAIN t |-> t[j] - low] = R!NoTurns(n)
    BY <1>8, <2>1, <2>2 DEF R!NoTurns
  <2>4. Ahead(R!NoTurns(n), pp, n, 0)
    BY NoneAhead DEF pp
  <2>. QED  BY <1>3, <2>3, <2>4 DEF pp
<1>12. CASE k + 1 < n
  <2>1. t[IF pp = n - 1 THEN n ELSE pp + 1] = 0
    <3>. DEFINE j == pp + 1
    <3>1. j \in 1..n /\ pp \in 0..(n - 1)
      BY <1>1
    <3>2. Back(j, pp, n) = n
      BY <3>1 DEF Back
    <3>. QED  BY <1>9, <1>12, <3>1, <3>2
  <2>2. low = 0
    <3>1. (IF pp = n - 1 THEN n ELSE pp + 1) \in 1..n
      BY <1>1
    <3>2. low \in {0, 1} /\ low <= 0
      BY <1>9, <1>10, <2>1, <3>1
    <3>. QED  BY <3>2
  <2>3. [j \in DOMAIN t |-> t[j] - low] = [j \in 1..n |-> IF Back(j, pp, n) <= k + 1 THEN 1 ELSE 0]
    BY <1>8, <1>9, <2>2
  <2>4. Ahead([j \in 1..n |-> IF Back(j, pp, n) <= k + 1 THEN 1 ELSE 0], pp, n, k + 1)
    BY DEF Ahead
  <2>5. Ahead(R!Served(R!Position(a)), pp, n, k + 1) /\ k + 1 \in Nat
    BY <1>3, <2>3, <2>4
  <2>. QED  BY <1>12, <2>5 DEF pp
<1>. QED  BY <1>5, <1>11, <1>12

(* Without, under its name inside Routers.                                  *)
LEMMA RouterLists == \A q, x : R!Without(q, x) = Without(q, x)
  BY DEF R!Without, Without

(* Every operation of routers and groups keeps the rotation.                *)
LEMMA RoutersStay == ASSUME RoutersInv, R!Next  PROVE RoutersInv'
<1>1. ASSUME NEW g \in Seq(Pids), NEW al, R!GroupVars(g, al)  PROVE RoutersInv'
  BY <1>1 DEF R!GroupVars, RoutersInv
<1>2. ASSUME NEW m \in 1..MaxRoutees, NEW g \in [1..m -> Pids], R!GroupNew(g) \/ R!PoolNew(g)
      PROVE  RoutersInv'
  <2>1. g \in Seq(Pids)
    OBVIOUS
  <2>. QED  BY <1>1, <1>2, <2>1 DEF R!GroupNew, R!PoolNew, R!Spawn
<1>3. ASSUME NEW p \in Pids, R!AddRoutee(p) \/ R!RemoveRoutee(p)  PROVE RoutersInv'
  <2>1. Append(group, p) \in Seq(Pids) /\ R!Without(group, p) \in Seq(Pids)
    BY RouterLists, WithoutKeeps DEF RoutersInv
  <2>. QED  BY <1>1, <1>3, <2>1 DEF R!AddRoutee, R!RemoveRoutee
<1>4. CASE R!GroupStop \/ R!PoolStop
  <2>1. <<>> \in Seq(Pids)
    OBVIOUS
  <2>. QED  BY <1>1, <1>4, <2>1 DEF R!GroupStop, R!PoolStop
<1>5. CASE R!SetRoutees
  <2>1. /\ routees' = group /\ index' = 0 /\ turns' = R!NoTurns(Len(group))
        /\ UNCHANGED <<kind, sender, group>>
    BY <1>5 DEF R!SetRoutees
  <2>2. Len(group) \in Nat /\ group \in Seq(Pids)
    BY DEF RoutersInv
  <2>3. Ahead(turns', Place(index', Len(routees')), Len(routees'), 0)
    BY <2>1, <2>2, NoneAhead
  <2>. QED  BY <2>1, <2>2, <2>3 DEF RoutersInv
<1>6. ASSUME NEW b \in BOOLEAN, R!SetSender(b)  PROVE RoutersInv'
  <2>1. sender' = b /\ turns' = R!NoTurns(Len(routees)) /\ UNCHANGED <<kind, routees, index, group>>
    BY <1>6 DEF R!SetSender
  <2>2. Len(routees) \in Nat
    BY DEF RoutersInv
  <2>3. index \in Int => Ahead(turns', Place(index', Len(routees')), Len(routees'), 0)
    BY <2>1, <2>2, NoneAhead
  <2>. QED  BY <2>1, <2>3 DEF RoutersInv
<1>7. CASE R!RoundRobinRouteMessage
  <2>. DEFINE n == Len(routees)
  <2>1. /\ kind = "RoundRobin" /\ routees # <<>>
        /\ index' = (IF index = IntMax THEN -IntMax - 1 ELSE index + 1)
        /\ turns' = (IF index = IntMax THEN R!NoTurns(n)
                     ELSE IF sender THEN R!Served(R!Position(index)) ELSE turns)
        /\ UNCHANGED <<kind, sender, routees, group>>
    BY <1>7 DEF R!RoundRobinRouteMessage
  <2>2. n \in Nat /\ n > 0 /\ index \in Int /\ sender \in BOOLEAN
    BY <2>1 DEF RoutersInv
  <2>3. PICK k \in Nat : (k = 0 \/ k < n) /\ (~sender => k = 0) /\ Ahead(turns, Place(index, n), n, k)
    BY <2>1 DEF RoutersInv
  <2>4. ASSUME NEW l \in Nat, l = 0 \/ l < n, ~sender => l = 0, index' \in Int,
               Ahead(turns', Place(index', n), n, l)
        PROVE  RoutersInv'
    <3>1. Len(routees') = n /\ sender' = sender
      BY <2>1
    <3>. HIDE DEF n
    <3>2. \E j \in Nat : /\ j = 0 \/ j < Len(routees')
                         /\ ~sender' => j = 0
                         /\ Ahead(turns', Place(index', Len(routees')), Len(routees'), j)
      BY <2>4, <3>1
    <3>. QED  BY <2>1, <2>4, <3>2 DEF RoutersInv
  <2>. HIDE DEF n
  <2>5. CASE index = IntMax
    <3>1. index' \in Int /\ turns' = R!NoTurns(n)
      BY <2>1, <2>2, <2>5
    <3>2. Ahead(turns', Place(index', n), n, 0)
      BY <2>2, <3>1, NoneAhead
    <3>. QED  BY <2>4, <3>1, <3>2
  <2>6. CASE index # IntMax /\ sender
    <3>1. index' = index + 1 /\ turns' = R!Served(R!Position(index))
      BY <2>1, <2>6
    <3>2. PICK l \in Nat : (l = 0 \/ l < n) /\ Ahead(R!Served(R!Position(index)), Place(index + 1, n), n, l)
      BY <2>2, <2>3, TurnPasses DEF n
    <3>. QED  BY <2>2, <2>4, <2>6, <3>1, <3>2
  <2>7. CASE index # IntMax /\ ~sender
    <3>1. index' = index + 1 /\ turns' = turns
      BY <2>1, <2>7
    <3>2. turns \in [1..n -> {0, 1}] /\ \A j \in 1..n : turns[j] = 0
      <4>1. \A j \in 1..n : ~(Back(j, Place(index, n), n) <= 0)
        <5>1. Place(index, n) \in 0..(n - 1)
          BY <2>2, PlaceNext
        <5>. QED  BY <2>2, <5>1 DEF Back
      <4>. QED  BY <2>3, <2>7, <4>1 DEF Ahead
    <3>3. turns = R!NoTurns(n)
      BY <3>2 DEF R!NoTurns
    <3>4. Ahead(turns', Place(index', n), n, 0)
      BY <2>2, <3>1, <3>3, NoneAhead
    <3>. QED  BY <2>2, <2>4, <3>1, <3>4
  <2>. QED  BY <2>2, <2>5, <2>6, <2>7
<1>8. CASE R!BroadcastRouteMessage \/ R!RandomRouteMessage \/ R!ConsistentHashRouteMessage
  <2>1. kind # "RoundRobin" /\ UNCHANGED <<kind, sender, routees, group>>
    BY <1>8 DEF R!BroadcastRouteMessage, R!RandomRouteMessage, R!ConsistentHashRouteMessage, R!Deliver
  <2>. QED  BY <2>1 DEF RoutersInv
<1>. QED  BY <1>2, <1>3, <1>4, <1>5, <1>6, <1>7, <1>8 DEF R!Next

(* Between two changes of the routees or the sender, and apart from the one *)
(* message at the wrap of index_, RoundRobinRouter::RouteMessage serves no  *)
(* position twice while another waits, for every number of routees and with *)
(* every index.                                                             *)
THEOREM TurnsAreShared == Spec => []FairShare
<1>1. Init => RoutersInv
  <2>. SUFFICES ASSUME Init  PROVE RoutersInv
    OBVIOUS
  <2>1. routees = <<>> /\ group = <<>> /\ sender = FALSE /\ index = 0 /\ turns = <<>>
    BY DEF Init, R!Init
  <2>2. turns = R!NoTurns(0) /\ Len(routees) = 0
    BY <2>1 DEF R!NoTurns
  <2>3. Ahead(turns, Place(index, Len(routees)), Len(routees), 0)
    BY <2>1, <2>2, NoneAhead
  <2>4. \E k \in Nat : /\ k = 0 \/ k < Len(routees)
                       /\ ~sender => k = 0
                       /\ Ahead(turns, Place(index, Len(routees)), Len(routees), k)
    BY <2>3
  <2>5. routees \in Seq(Pids) /\ group \in Seq(Pids) /\ index \in Int
    BY <2>1
  <2>6. sender \in BOOLEAN
    BY <2>1
  <2>. QED  BY <2>4, <2>5, <2>6, Zenon DEF RoutersInv
<1>2. RoutersInv /\ [Next]_vars => RoutersInv'
  <2>. SUFFICES ASSUME RoutersInv, [Next]_vars  PROVE RoutersInv'
    OBVIOUS
  <2>1. CASE UNCHANGED routerVars
    BY <2>1 DEF RoutersInv, routerVars
  <2>. QED  BY <2>1, RoutersStay, OnePartMoves
<1>3. RoutersInv => FairShare
  BY DEF RoutersInv, Ahead, FairShare, R!FairShare
<1>. QED  BY <1>1, <1>2, <1>3, PTL DEF Spec

-----------------------------------------------------------------------------
(* Persistence                                                              *)

(* The entries of q that are not empty grow.                                *)
Grows(q) == \A j, k \in 1..Len(q) : j < k /\ q[j] # 0 /\ q[k] # 0 => q[j] < q[k]

(* What the pass over such a list keeps grows too, and nothing is skipped.  *)
LEMMA WithoutOrders ==
    ASSUME NEW q \in Seq(Nat), Grows(q)
    PROVE  /\ \A j \in 2..Len(Without(q, 0)) : Without(q, 0)[j - 1] < Without(q, 0)[j]
           /\ \A m \in 1..Len(q) : q[m] # 0 => \E j \in 1..Len(Without(q, 0)) : Without(q, 0)[j] = q[m]
<1>0. PICK f : Kept(f, Nat, q, 0)
  BY WithoutLoop
<1>1. /\ f \in [0..Len(q) -> Seq(Nat)]
      /\ f[0] = <<>>
      /\ \A i \in 1..Len(q) : f[i] = IF q[i] = 0 THEN f[i - 1] ELSE Append(f[i - 1], q[i])
      /\ Without(q, 0) = f[Len(q)]
  BY <1>0 DEF Kept
<1>. DEFINE From(i) == \A j \in 1..Len(f[i]) : \E m \in 1..i : f[i][j] = q[m] /\ q[m] # 0
            Up(i) == \A j \in 2..Len(f[i]) : f[i][j - 1] < f[i][j]
            All(i) == \A m \in 1..i : q[m] # 0 => \E j \in 1..Len(f[i]) : f[i][j] = q[m]
<1>2. From(0) /\ Up(0) /\ All(0)
  BY <1>1
<1>3. ASSUME NEW k \in Nat, k + 1 <= Len(q), From(k), Up(k), All(k)
      PROVE  From(k + 1) /\ Up(k + 1) /\ All(k + 1)
  <2>. DEFINE r == f[k]
              s == f[k + 1]
              y == q[k + 1]
  <2>1. k \in 0..Len(q) /\ k + 1 \in 0..Len(q) /\ k + 1 \in 1..Len(q) /\ (k + 1) - 1 = k
    BY <1>3
  <2>2. s = IF y = 0 THEN r ELSE Append(r, y)
    BY <1>1, <2>1
  <2>3. r \in Seq(Nat) /\ s \in Seq(Nat) /\ y \in Nat
    BY <1>1, <2>1
  <2>4. CASE y = 0
    <3>1. s = r
      BY <2>2, <2>4
    <3>2. From(k + 1)
      <4>1. ASSUME NEW j \in 1..Len(s) PROVE \E m \in 1..(k + 1) : s[j] = q[m] /\ q[m] # 0
        <5>1. PICK m \in 1..k : r[j] = q[m] /\ q[m] # 0
          BY <1>3, <3>1
        <5>2. m \in 1..(k + 1)
          OBVIOUS
        <5>. QED  BY <3>1, <5>1, <5>2
      <4>. QED  BY <4>1
    <3>3. Up(k + 1)
      BY <1>3, <3>1
    <3>4. All(k + 1)
      <4>1. ASSUME NEW m \in 1..(k + 1), q[m] # 0 PROVE \E j \in 1..Len(s) : s[j] = q[m]
        <5>1. m \in 1..k
          BY <2>4, <4>1
        <5>. QED  BY <1>3, <3>1, <4>1, <5>1
      <4>. QED  BY <4>1
    <3>. QED  BY <3>2, <3>3, <3>4
  <2>5. CASE y # 0
    <3>1. s = Append(r, y)
      BY <2>2, <2>5
    <3>2. /\ Len(s) = Len(r) + 1 /\ Len(r) \in Nat /\ s[Len(r) + 1] = y
          /\ \A j \in 1..Len(r) : s[j] = r[j] /\ j \in 1..Len(s)
      <4>. HIDE DEF r, s, y
      <4>. QED  BY <2>3, <3>1
    <3>3. ASSUME NEW j \in 1..Len(r) PROVE r[j] < y
      <4>1. PICK m \in 1..k : r[j] = q[m] /\ q[m] # 0
        BY <1>3
      <4>2. m \in 1..Len(q) /\ m < k + 1
        BY <2>1
      <4>. QED  BY <2>1, <2>5, <4>1, <4>2 DEF Grows
    <3>4. From(k + 1)
      <4>1. ASSUME NEW j \in 1..Len(s) PROVE \E m \in 1..(k + 1) : s[j] = q[m] /\ q[m] # 0
        <5>1. CASE j = Len(r) + 1
          <6>1. k + 1 \in 1..(k + 1) /\ s[j] = q[k + 1] /\ q[k + 1] # 0
            BY <2>5, <3>2, <5>1
          <6>. QED  BY <6>1
        <5>2. CASE j \in 1..Len(r)
          <6>1. PICK m \in 1..k : r[j] = q[m] /\ q[m] # 0
            BY <1>3, <5>2
          <6>2. m \in 1..(k + 1)
            OBVIOUS
          <6>3. s[j] = r[j]
            BY <3>2, <5>2
          <6>. QED  BY <6>1, <6>2, <6>3
        <5>3. j = Len(r) + 1 \/ j \in 1..Len(r)
          <6>1. Len(s) = Len(r) + 1 /\ Len(r) \in Nat /\ j \in 1..Len(s)
            BY <3>2
          <6>. HIDE DEF r, s
          <6>. QED  BY <6>1
        <5>. QED  BY <5>1, <5>2, <5>3
      <4>. QED  BY <4>1
    <3>5. Up(k + 1)
      <4>0. \A j \in 2..Len(r) : r[j - 1] < r[j]
        BY <1>3
      <4>1. ASSUME NEW j \in 2..Len(s) PROVE s[j - 1] < s[j]
        <5>. HIDE DEF r, s, y
        <5>1. CASE j = Len(r) + 1
          <6>1. j - 1 \in 1..Len(r)
            BY <3>2, <5>1
          <6>. QED  BY <3>2, <3>3, <5>1, <6>1
        <5>2. CASE j \in 2..Len(r)
          <6>1. j - 1 \in 1..Len(r) /\ j \in 1..Len(r)
            BY <3>2, <5>2
          <6>. QED  BY <3>2, <4>0, <5>2, <6>1
        <5>3. Len(s) = Len(r) + 1 /\ Len(r) \in Nat /\ j \in 2..Len(s)
          BY <3>2
        <5>4. j = Len(r) + 1 \/ j \in 2..Len(r)
          BY <5>3
        <5>. QED  BY <5>1, <5>2, <5>4
      <4>. QED  BY <4>1
    <3>6. All(k + 1)
      <4>1. ASSUME NEW m \in 1..(k + 1), q[m] # 0 PROVE \E j \in 1..Len(s) : s[j] = q[m]
        <5>1. CASE m = k + 1
          <6>1. Len(r) + 1 \in 1..Len(s) /\ s[Len(r) + 1] = q[m]
            BY <3>2, <5>1
          <6>. QED  BY <6>1
        <5>2. CASE m \in 1..k
          <6>1. PICK j \in 1..Len(r) : r[j] = q[m]
            BY <1>3, <4>1, <5>2
          <6>. QED  BY <3>2, <6>1
        <5>. QED  BY <5>1, <5>2
      <4>. QED  BY <4>1
    <3>. QED  BY <3>4, <3>5, <3>6
  <2>. QED  BY <2>4, <2>5
<1>4. From(Len(q)) /\ Up(Len(q)) /\ All(Len(q))
  <2>. DEFINE W == {i \in Nat : i <= Len(q) => From(i) /\ Up(i) /\ All(i)}
  <2>. HIDE DEF From, Up, All
  <2>1. 0 \in W
    BY <1>2
  <2>2. ASSUME NEW k \in W PROVE k + 1 \in W
    BY <1>3
  <2>3. Nat \subseteq W
    <3>. HIDE DEF W
    <3>. QED  BY <2>1, <2>2, Induction
  <2>. QED  BY <2>3
<1>. QED  BY <1>1, <1>4

(* An entry never sits behind its index and never was to be deleted; a new  *)
(* index is past the end; up to the first deletion every event is at its    *)
(* index, and up to the second one none is missing.                         *)
ListInv == /\ events \in Seq(Nat) /\ Grows(events)
           /\ persisted \subseteq Nat \ {0} /\ covered \in Nat /\ deletions \in Nat
           /\ \A j \in 1..Len(events) :
                 events[j] # 0 => events[j] >= j /\ events[j] > covered /\ events[j] \in persisted
           /\ \A n \in Nat : (\A e \in persisted : e <= n) => Len(events) <= n /\ covered <= n
InPlace == \A e \in persisted : e \in 1..Len(events) /\ events[e] = e
NoneMissing == \A e \in persisted : e > covered => \E j \in 1..Len(events) : events[j] = e
PersistenceInv == /\ ListInv
                  /\ deletions = 0 => covered = 0 /\ InPlace
                  /\ deletions = 1 => NoneMissing

(* While every event is at its index, no entry is elsewhere.                *)
LEMMA AtItsIndex ==
    ASSUME ListInv, InPlace, NEW j \in 1..Len(events), events[j] # 0
    PROVE  events[j] = j
<1>1. events[j] \in persisted /\ events[j] \in Nat
  BY DEF ListInv
<1>. DEFINE e == events[j]
<1>2. e \in 1..Len(events) /\ events[e] = e /\ e # 0
  BY <1>1 DEF InPlace
<1>3. Len(events) \in Nat /\ j \in Nat /\ e \in Nat
  BY <1>1 DEF ListInv
<1>4. ~(j < e) /\ ~(e < j)
  <2>. HIDE DEF e
  <2>. QED  BY <1>2, <1>3 DEF ListInv, Grows, e
<1>. QED  BY <1>3, <1>4

(* A new event goes behind all others.                                      *)
LEMMA PersistKeeps ==
    ASSUME PersistenceInv, NEW i \in Nat, P!PersistEvent(i)
    PROVE  PersistenceInv'
<1>. DEFINE n == Len(events)
<1>1. /\ \A e \in persisted : e <= i
      /\ persisted' = persisted \cup {i + 1}
      /\ covered' = covered /\ deletions' = deletions
  BY DEF P!PersistEvent
<1>2. n \in Nat /\ n <= i /\ events \in Seq(Nat)
  BY <1>1 DEF PersistenceInv, ListInv
<1>3. events' = [j \in 1..(i + 1) |-> IF j = i + 1 THEN i + 1 ELSE IF j <= n THEN events[j] ELSE 0]
  BY <1>2 DEF P!PersistEvent
<1>4. /\ events' \in Seq(Nat) /\ Len(events') = i + 1 /\ events'[i + 1] = i + 1
      /\ \A j \in 1..n : j \in 1..(i + 1) /\ j # i + 1 /\ events'[j] = events[j]
      /\ \A j \in 1..(i + 1) : j # i + 1 /\ events'[j] # 0 => j \in 1..n /\ events'[j] = events[j]
  <2>. HIDE DEF n
  <2>1. \A j \in 1..n : events[j] \in Nat
    BY <1>2 DEF n
  <2>2. events' \in [1..(i + 1) -> Nat]
    BY <1>2, <1>3, <2>1
  <2>3. events' \in Seq(Nat) /\ Len(events') = i + 1
    BY <1>2, <2>2
  <2>. QED  BY <1>2, <1>3, <2>3
<1>. HIDE DEF n
<1>5. \A j \in 1..n : events[j] \in Nat /\ (events[j] # 0 => events[j] >= j /\ events[j] > covered
                                                     /\ events[j] \in persisted /\ events[j] <= i)
  BY <1>1 DEF PersistenceInv, ListInv, n
<1>6. Grows(events)'
  <2>. SUFFICES ASSUME NEW j \in 1..(i + 1), NEW k \in 1..(i + 1), j < k,
                       events'[j] # 0, events'[k] # 0
                PROVE  events'[j] < events'[k]
    BY <1>4 DEF Grows
  <2>1. j # i + 1
    OBVIOUS
  <2>2. j \in 1..n /\ events'[j] = events[j]
    BY <1>4, <2>1
  <2>3. CASE k = i + 1
    BY <1>4, <1>5, <2>2, <2>3
  <2>4. CASE k # i + 1
    <3>1. k \in 1..n /\ events'[k] = events[k]
      BY <1>4, <2>4
    <3>. QED  BY <2>2, <3>1 DEF PersistenceInv, ListInv, Grows, n
  <2>. QED  BY <2>3, <2>4
<1>7. covered \in Nat /\ covered <= i
  BY <1>1 DEF PersistenceInv, ListInv
<1>8. ASSUME NEW j \in 1..(i + 1), events'[j] # 0
      PROVE  events'[j] >= j /\ events'[j] > covered /\ events'[j] \in persisted'
  <2>1. CASE j = i + 1
    BY <1>1, <1>4, <1>7, <2>1
  <2>2. CASE j # i + 1
    <3>1. j \in 1..n /\ events'[j] = events[j]
      BY <1>4, <1>8, <2>2
    <3>. QED  BY <1>1, <1>5, <1>8, <3>1
  <2>. QED  BY <2>1, <2>2
<1>9. ASSUME NEW m \in Nat, \A e \in persisted' : e <= m  PROVE i + 1 <= m /\ covered <= m
  BY <1>1, <1>7, <1>9
<1>10. /\ persisted' \subseteq Nat \ {0} /\ covered' \in Nat /\ deletions' \in Nat
  BY <1>1 DEF PersistenceInv, ListInv
<1>11. ListInv'
  BY <1>1, <1>4, <1>6, <1>8, <1>9, <1>10 DEF ListInv
<1>12. ASSUME InPlace  PROVE InPlace'
  <2>1. ASSUME NEW e \in persisted'  PROVE e \in 1..(i + 1) /\ events'[e] = e
    <3>1. CASE e = i + 1
      BY <1>4, <3>1
    <3>2. CASE e \in persisted
      <4>1. e \in 1..n /\ events[e] = e
        BY <1>12, <3>2 DEF InPlace, n
      <4>. QED  BY <1>4, <4>1
    <3>. QED  BY <1>1, <3>1, <3>2
  <2>. QED  BY <1>4, <2>1 DEF InPlace
<1>13. ASSUME NoneMissing  PROVE NoneMissing'
  <2>1. ASSUME NEW e \in persisted', e > covered  PROVE \E j \in 1..(i + 1) : events'[j] = e
    <3>1. CASE e = i + 1
      BY <1>4, <3>1
    <3>2. CASE e \in persisted
      <4>1. PICK j \in 1..n : events[j] = e
        BY <1>13, <2>1, <3>2 DEF NoneMissing, n
      <4>. QED  BY <1>4, <4>1
    <3>. QED  BY <1>1, <3>1, <3>2
  <2>. QED  BY <1>1, <1>4, <2>1 DEF NoneMissing
<1>. QED  BY <1>1, <1>11, <1>12, <1>13 DEF PersistenceInv

(* The entries that stay only move to the front.                            *)
LEMMA DeleteKeeps ==
    ASSUME PersistenceInv, NEW i \in Nat, P!DeleteEvents(i)
    PROVE  PersistenceInv'
<1>. DEFINE n == Len(events)
            d == i + 1
            c == IF d > covered THEN d ELSE covered
<1>1. /\ i < n /\ events' = SubSeq(events, i + 2, n)
      /\ persisted' = persisted /\ covered' = c /\ deletions' = deletions + 1
  BY DEF P!DeleteEvents
<1>2. /\ events \in Seq(Nat) /\ n \in Nat /\ d \in Nat /\ d <= n /\ i + 2 = d + 1
      /\ covered \in Nat /\ deletions \in Nat /\ persisted \subseteq Nat \ {0}
  BY <1>1 DEF PersistenceInv, ListInv
<1>3. /\ events' \in Seq(Nat) /\ Len(events') = n - d
      /\ \A j \in 1..(n - d) : j + d \in 1..n /\ events'[j] = events[j + d]
  <2>1. \A j \in 1..n : events[j] \in Nat
    BY <1>2
  <2>. HIDE DEF n, d
  <2>2. d + 1 \in Int /\ n \in Int /\ \A j \in (d + 1)..n : events[j] \in Nat
    BY <1>2, <2>1
  <2>3. /\ events' \in Seq(Nat)
        /\ Len(events') = (IF d + 1 <= n THEN n - (d + 1) + 1 ELSE 0)
        /\ \A j \in 1..(n - (d + 1) + 1) : events'[j] = events[(d + 1) + j - 1]
    BY <1>1, <1>2, <2>2, SubSeqProperties
  <2>4. Len(events') = n - d
    BY <1>2, <2>3
  <2>5. ASSUME NEW j \in 1..(n - d)  PROVE j + d \in 1..n /\ events'[j] = events[j + d]
    <3>1. j + d \in 1..n /\ j \in 1..(n - (d + 1) + 1) /\ (d + 1) + j - 1 = j + d
      BY <1>2
    <3>. QED  BY <2>3, <3>1
  <2>. QED  BY <2>3, <2>4, <2>5
<1>4. c \in Nat /\ c >= d /\ c >= covered /\ (c = d \/ c = covered)
  BY <1>2
<1>. HIDE DEF n, d, c
<1>5. \A j \in 1..n : events[j] \in Nat /\ (events[j] # 0 => events[j] >= j /\ events[j] > covered
                                                     /\ events[j] \in persisted)
  BY DEF PersistenceInv, ListInv, n
<1>6. Grows(events)'
  <2>. SUFFICES ASSUME NEW j \in 1..(n - d), NEW k \in 1..(n - d), j < k,
                       events'[j] # 0, events'[k] # 0
                PROVE  events'[j] < events'[k]
    BY <1>3 DEF Grows
  <2>1. j + d \in 1..n /\ k + d \in 1..n /\ j + d < k + d
    BY <1>2, <1>3
  <2>2. events'[j] = events[j + d] /\ events'[k] = events[k + d]
    BY <1>3
  <2>. QED  BY <2>1, <2>2 DEF PersistenceInv, ListInv, Grows, n
<1>7. ASSUME NEW j \in 1..(n - d), events'[j] # 0
      PROVE  events'[j] >= j /\ events'[j] > c /\ events'[j] \in persisted
  <2>1. j + d \in 1..n /\ events'[j] = events[j + d]
    BY <1>3
  <2>2. events[j + d] \in Nat /\ events[j + d] >= j + d /\ events[j + d] > covered
        /\ events[j + d] \in persisted
    BY <1>5, <1>7, <2>1
  <2>3. \A a, b, e \in Nat : a > 0 /\ e >= a + b => e >= a /\ e > b
    OBVIOUS
  <2>4. j \in Nat /\ j > 0 /\ d \in Nat
    BY <1>2
  <2>5. events'[j] >= j /\ events'[j] > d /\ events'[j] > covered
    BY <2>1, <2>2, <2>3, <2>4
  <2>. QED  BY <1>4, <2>1, <2>2, <2>5
<1>8. ASSUME NEW m \in Nat, \A e \in persisted : e <= m  PROVE n - d <= m /\ c <= m
  <2>1. n <= m /\ covered <= m
    BY <1>8 DEF PersistenceInv, ListInv, n
  <2>. QED  BY <1>2, <1>4, <2>1
<1>9. ListInv'
  <2>1. deletions' \in Nat /\ covered' \in Nat /\ persisted' \subseteq Nat \ {0}
    BY <1>1, <1>2, <1>4
  <2>. QED  BY <1>1, <1>3, <1>6, <1>7, <1>8, <2>1 DEF ListInv
<1>10. ASSUME deletions' = 1  PROVE NoneMissing'
  <2>1. deletions = 0
    BY <1>1, <1>2, <1>10
  <2>2. covered = 0 /\ InPlace
    BY <2>1 DEF PersistenceInv
  <2>3. c = d
    BY <1>2, <1>4, <2>2
  <2>4. ASSUME NEW e \in persisted, e > d  PROVE \E j \in 1..(n - d) : events'[j] = e
    <3>1. e \in 1..n /\ events[e] = e
      BY <2>2 DEF InPlace, n
    <3>2. e - d \in 1..(n - d) /\ (e - d) + d = e
      BY <1>2, <2>4, <3>1
    <3>3. events'[e - d] = e
      BY <1>3, <3>1, <3>2
    <3>. QED  BY <3>2, <3>3
  <2>. QED  BY <1>1, <1>3, <2>3, <2>4 DEF NoneMissing
<1>11. deletions' # 0
  BY <1>1, <1>2
<1>. QED  BY <1>9, <1>10, <1>11 DEF PersistenceInv

(* The pass of GetEvents, under its name inside Persistence.                *)
LEMMA PersistenceLists == \A q, x : P!Without(q, x) = Without(q, x)
  BY DEF P!Without, Without

(* What a call of GetEvents hands over.                                     *)
LEMMA WhatIsRead ==
    ASSUME PersistenceInv, NEW from \in Nat, NEW to \in Int
    PROVE  LET r == P!GetEvents(from, to)
               given == {r[j] : j \in 1..Len(r)}
           IN /\ \A j \in 2..Len(r) : r[j - 1] < r[j]
              /\ \A e \in given : e > from /\ e > covered /\ e \in persisted
              /\ deletions = 0 => \A e \in persisted : e > from /\ (to < 0 \/ e <= to) <=> e \in given
              /\ deletions = 1 /\ from = 0 /\ to < 0
                   => \A e \in persisted : e > covered <=> e \in given
<1>. DEFINE n == Len(events)
            end == IF to < 0 \/ to > n THEN n ELSE to
            q == SubSeq(events, from + 1, end)
            r == Without(q, 0)
            given == {r[j] : j \in 1..Len(r)}
<1>1. P!GetEvents(from, to) = r
  BY PersistenceLists DEF P!GetEvents
<1>2. events \in Seq(Nat) /\ n \in Nat /\ end \in Nat /\ end <= n
  BY DEF PersistenceInv, ListInv
<1>3. (to < 0 => end = n) /\ \A e \in Nat : e <= n => (e <= end <=> (to < 0 \/ e <= to))
  BY <1>2
<1>. HIDE DEF end
<1>4. /\ q \in Seq(Nat) /\ Len(q) \in Nat
      /\ Len(q) = (IF from + 1 <= end THEN end - from ELSE 0)
      /\ \A m \in 1..Len(q) : m + from \in 1..n /\ m + from <= end /\ q[m] = events[m + from]
  <2>1. \A j \in 1..n : events[j] \in Nat
    BY <1>2
  <2>. HIDE DEF n
  <2>2. from + 1 \in Int /\ end \in Int /\ \A j \in (from + 1)..end : events[j] \in Nat
    BY <1>2, <2>1
  <2>3. /\ q \in Seq(Nat)
        /\ Len(q) = (IF from + 1 <= end THEN end - (from + 1) + 1 ELSE 0)
        /\ \A m \in 1..(end - (from + 1) + 1) : q[m] = events[(from + 1) + m - 1]
    <3>. HIDE DEF q
    <3>. QED  BY <1>2, <2>2, SubSeqProperties DEF q
  <2>. HIDE DEF q
  <2>4. Len(q) = (IF from + 1 <= end THEN end - from ELSE 0) /\ Len(q) \in Nat
    BY <1>2, <2>3
  <2>5. ASSUME NEW m \in 1..Len(q)
        PROVE  m + from \in 1..n /\ m + from <= end /\ q[m] = events[m + from]
    <3>1. m + from \in 1..n /\ m + from <= end /\ m \in 1..(end - (from + 1) + 1)
          /\ (from + 1) + m - 1 = m + from
      BY <1>2, <2>4
    <3>. QED  BY <2>3, <3>1
  <2>. QED  BY <2>3, <2>4, <2>5
<1>. HIDE DEF q
<1>5. Grows(q)
  <2>. SUFFICES ASSUME NEW j \in 1..Len(q), NEW k \in 1..Len(q), j < k, q[j] # 0, q[k] # 0
                PROVE  q[j] < q[k]
    BY DEF Grows
  <2>1. j + from \in 1..n /\ k + from \in 1..n /\ j + from < k + from
    BY <1>4
  <2>2. q[j] = events[j + from] /\ q[k] = events[k + from]
    BY <1>4
  <2>. QED  BY <2>1, <2>2 DEF PersistenceInv, ListInv, Grows
<1>6. /\ r \in Seq(Nat)
      /\ \A j \in 1..Len(r) : r[j] # 0 /\ \E m \in 1..Len(q) : r[j] = q[m]
  BY <1>4, WithoutKeeps
<1>7. /\ \A j \in 2..Len(r) : r[j - 1] < r[j]
      /\ \A m \in 1..Len(q) : q[m] # 0 => \E j \in 1..Len(r) : r[j] = q[m]
  BY <1>4, <1>5, WithoutOrders
<1>. HIDE DEF r
<1>8. ASSUME NEW e \in given
      PROVE  \E m \in 1..Len(q) : e = events[m + from] /\ e # 0 /\ m + from \in 1..n /\ m + from <= end
  BY <1>4, <1>6
<1>9. ASSUME NEW m \in 1..Len(q), events[m + from] # 0  PROVE events[m + from] \in given
  BY <1>4, <1>7, <1>9
<1>. HIDE DEF given
<1>10. ASSUME NEW e \in given  PROVE e > from /\ e > covered /\ e \in persisted
  <2>1. PICK m \in 1..Len(q) : e = events[m + from] /\ e # 0 /\ m + from \in 1..n
    BY <1>8
  <2>2. e >= m + from /\ e > covered /\ e \in persisted
    BY <2>1 DEF PersistenceInv, ListInv
  <2>3. e \in Nat /\ m \in Nat /\ m > 0
    BY <1>4, <2>2 DEF PersistenceInv, ListInv
  <2>. QED  BY <2>2, <2>3
<1>11. ASSUME deletions = 0, NEW e \in persisted
       PROVE  e > from /\ (to < 0 \/ e <= to) <=> e \in given
  <2>1. e \in 1..n /\ events[e] = e /\ e \in Nat /\ InPlace
    BY <1>2, <1>11 DEF PersistenceInv, InPlace
  <2>2. (to < 0 \/ e <= to) <=> e <= end
    BY <1>2, <1>3, <2>1
  <2>3. ASSUME e > from, e <= end  PROVE e \in given
    <3>1. e - from \in 1..Len(q) /\ (e - from) + from = e
      <4>. HIDE DEF n
      <4>. QED  BY <1>2, <1>4, <2>1, <2>3
    <3>2. events[(e - from) + from] = e /\ e # 0
      BY <2>1, <3>1
    <3>3. events[(e - from) + from] \in given
      BY <1>9, <3>1, <3>2
    <3>. QED  BY <3>2, <3>3
  <2>4. ASSUME e \in given  PROVE e > from /\ e <= end
    <3>1. PICK m \in 1..Len(q) : e = events[m + from] /\ e # 0 /\ m + from \in 1..n /\ m + from <= end
      BY <1>8, <2>4
    <3>2. events[m + from] = m + from
      BY <2>1, <3>1, AtItsIndex DEF PersistenceInv
    <3>. QED  BY <1>10, <2>4, <3>1, <3>2
  <2>. QED  BY <2>2, <2>3, <2>4
<1>12. ASSUME deletions = 1, from = 0, to < 0, NEW e \in persisted
       PROVE  e > covered <=> e \in given
  <2>1. ASSUME e > covered  PROVE e \in given
    <3>1. PICK j \in 1..n : events[j] = e
      BY <1>12, <2>1 DEF PersistenceInv, NoneMissing
    <3>2. e # 0
      BY DEF PersistenceInv, ListInv
    <3>3. end = n /\ Len(q) = n
      <4>. HIDE DEF n
      <4>. QED  BY <1>2, <1>3, <1>4, <1>12
    <3>4. j \in 1..Len(q) /\ j + from = j
      BY <1>12, <3>3
    <3>. QED  BY <1>9, <3>1, <3>2, <3>4
  <2>. QED  BY <1>10, <2>1
<1>. QED  BY <1>1, <1>7, <1>10, <1>11, <1>12 DEF given

(* GetEvents of the in-memory provider hands events over in order and each  *)
(* once, none that DeleteEvents was for, and misses none before a second    *)
(* deletion, for any number of events.                                      *)
THEOREM ReplayKeepsOrder == Spec => []ReplayInOrder
<1>1. Init => PersistenceInv
  BY DEF Init, P!Init, PersistenceInv, ListInv, Grows, InPlace
<1>2. PersistenceInv /\ [Next]_vars => PersistenceInv'
  <2>. SUFFICES ASSUME PersistenceInv, [Next]_vars  PROVE PersistenceInv'
    OBVIOUS
  <2>1. CASE UNCHANGED persistenceVars
    BY <2>1 DEF PersistenceInv, ListInv, Grows, InPlace, NoneMissing, persistenceVars
  <2>2. ASSUME NEW i \in 0..MaxIndex, P!PersistSnapshot(i) \/ P!DeleteSnapshots(i)  PROVE PersistenceInv'
    <3>1. UNCHANGED <<events, persisted, covered, deletions>>
      BY <2>2 DEF P!PersistSnapshot, P!DeleteSnapshots
    <3>. QED  BY <3>1 DEF PersistenceInv, ListInv, Grows, InPlace, NoneMissing
  <2>3. CASE P!Next
    <3>1. \A i \in 0..MaxIndex : i \in Nat
      BY PartsAssumption
    <3>. QED  BY <2>2, <2>3, <3>1, PersistKeeps, DeleteKeeps DEF P!Next
  <2>. QED  BY <2>1, <2>3, OnePartMoves
<1>3. PersistenceInv => ReplayInOrder
  <2>1. \A i \in 0..MaxIndex : i \in Nat
    BY PartsAssumption
  <2>2. \A i \in -1..MaxIndex : i \in Int
    BY PartsAssumption
  <2>. QED  BY <2>1, <2>2, WhatIsRead DEF ReplayInOrder, P!ReplayInOrder
<1>. QED  BY <1>1, <1>2, <1>3, PTL DEF Spec

-----------------------------------------------------------------------------
(* PubSub                                                                   *)

(* The library's operators, under their names inside Hub.                   *)
LEMMA HubLists ==
    ASSUME NEW q \in Seq(Subscribers)
    PROVE  /\ \A s : H!Without(q, s) = Without(q, s)
           /\ H!ToSet(q) = {q[i] : i \in 1..Len(q)}
           /\ H!IsInjective(q) <=> \A i, j \in 1..Len(q) : q[i] = q[j] => i = j
<1>1. \A s : H!Without(q, s) = Without(q, s)
  BY DEF H!Without, Without
<1>. QED  BY <1>1 DEF H!ToSet, H!IsInjective

Calls == [op : {"none", "subscribe", "unsubscribe", "publish", "send"}, who : Seq(Subscribers)]

(* A client that is about to subscribe somebody has taken it off the list   *)
(* of those who left, when it entered; one that has unsubscribed somebody   *)
(* puts it there only if no other client is about to subscribe it.          *)
HubTypes == /\ subscriptions \in Seq(Subscribers)
            /\ client \in [Clients -> Calls]
            /\ \A c \in Clients : client[c].op \in {"subscribe", "unsubscribe"}
                                    => client[c].who = <<Head(client[c].who)>>
                                       /\ Head(client[c].who) \in Subscribers
HubPending == \A c \in Clients : client[c].op = "subscribe" => Head(client[c].who) \notin left
HubListed == /\ \A i \in 1..Len(subscriptions) : subscriptions[i] \notin left
             /\ \A i, j \in 1..Len(subscriptions) : subscriptions[i] = subscriptions[j] => i = j
HubInv == HubTypes /\ HubPending /\ HubListed

(* A client that leaves its call disturbs no other.                         *)
LEMMA ClientSet ==
    ASSUME HubTypes, NEW c \in Clients, NEW r \in Calls, client' = [client EXCEPT ![c] = r],
           subscriptions' \in Seq(Subscribers),
           r.op \in {"subscribe", "unsubscribe"} => r.who = <<Head(r.who)>> /\ Head(r.who) \in Subscribers
    PROVE  /\ HubTypes'
           /\ client'[c] = r
           /\ \A d \in Clients \ {c} : client'[d] = client[d]
<1>1. client' \in [Clients -> Calls] /\ client'[c] = r /\ \A d \in Clients \ {c} : client'[d] = client[d]
  BY DEF HubTypes
<1>2. ASSUME NEW d \in Clients, client'[d].op \in {"subscribe", "unsubscribe"}
      PROVE  client'[d].who = <<Head(client'[d].who)>> /\ Head(client'[d].who) \in Subscribers
  <2>1. CASE d = c
    BY <1>1, <1>2, <2>1
  <2>2. CASE d # c
    <3>1. client'[d] = client[d]
      BY <1>1, <2>2
    <3>. QED  BY <1>2, <3>1 DEF HubTypes
  <2>. QED  BY <2>1, <2>2
<1>. QED  BY <1>1, <1>2 DEF HubTypes

(* A client in no call.                                                     *)
LEMMA FreeCall == H!Free \in Calls /\ H!Free.op = "none"
  BY DEF H!Free, Calls

(* The look at running_ that begins a call.                                 *)
LEMMA EnterKeeps ==
    ASSUME HubInv, NEW c \in Clients, NEW op \in {"subscribe", "unsubscribe", "publish"},
           NEW who \in Seq(Subscribers),
           op \in {"subscribe", "unsubscribe"} => who = <<Head(who)>> /\ Head(who) \in Subscribers,
           H!Enter(c, op, who)
    PROVE  HubInv'
<1>. DEFINE r == [op |-> op, who |-> who]
<1>1. /\ client' = [client EXCEPT ![c] = r]
      /\ left' = (IF op = "subscribe" THEN left \ H!ToSet(who) ELSE left)
      /\ subscriptions' = subscriptions
  BY DEF H!Enter
<1>2. r \in Calls /\ r.op = op /\ r.who = who
  BY DEF Calls
<1>. HIDE DEF r
<1>3. HubTypes' /\ client'[c] = r /\ \A d \in Clients \ {c} : client'[d] = client[d]
  BY <1>1, <1>2, ClientSet DEF HubInv, HubTypes
<1>4. left' \subseteq left /\ (op = "subscribe" => Head(who) \notin left')
  <2>1. CASE op = "subscribe"
    <3>1. H!ToSet(who) = {Head(who)}
      <4>1. who = <<Head(who)>>
        BY <2>1
      <4>2. \A x : H!ToSet(<<x>>) = {x}
        BY DEF H!ToSet
      <4>. QED  BY <4>1, <4>2
    <3>. QED  BY <1>1, <2>1, <3>1
  <2>. QED  BY <1>1, <2>1
<1>5. HubPending'
  <2>. SUFFICES ASSUME NEW d \in Clients, client'[d].op = "subscribe"
                PROVE  Head(client'[d].who) \notin left'
    BY DEF HubPending
  <2>1. CASE d = c
    BY <1>2, <1>3, <1>4, <2>1
  <2>2. CASE d # c
    <3>1. client'[d] = client[d]
      BY <1>3, <2>2
    <3>. QED  BY <1>4, <3>1 DEF HubInv, HubPending
  <2>. QED  BY <2>1, <2>2
<1>6. HubListed'
  BY <1>1, <1>4 DEF HubInv, HubListed
<1>. QED  BY <1>3, <1>5, <1>6 DEF HubInv

(* Whoever is added has not left and was not listed.                        *)
LEMMA SubscribeKeeps == ASSUME HubInv, NEW c \in Clients, H!Subscribe(c)  PROVE HubInv'
<1>. DEFINE s == Head(client[c].who)
<1>1. /\ client[c].op = "subscribe"
      /\ subscriptions' = (IF s \in H!ToSet(subscriptions) THEN subscriptions
                           ELSE Append(subscriptions, s))
      /\ client' = [client EXCEPT ![c] = H!Free]
      /\ left' = left
  BY DEF H!Subscribe, H!Leave
<1>2. s \in Subscribers /\ s \notin left /\ subscriptions \in Seq(Subscribers)
  BY <1>1 DEF HubInv, HubTypes, HubPending
<1>. HIDE DEF s
<1>3. subscriptions' \in Seq(Subscribers)
  BY <1>1, <1>2
<1>4. HubTypes' /\ client'[c] = H!Free /\ \A d \in Clients \ {c} : client'[d] = client[d]
  BY <1>1, <1>3, ClientSet, FreeCall DEF HubInv
<1>5. HubPending'
  BY <1>1, <1>4, FreeCall DEF HubInv, HubPending
<1>6. HubListed'
  <2>1. CASE s \in H!ToSet(subscriptions)
    BY <1>1, <2>1 DEF HubInv, HubListed
  <2>2. CASE s \notin H!ToSet(subscriptions)
    <3>1. \A i \in 1..Len(subscriptions) : subscriptions[i] # s
      BY <1>2, <2>2, HubLists
    <3>2. /\ Len(subscriptions') = Len(subscriptions) + 1 /\ Len(subscriptions) \in Nat
          /\ subscriptions'[Len(subscriptions) + 1] = s
          /\ \A i \in 1..Len(subscriptions) : subscriptions'[i] = subscriptions[i]
      BY <1>1, <1>2, <2>2
    <3>3. \A i \in 1..Len(subscriptions') : i \in 1..Len(subscriptions) \/ i = Len(subscriptions) + 1
      BY <3>2
    <3>. QED  BY <1>1, <1>2, <3>1, <3>2, <3>3 DEF HubInv, HubListed
  <2>. QED  BY <2>1, <2>2
<1>. QED  BY <1>4, <1>5, <1>6 DEF HubInv

(* All entries of the subscriber go, and nobody else is about to add it.    *)
LEMMA UnsubscribeKeeps == ASSUME HubInv, NEW c \in Clients, H!Unsubscribe(c)  PROVE HubInv'
<1>. DEFINE s == Head(client[c].who)
<1>1. /\ client[c].op = "unsubscribe"
      /\ subscriptions' = H!Without(subscriptions, s)
      /\ left' = (IF H!Settled(c, s) THEN left \cup {s} ELSE left)
      /\ client' = [client EXCEPT ![c] = H!Free]
  BY DEF H!Unsubscribe, H!Leave
<1>2. s \in Subscribers /\ subscriptions \in Seq(Subscribers)
  BY <1>1 DEF HubInv, HubTypes
<1>3. H!Settled(c, s) => \A d \in Clients \ {c} : client[d].op = "subscribe" => client[d].who # <<s>>
  BY DEF H!Settled
<1>. HIDE DEF s
<1>4. subscriptions' = Without(subscriptions, s)
  BY <1>1, <1>2, HubLists
<1>5. /\ subscriptions' \in Seq(Subscribers)
      /\ \A j \in 1..Len(subscriptions') :
           subscriptions'[j] # s /\ \E m \in 1..Len(subscriptions) : subscriptions'[j] = subscriptions[m]
      /\ \A i, j \in 1..Len(subscriptions') : subscriptions'[i] = subscriptions'[j] => i = j
  BY <1>2, <1>4, WithoutKeeps DEF HubInv, HubListed
<1>6. HubTypes' /\ client'[c] = H!Free /\ \A d \in Clients \ {c} : client'[d] = client[d]
  BY <1>1, <1>5, ClientSet, FreeCall DEF HubInv
<1>7. left' \subseteq left \cup {s}
  BY <1>1
<1>8. HubListed'
  BY <1>5, <1>7 DEF HubInv, HubListed
<1>9. HubPending'
  <2>. SUFFICES ASSUME NEW d \in Clients, client'[d].op = "subscribe"
                PROVE  Head(client'[d].who) \notin left'
    BY DEF HubPending
  <2>1. d # c /\ client'[d] = client[d]
    BY <1>6, FreeCall
  <2>2. Head(client[d].who) \notin left /\ client[d].who = <<Head(client[d].who)>>
    BY <2>1 DEF HubInv, HubTypes, HubPending
  <2>3. H!Settled(c, s) => Head(client[d].who) # s
    BY <1>3, <2>1, <2>2
  <2>. QED  BY <1>1, <2>1, <2>2, <2>3
<1>. QED  BY <1>6, <1>8, <1>9 DEF HubInv

(* Publishing copies the list and leaves it alone.                          *)
LEMMA PublishKeeps ==
    ASSUME HubInv, NEW c \in Clients, H!PublishCopies(c) \/ H!PublishSends(c)
    PROVE  HubInv'
<1>1. PICK r \in Calls : /\ client' = [client EXCEPT ![c] = r]
                         /\ r.op \in {"none", "send"}
  <2>1. CASE H!PublishSends(c)
    BY <2>1, FreeCall DEF H!PublishSends, H!Leave
  <2>2. CASE H!PublishCopies(c)
    <3>. DEFINE r == IF subscriptions = <<>> THEN H!Free ELSE [op |-> "send", who |-> subscriptions]
    <3>1. r \in Calls /\ r.op \in {"none", "send"}
      BY FreeCall DEF Calls, HubInv, HubTypes
    <3>. QED  BY <2>2, <3>1 DEF H!PublishCopies
  <2>. QED  BY <2>1, <2>2
<1>2. subscriptions' = subscriptions /\ left' = left
  BY DEF H!PublishCopies, H!PublishSends
<1>3. HubTypes' /\ client'[c] = r /\ \A d \in Clients \ {c} : client'[d] = client[d]
  BY <1>1, <1>2, ClientSet DEF HubInv, HubTypes
<1>4. HubPending'
  BY <1>1, <1>2, <1>3 DEF HubInv, HubPending
<1>. QED  BY <1>2, <1>3, <1>4 DEF HubInv, HubListed

(* Whoever has unsubscribed while the hub was running is in no list copied  *)
(* afterwards, and nobody is listed twice (PubSub::Unsubscribe, Subscribe). *)
THEOREM LeaversStayOut == Spec => []GoneIsGone
<1>1. Init => HubInv
  <2>. SUFFICES ASSUME Init  PROVE HubInv
    OBVIOUS
  <2>1. subscriptions = <<>> /\ client = [c \in Clients |-> H!Free] /\ left = {}
    BY DEF Init, H!Init
  <2>. QED  BY <2>1, FreeCall DEF HubInv, HubTypes, HubPending, HubListed
<1>2. HubInv /\ [Next]_vars => HubInv'
  <2>. SUFFICES ASSUME HubInv, [Next]_vars  PROVE HubInv'
    OBVIOUS
  <2>1. CASE UNCHANGED <<subscriptions, client, left>>
    BY <2>1 DEF HubInv, HubTypes, HubPending, HubListed
  <2>2. ASSUME NEW c \in Clients, NEW s \in Subscribers,
               H!Enter(c, "subscribe", <<s>>) \/ H!Enter(c, "unsubscribe", <<s>>)
        PROVE  HubInv'
    <3>1. <<s>> \in Seq(Subscribers) /\ <<s>> = <<Head(<<s>>)>> /\ Head(<<s>>) \in Subscribers
      OBVIOUS
    <3>. QED  BY <2>2, <3>1, EnterKeeps
  <2>3. ASSUME NEW c \in Clients, H!Enter(c, "publish", <<>>)  PROVE HubInv'
    <3>1. <<>> \in Seq(Subscribers)
      OBVIOUS
    <3>. QED  BY <2>3, <3>1, EnterKeeps
  <2>4. CASE H!Start \/ H!Stop \/ H!DeliverBatch
    BY <2>1, <2>4 DEF H!Start, H!Stop, H!DeliverBatch
  <2>5. CASE H!Next
    BY <2>2, <2>3, <2>4, <2>5, SubscribeKeeps, UnsubscribeKeeps, PublishKeeps DEF H!Next
  <2>6. CASE UNCHANGED hubVars
    BY <2>1, <2>6 DEF hubVars
  <2>. QED  BY <2>5, <2>6, OnePartMoves
<1>3. HubInv => GoneIsGone
  <2>. SUFFICES ASSUME HubInv  PROVE GoneIsGone
    OBVIOUS
  <2>1. subscriptions \in Seq(Subscribers) /\ HubListed
    BY DEF HubInv, HubTypes
  <2>2. H!ToSet(subscriptions) = {subscriptions[i] : i \in 1..Len(subscriptions)}
    BY <2>1, HubLists
  <2>3. H!IsInjective(subscriptions)
    BY <2>1, HubLists DEF HubListed
  <2>. QED  BY <2>1, <2>2, <2>3 DEF GoneIsGone, H!GoneIsGone, HubListed
<1>. QED  BY <1>1, <1>2, <1>3, PTL DEF Spec
=============================================================================
