------------------------- MODULE EventStreamProofs -------------------------
(***************************************************************************)
(* Machine-checked proofs about EventStream: a Publish that comes to a     *)
(* subscription after its SubscribeWithPredicate has returned obeys the    *)
(* predicate, and the ids in                                               *)
(* the list balance those of the active subscriptions although counter_    *)
(* gives the same id out more than once.                                   *)
(***************************************************************************)
EXTENDS EventStream, SequenceTheorems, FunctionTheorems,
        FiniteSetTheorems, TLAPS

-----------------------------------------------------------------------------
(* Filtering                                                                *)

(* A call of a handler that breaks the filter.                              *)
Wrong(c) == c.sub \in Filtered /\ c.event = "rejected" /\ c.after

(* A filtered subscription has its predicate, or a thread is still inside   *)
(* the call that stores it; no call of a handler decided on, and none made, *)
(* breaks the filter.                                                       *)
FilterInv ==
    /\ predicate \in [Subs -> BOOLEAN]
    /\ DOMAIN id = Subs
    /\ doing = [t \in Threads |-> doing[t]]
    /\ \A s \in Filtered : Created(s) => predicate[s] \/ BeingStored(s)
    /\ \A t \in Threads : doing[t].op = "call" => ~Wrong(doing[t])
    /\ \A c \in got : ~Wrong(c)

(* A thread's step that stores no predicate and decides on no handler.      *)
LEMMA OtherSteps ==
    ASSUME FilterInv, NEW t \in Threads, NEW c, doing' = [doing EXCEPT ![t] = c],
           doing[t].op # "filter", c.op # "call",
           UNCHANGED <<predicate, id, got>>
    PROVE  FilterInv'
<1>1. /\ doing' = [u \in Threads |-> doing'[u]] /\ doing'[t] = c
      /\ \A u \in Threads \ {t} : doing'[u] = doing[u]
  BY DEF FilterInv
<1>2. \A s : BeingStored(s) => BeingStored(s)'
  BY <1>1 DEF BeingStored
<1>3. \A u \in Threads : doing'[u].op = "call" => ~Wrong(doing'[u])
  BY <1>1 DEF FilterInv
<1>. QED  BY <1>1, <1>2, <1>3 DEF FilterInv, Created, Wrong

(* FilterInv is inductive.                                                  *)
LEMMA FilterInvariant == Spec => []FilterInv
<1>1. Init => FilterInv
  BY StreamAssumption DEF Init, FilterInv, Created, Idle, Call
<1>2. FilterInv /\ [Next]_vars => FilterInv'
  <2>. SUFFICES ASSUME FilterInv, [Next]_vars  PROVE FilterInv'
    OBVIOUS
  <2>1. CASE UNCHANGED vars
    BY <2>1 DEF vars, FilterInv, Created, BeingStored, Wrong
  <2>2. ASSUME NEW t \in Threads, Subscribe(t)  PROVE FilterInv'
    <3>1. PICK s \in Subs : /\ ~Created(s)
                            /\ id' = [id EXCEPT ![s] = counter]
                            /\ doing' = IF s \in Filtered
                                   THEN [doing EXCEPT ![t] = Call("filter", s, None, <<>>)]
                                   ELSE doing
      BY <2>2 DEF Subscribe
    <3>2. doing[t].op = "idle"
      BY <2>2 DEF Subscribe, Idle, Call
    <3>3. \A u \in Threads : doing[u].op # "idle" => doing'[u] = doing[u]
      BY <3>1, <3>2
    <3>4. s \in Filtered => BeingStored(s)'
      BY <3>1 DEF FilterInv, BeingStored, Call
    <3>5. \A f \in Subs \ {s} : Created(f)' => Created(f)
      BY <3>1 DEF FilterInv, Created
    <3>6. /\ predicate' = predicate /\ got' = got /\ DOMAIN id' = Subs
          /\ doing' = [u \in Threads |-> doing'[u]]
          /\ \A u \in Threads : doing'[u].op = "call" => doing'[u] = doing[u]
      BY <2>2, <3>1 DEF Subscribe, FilterInv, Call
    <3>7. \A f : BeingStored(f) => BeingStored(f)'
      BY <3>3 DEF BeingStored
    <3>8. ASSUME NEW f \in Filtered, Created(f)'  PROVE predicate'[f] \/ BeingStored(f)'
      <4>1. CASE f = s
        BY <4>1, <3>4
      <4>2. CASE f # s
        BY <4>2, <3>5, <3>6, <3>7, <3>8, StreamAssumption DEF FilterInv
      <4>. QED  BY <4>1, <4>2
    <3>. QED  BY <3>6, <3>8 DEF FilterInv, Wrong
  <2>3. ASSUME NEW t \in Threads, SetPredicate(t)  PROVE FilterInv'
    <3>1. /\ predicate' = [predicate EXCEPT ![doing[t].sub] = TRUE]
          /\ doing' = [doing EXCEPT ![t] = Idle]
          /\ id' = id /\ got' = got
      BY <2>3 DEF SetPredicate
    <3>2. \A f \in Filtered : (predicate[f] \/ doing[t].sub = f) => predicate'[f]
      BY <3>1, StreamAssumption DEF FilterInv
    <3>3. \A u \in Threads \ {t} : doing'[u] = doing[u]
      BY <3>1 DEF FilterInv
    <3>4. /\ predicate' \in [Subs -> BOOLEAN] /\ doing' = [u \in Threads |-> doing'[u]]
          /\ doing'[t].op = "idle"
      BY <3>1 DEF FilterInv, Idle, Call
    <3>5. ASSUME NEW f \in Filtered, Created(f)'  PROVE predicate'[f] \/ BeingStored(f)'
      <4>1. Created(f)
        BY <3>1, <3>5 DEF Created
      <4>2. predicate[f] \/ BeingStored(f)
        BY <4>1 DEF FilterInv
      <4>3. CASE BeingStored(f)
        <5>1. PICK u \in Threads : doing[u].op = "filter" /\ doing[u].sub = f
          BY <4>3 DEF BeingStored
        <5>. QED  BY <5>1, <3>2, <3>3 DEF BeingStored
      <4>. QED  BY <4>2, <4>3, <3>2
    <3>. QED  BY <3>1, <3>3, <3>4, <3>5 DEF FilterInv, Wrong
  <2>4. ASSUME NEW t \in Threads, Unsubscribe(t) \/ Publish(t)  PROVE FilterInv'
    <3>1. doing[t].op = "idle" /\ UNCHANGED <<predicate, id, got>>
      <4>1. doing[t] = Idle /\ UNCHANGED <<predicate, id, got>>
        BY <2>4, Zenon DEF Unsubscribe, Publish
      <4>. QED  BY <4>1 DEF Idle, Call
    <3>2. \E s, e, q : \/ doing' = [doing EXCEPT ![t] = Call("erase", s, None, <<>>)]
                       \/ doing' = [doing EXCEPT ![t] = Call("publish", None, e, q)]
      BY <2>4, Zenon DEF Unsubscribe, Publish
    <3>3. \A s, e, q : /\ Call("erase", s, None, <<>>).op = "erase"
                       /\ Call("publish", None, e, q).op = "publish"
      BY DEF Call
    <3>4. PICK c : c.op # "call" /\ doing' = [doing EXCEPT ![t] = c]
      BY <3>2, <3>3
    <3>. QED  BY <3>1, <3>4, OtherSteps
  <2>5. ASSUME NEW t \in Threads, AskPredicate(t)  PROVE FilterInv'
    <3>. DEFINE s == Head(doing[t].left)
                rest == Call("publish", None, doing[t].event, Tail(doing[t].left))
                handle == [Call("call", s, rest.event, rest.left) EXCEPT !.after = Returned(s)]
    <3>1. /\ doing[t].op = "publish" /\ UNCHANGED <<predicate, id, got>>
          /\ \/ doing' = [doing EXCEPT ![t] = rest]
             \/ /\ doing' = [doing EXCEPT ![t] = handle]
                /\ ~predicate[s] \/ rest.event # "rejected"
             \/ doing' = doing
      BY <2>5 DEF AskPredicate
    <3>2. CASE doing' = [doing EXCEPT ![t] = rest]
      <4>1. rest.op # "call"
        BY DEF Call
      <4>. HIDE DEF rest
      <4>. QED  BY <3>1, <3>2, <4>1, OtherSteps
    <3>3. CASE doing' = [doing EXCEPT ![t] = handle] /\ (~predicate[s] \/ rest.event # "rejected")
      <4>1. handle.sub = s /\ handle.event = rest.event /\ handle.after = Returned(s)
            /\ handle.op = "call"
        BY DEF Call
      <4>2. ~Wrong(handle)
        BY <3>3, <4>1 DEF Wrong, FilterInv, Returned
      <4>. HIDE DEF handle, rest, s
      <4>3. /\ doing' = [u \in Threads |-> doing'[u]] /\ doing'[t] = handle
            /\ \A u \in Threads \ {t} : doing'[u] = doing[u]
        BY <3>3 DEF FilterInv
      <4>4. \A f : BeingStored(f) => BeingStored(f)'
        BY <3>1, <4>3 DEF BeingStored
      <4>5. \A u \in Threads : doing'[u].op = "call" => ~Wrong(doing'[u])
        BY <4>2, <4>3 DEF FilterInv
      <4>. QED  BY <3>1, <4>3, <4>4, <4>5 DEF FilterInv, Created, Wrong
    <3>4. CASE doing' = doing
      BY <3>1, <3>4 DEF FilterInv, Created, BeingStored, Wrong
    <3>. QED  BY <3>1, <3>2, <3>3, <3>4
  <2>6. ASSUME NEW t \in Threads, CallHandler(t)  PROVE FilterInv'
    <3>. DEFINE c == Call("publish", None, doing[t].event, doing[t].left)
                h == Handled(doing[t])
    <3>1. /\ doing[t].op = "call" /\ UNCHANGED <<predicate, id>>
          /\ doing' = [doing EXCEPT ![t] = c] /\ got' = got \cup {h}
      BY <2>6 DEF CallHandler
    <3>2. c.op = "publish" /\ ~Wrong(h)
      BY <3>1 DEF Call, Handled, FilterInv, Wrong
    <3>. HIDE DEF c, h
    <3>3. /\ doing' = [u \in Threads |-> doing'[u]] /\ doing'[t] = c
          /\ \A u \in Threads \ {t} : doing'[u] = doing[u]
      BY <3>1 DEF FilterInv
    <3>4. \A f : BeingStored(f) => BeingStored(f)'
      BY <3>1, <3>3 DEF BeingStored
    <3>. QED  BY <3>1, <3>2, <3>3, <3>4 DEF FilterInv, Created, Wrong
  <2>7. ASSUME NEW t \in Threads, Erase(t) \/ PublishReturns(t)  PROVE FilterInv'
    <3>1. doing[t].op # "filter" /\ UNCHANGED <<predicate, id, got>>
          /\ doing' = [doing EXCEPT ![t] = Idle] /\ Idle.op # "call"
      BY <2>7 DEF Erase, PublishReturns, Idle, Call
    <3>. QED  BY <3>1, OtherSteps
  <2>8. ASSUME NEW t \in Threads, SetActive(t)  PROVE FilterInv'
    BY <2>8 DEF SetActive, FilterInv, Created, BeingStored, Wrong
  <2>. QED  BY <2>1, <2>2, <2>3, <2>4, <2>5, <2>6, <2>7, <2>8 DEF Next
<1>. QED  BY <1>1, <1>2, PTL DEF Spec

(* A handler gets an event that its predicate rejects only from a Publish   *)
(* that asked for the predicate before SubscribeWithPredicate had returned, *)
(* for any number of subscriptions and threads.                             *)
THEOREM FilterHolds == Spec => []FilteredOnceReturned
<1>1. FilterInv => FilteredOnceReturned
  BY DEF FilterInv, FilteredOnceReturned, Wrong
<1>. QED  BY <1>1, FilterInvariant, PTL

-----------------------------------------------------------------------------
(* Ids                                                                      *)

(* Types, and who exists: the listed, the active and the ones being erased. *)
ExistInv ==
    /\ list \in Seq(Subs)
    /\ counter \in Int
    /\ id \in [Subs -> Int \cup {None}]
    /\ active \in [Subs -> BOOLEAN]
    /\ doing = [t \in Threads |-> doing[t]]
    /\ \A n \in DOMAIN list : Created(list[n])
    /\ \A s \in Subs : active[s] => Created(s)
    /\ \A t \in Threads : doing[t].op = "erase" =>
          doing[t].sub \in Subs /\ Created(doing[t].sub)

(* The places of the list and the active subscriptions with an id.          *)
Places(i) == {n \in DOMAIN list : id[list[n]] = i}
ActiveWith(i) == {s \in Subs : active[s] /\ id[s] = i}

(* IdsBalance, for every id that can be given out.                          *)
BalanceInv ==
    switched \/ \A i \in Int : Cardinality(Places(i)) = Cardinality(ActiveWith(i))

(* What RemoveAt leaves.                                                    *)
LEMMA RemoveAtProperties ==
    ASSUME NEW S, NEW q \in Seq(S), NEW k \in 1..Len(q)
    PROVE  /\ RemoveAt(q, k) \in Seq(S)
           /\ Len(RemoveAt(q, k)) = Len(q) - 1
           /\ \A j \in 1..(Len(q) - 1) :
                 RemoveAt(q, k)[j] = IF j < k THEN q[j] ELSE q[j + 1]
<1>. DEFINE a == SubSeq(q, 1, k - 1)
            b == SubSeq(q, k + 1, Len(q))
<1>1. Len(q) \in Nat /\ \A i \in 1..Len(q) : q[i] \in S
  BY LenProperties
<1>2. /\ a \in Seq(S) /\ Len(a) = k - 1
      /\ \A i \in 1..(k - 1) : a[i] = q[i]
  <2>1. \A i \in 1..(k - 1) : q[i] \in S
    BY <1>1
  <2>2. k - 1 \in Int /\ 1 \in Int
    BY <1>1
  <2>3. /\ a \in Seq(S)
        /\ Len(a) = IF 1 <= k - 1 THEN (k - 1) - 1 + 1 ELSE 0
        /\ \A i \in 1..((k - 1) - 1 + 1) : a[i] = q[1 + i - 1]
    BY <2>1, <2>2, SubSeqProperties
  <2>. HIDE DEF a
  <2>. QED  BY <2>2, <2>3, <1>1
<1>3. /\ b \in Seq(S) /\ Len(b) = Len(q) - k
      /\ \A i \in 1..(Len(q) - k) : b[i] = q[k + i]
  <2>1. \A i \in (k + 1)..Len(q) : q[i] \in S
    BY <1>1
  <2>2. k + 1 \in Int /\ Len(q) \in Int
    BY <1>1
  <2>3. /\ b \in Seq(S)
        /\ Len(b) = IF k + 1 <= Len(q) THEN Len(q) - (k + 1) + 1 ELSE 0
        /\ \A i \in 1..(Len(q) - (k + 1) + 1) : b[i] = q[(k + 1) + i - 1]
    BY <2>1, <2>2, SubSeqProperties
  <2>. HIDE DEF b
  <2>. QED  BY <2>2, <2>3, <1>1
<1>4. RemoveAt(q, k) = a \o b
  BY DEF RemoveAt
<1>. HIDE DEF a, b
<1>5. /\ a \o b \in Seq(S) /\ Len(a \o b) = Len(a) + Len(b)
      /\ \A i \in 1..(Len(a) + Len(b)) :
            (a \o b)[i] = IF i <= Len(a) THEN a[i] ELSE b[i - Len(a)]
  BY <1>2, <1>3, ConcatProperties
<1>6. Len(a) + Len(b) = Len(q) - 1 /\ k \in 1..Len(q)
  BY <1>1, <1>2, <1>3
<1>7. ASSUME NEW j \in 1..(Len(q) - 1)
      PROVE  (a \o b)[j] = IF j < k THEN q[j] ELSE q[j + 1]
  <2>1. (a \o b)[j] = IF j <= Len(a) THEN a[j] ELSE b[j - Len(a)]
    BY <1>5, <1>6
  <2>2. CASE j < k
    BY <1>1, <1>2, <1>6, <2>1, <2>2
  <2>3. CASE ~(j < k)
    <3>1. j - Len(a) \in 1..(Len(q) - k) /\ k + (j - Len(a)) = j + 1 /\ ~(j <= Len(a))
      BY <1>1, <1>2, <1>6, <2>3
    <3>. QED  BY <1>3, <2>1, <2>3, <3>1
  <2>. QED  BY <2>2, <2>3
<1>. QED  BY <1>4, <1>5, <1>6, <1>7

(* The search for the first of some places finds one.                       *)
LEMMA FirstIsThere ==
    ASSUME NEW at \in SUBSET Nat, at # {}
    PROVE  (CHOOSE i \in at : \A j \in at : i <= j) \in at
<1>1. PICK x \in at : \A y \in at : ~(<<y, x>> \in OpToRel(<, Nat))
  BY NatLessThanWellFounded, WFMin
<1>2. ASSUME NEW a \in Nat, NEW b \in Nat, a < b
      PROVE  <<a, b>> \in OpToRel(<, Nat)
  <2>1. <<a, b>> \in Nat \X Nat /\ <<a, b>>[1] = a /\ <<a, b>>[2] = b
    OBVIOUS
  <2>. QED  BY <2>1, <1>2 DEF OpToRel
<1>3. \A y \in at : x <= y
  <2>1. SUFFICES ASSUME NEW y \in at, y < x  PROVE FALSE
    OBVIOUS
  <2>. QED  BY <1>1, <1>2, <2>1, Zenon
<1>. QED  BY <1>3

(* When place k is removed, the places whose subscriptions are in T are the *)
(* ones they were, less k, moved up.                                        *)
LEMMA PlacesAfterRemoveAt ==
    ASSUME NEW S, NEW T, NEW q \in Seq(S), NEW k \in 1..Len(q)
    PROVE  LET r == RemoveAt(q, k)
               old == {n \in DOMAIN q : q[n] \in T}
               new == {n \in DOMAIN r : r[n] \in T}
           IN  /\ IsFiniteSet(old)
               /\ Cardinality(new) =
                    IF q[k] \in T THEN Cardinality(old) - 1 ELSE Cardinality(old)
<1>. DEFINE r == RemoveAt(q, k)
            old == {n \in DOMAIN q : q[n] \in T}
            new == {n \in DOMAIN r : r[n] \in T}
            f == [n \in new |-> IF n < k THEN n ELSE n + 1]
<1>1. Len(q) \in Nat /\ DOMAIN q = 1..Len(q) /\ k \in 1..Len(q)
  BY LenProperties
<1>2. /\ DOMAIN r = 1..(Len(q) - 1)
      /\ \A j \in 1..(Len(q) - 1) : r[j] = IF j < k THEN q[j] ELSE q[j + 1]
  <2>1. /\ r \in Seq(S) /\ Len(r) = Len(q) - 1
        /\ \A j \in 1..(Len(q) - 1) : r[j] = IF j < k THEN q[j] ELSE q[j + 1]
    BY RemoveAtProperties
  <2>. HIDE DEF r
  <2>. QED  BY <2>1, LenProperties
<1>. HIDE DEF r
<1>3. IsFiniteSet(old)
  <2>1. IsFiniteSet(1..Len(q)) /\ old \in SUBSET (1..Len(q))
    BY <1>1, FS_Interval
  <2>. HIDE DEF old
  <2>. QED  BY <2>1, FS_Subset
<1>4. /\ IsFiniteSet(old \ {k})
      /\ Cardinality(old \ {k}) =
           IF q[k] \in T THEN Cardinality(old) - 1 ELSE Cardinality(old)
  <2>1. k \in old <=> q[k] \in T
    BY <1>1
  <2>. HIDE DEF old
  <2>. QED  BY <1>3, <2>1, FS_RemoveElement
<1>5. f \in Bijection(new, old \ {k})
  <2>1. \A n \in new : f[n] \in old \ {k}
    BY <1>1, <1>2
  <2>2. f \in [new -> old \ {k}]
    BY <2>1
  <2>3. \A m, n \in new : f[m] = f[n] => m = n
    BY <1>1, <1>2
  <2>4. ASSUME NEW m \in old \ {k}  PROVE \E n \in new : f[n] = m
    <3>1. CASE m < k
      <4>1. m \in new
        BY <1>1, <1>2, <3>1
      <4>2. f[m] = m
        BY <4>1, <3>1
      <4>. QED  BY <4>1, <4>2
    <3>2. CASE m > k
      <4>1. m - 1 \in new /\ ~(m - 1 < k) /\ (m - 1) + 1 = m
        BY <1>1, <1>2, <3>2
      <4>2. f[m - 1] = m
        BY <4>1
      <4>. QED  BY <4>1, <4>2
    <3>. QED  BY <1>1, <3>1, <3>2
  <2>. HIDE DEF f, new, old
  <2>. QED  BY <2>2, <2>3, <2>4 DEF Bijection, Injection, Surjection, IsInjective
<1>6. ExistsBijection(new, old \ {k})
  BY <1>5 DEF ExistsBijection
<1>7. ExistsBijection(old \ {k}, new)
  <2>. HIDE DEF old, new
  <2>. QED  BY <1>6, Fun_ExistsBijSymmetric
<1>8. Cardinality(new) = Cardinality(old \ {k})
  <2>. HIDE DEF old, new
  <2>. QED  BY <1>4, <1>7, FS_Bijection
<1>. QED  BY <1>3, <1>4, <1>8 DEF r

(* Subscribe lists a subscription that did not exist.                       *)
LEMMA SubscribeStep ==
    ASSUME ExistInv, NEW t \in Threads, Subscribe(t)
    PROVE  \E s \in Subs :
             /\ ~Created(s) /\ ~active[s]
             /\ id' = [id EXCEPT ![s] = counter]
             /\ active' = [active EXCEPT ![s] = TRUE]
             /\ counter' = counter + 1
             /\ list' = Append(list, s)
             /\ doing[t] = Idle
             /\ \/ doing' = [doing EXCEPT ![t] = Call("filter", s, None, <<>>)]
                \/ doing' = doing
             /\ switched' = switched
  BY DEF Subscribe, ExistInv

(* Erase removes a listed subscription, or changes no list.                 *)
LEMMA EraseStep ==
    ASSUME ExistInv, NEW t \in Threads, Erase(t)
    PROVE  LET s == doing[t].sub
               at == Places(id[s])
           IN  /\ s \in Subs /\ id[s] \in Int
               /\ active' = [active EXCEPT ![s] = FALSE]
               /\ doing' = [doing EXCEPT ![t] = Idle]
               /\ id' = id /\ switched' = switched
               /\ \/ /\ active[s] /\ at # {}
                     /\ \E k \in at : list' = RemoveAt(list, k)
                     /\ counter' = counter - 1
                  \/ /\ ~active[s] \/ at = {}
                     /\ list' = list /\ counter' = counter
<1>. DEFINE s == doing[t].sub
            at == Places(id[s])
            k == CHOOSE i \in at : \A j \in at : i <= j
<1>1. s \in Subs /\ id[s] \in Int
  BY DEF ExistInv, Erase, Created
<1>2. at \in SUBSET Nat
  BY LenProperties DEF ExistInv, Places
<1>3. at # {} => k \in at
  <2>. HIDE DEF at
  <2>. QED  BY <1>2, FirstIsThere
<1>4. /\ active' = [active EXCEPT ![s] = FALSE]
      /\ doing' = [doing EXCEPT ![t] = Idle]
      /\ id' = id /\ switched' = switched
      /\ list' = IF active[s] /\ at # {} THEN RemoveAt(list, k) ELSE list
      /\ counter' = IF active[s] /\ at # {} THEN counter - 1 ELSE counter
  BY Zenon DEF Erase, Places
<1>. HIDE DEF at, k
<1>5. CASE active[s] /\ at # {}
  BY <1>1, <1>3, <1>4, <1>5 DEF at
<1>6. CASE ~(active[s] /\ at # {})
  BY <1>1, <1>4, <1>6 DEF at
<1>. QED  BY <1>5, <1>6

(* ExistInv is inductive.                                                   *)
LEMMA ExistInvariant == Spec => []ExistInv
<1>1. Init => ExistInv
  <2>. SUFFICES ASSUME Init  PROVE ExistInv
    OBVIOUS
  <2>1. list \in Seq(Subs) /\ DOMAIN list = {}
    BY EmptySeq DEF Init
  <2>2. active \in [Subs -> BOOLEAN] /\ \A s \in Subs : ~active[s]
    BY DEF Init
  <2>. QED  BY <2>1, <2>2 DEF Init, ExistInv, Idle, Call
<1>2. ExistInv /\ [Next]_vars => ExistInv'
  <2>. SUFFICES ASSUME ExistInv, [Next]_vars  PROVE ExistInv'
    OBVIOUS
  <2>1. CASE UNCHANGED vars
    BY <2>1 DEF vars, ExistInv, Created
  <2>2. ASSUME NEW t \in Threads, Subscribe(t)  PROVE ExistInv'
    <3>1. PICK s \in Subs :
             /\ ~Created(s)
             /\ id' = [id EXCEPT ![s] = counter]
             /\ active' = [active EXCEPT ![s] = TRUE]
             /\ counter' = counter + 1
             /\ list' = Append(list, s)
             /\ doing[t] = Idle
             /\ \/ doing' = [doing EXCEPT ![t] = Call("filter", s, None, <<>>)]
                \/ doing' = doing
      BY <2>2, SubscribeStep
    <3>2. id' \in [Subs -> Int \cup {None}] /\ counter' \in Int
      BY <3>1 DEF ExistInv
    <3>3. active' \in [Subs -> BOOLEAN]
      BY <3>1 DEF ExistInv
    <3>4. \A x \in Subs : Created(x) \/ x = s => id'[x] # None
      BY <3>1, StreamAssumption DEF ExistInv, Created
    <3>5. /\ list' \in Seq(Subs) /\ Len(list) \in Nat
          /\ DOMAIN list = 1..Len(list) /\ DOMAIN list' = 1..(Len(list) + 1)
          /\ \A n \in 1..Len(list) : list'[n] = list[n] /\ list[n] \in Subs
          /\ list'[Len(list) + 1] = s
      BY <3>1, AppendProperties, LenProperties DEF ExistInv
    <3>6. \A n \in DOMAIN list' : id'[list'[n]] # None
      <4>. TAKE n \in DOMAIN list'
      <4>1. CASE n \in 1..Len(list)
        BY <4>1, <3>4, <3>5 DEF ExistInv
      <4>2. CASE n = Len(list) + 1
        BY <4>2, <3>4, <3>5
      <4>. QED  BY <4>1, <4>2, <3>5
    <3>7. \A x \in Subs : active'[x] => id'[x] # None
      BY <3>1, <3>4 DEF ExistInv
    <3>8. /\ doing' = [u \in Threads |-> doing'[u]]
          /\ \A u \in Threads : doing'[u].op = "erase" => doing'[u] = doing[u]
      BY <3>1 DEF ExistInv, Call
    <3>9. \A u \in Threads : doing'[u].op = "erase" =>
             doing'[u].sub \in Subs /\ id'[doing'[u].sub] # None
      BY <3>4, <3>8 DEF ExistInv
    <3>. QED  BY <3>2, <3>3, <3>5, <3>6, <3>7, <3>8, <3>9 DEF ExistInv, Created
  <2>3. ASSUME NEW t \in Threads, Erase(t)  PROVE ExistInv'
    <3>. DEFINE s == doing[t].sub
    <3>1. /\ s \in Subs
          /\ active' = [active EXCEPT ![s] = FALSE]
          /\ doing' = [doing EXCEPT ![t] = Idle]
          /\ id' = id
          /\ \/ /\ \E k \in Places(id[s]) : list' = RemoveAt(list, k)
                /\ counter' = counter - 1
             \/ list' = list /\ counter' = counter
      BY <2>3, EraseStep
    <3>. HIDE DEF s
    <3>2. /\ list' \in Seq(Subs) /\ \A n \in DOMAIN list' : Created(list'[n])
      <4>1. CASE list' = list
        BY <4>1 DEF ExistInv
      <4>2. ASSUME NEW k \in Places(id[s]), list' = RemoveAt(list, k)
            PROVE  list' \in Seq(Subs) /\ \A n \in DOMAIN list' : Created(list'[n])
        <5>1. Len(list) \in Nat /\ DOMAIN list = 1..Len(list) /\ k \in 1..Len(list)
          BY LenProperties DEF ExistInv, Places
        <5>2. /\ list' \in Seq(Subs) /\ DOMAIN list' = 1..(Len(list) - 1)
              /\ \A j \in 1..(Len(list) - 1) :
                    list'[j] = IF j < k THEN list[j] ELSE list[j + 1]
          <6>1. list \in Seq(Subs)
            BY DEF ExistInv
          <6>. QED  BY <4>2, <5>1, <6>1, RemoveAtProperties, LenProperties
        <5>3. \A j \in 1..Len(list) : Created(list[j])
          BY <5>1 DEF ExistInv
        <5>. QED  BY <5>1, <5>2, <5>3 DEF Created
      <4>. QED  BY <3>1, <4>1, <4>2
    <3>3. active' \in [Subs -> BOOLEAN] /\ \A x \in Subs : active'[x] => active[x]
      BY <3>1 DEF ExistInv
    <3>4. counter' \in Int
      BY <3>1 DEF ExistInv
    <3>5. /\ doing' = [u \in Threads |-> doing'[u]]
          /\ \A u \in Threads : doing'[u].op = "erase" => doing'[u] = doing[u]
      BY <3>1 DEF ExistInv, Idle, Call
    <3>. QED  BY <3>1, <3>2, <3>3, <3>4, <3>5 DEF ExistInv, Created
  <2>4. ASSUME NEW t \in Threads, Unsubscribe(t)  PROVE ExistInv'
    <3>1. PICK s \in Subs : /\ Created(s)
                            /\ doing' = [doing EXCEPT ![t] = Call("erase", s, None, <<>>)]
      BY <2>4 DEF Unsubscribe, Returned
    <3>2. /\ doing' = [u \in Threads |-> doing'[u]]
          /\ doing'[t].sub = s
          /\ \A u \in Threads \ {t} : doing'[u] = doing[u]
      BY <3>1 DEF ExistInv, Call
    <3>3. UNCHANGED <<list, counter, id, active>>
      BY <2>4 DEF Unsubscribe
    <3>. QED  BY <3>1, <3>2, <3>3 DEF ExistInv, Created
  <2>5. ASSUME NEW t \in Threads,
               SetPredicate(t) \/ Publish(t) \/ CallHandler(t) \/ PublishReturns(t)
        PROVE  ExistInv'
    <3>1. \E e, q : \/ doing' = [doing EXCEPT ![t] = Idle]
                    \/ doing' = [doing EXCEPT ![t] = Call("publish", None, e, q)]
      <4>1. CASE SetPredicate(t) \/ PublishReturns(t)
        BY <4>1 DEF SetPredicate, PublishReturns
      <4>2. CASE Publish(t)
        BY <4>2, Zenon DEF Publish
      <4>3. CASE CallHandler(t)
        BY <4>3 DEF CallHandler
      <4>. QED  BY <2>5, <4>1, <4>2, <4>3
    <3>2. /\ doing' = [u \in Threads |-> doing'[u]]
          /\ \A u \in Threads : doing'[u].op = "erase" => doing'[u] = doing[u]
      <4>1. \A e, q : Idle.op = "idle" /\ Call("publish", None, e, q).op = "publish"
        BY DEF Idle, Call
      <4>2. PICK c : c.op # "erase" /\ doing' = [doing EXCEPT ![t] = c]
        BY <3>1, <4>1
      <4>. QED  BY <4>2 DEF ExistInv
    <3>3. UNCHANGED <<list, counter, id, active>>
      BY <2>5 DEF SetPredicate, Publish, CallHandler, PublishReturns
    <3>. QED  BY <3>2, <3>3 DEF ExistInv, Created
  <2>7. ASSUME NEW t \in Threads, AskPredicate(t)  PROVE ExistInv'
    <3>. DEFINE s == Head(doing[t].left)
                rest == Call("publish", None, doing[t].event, Tail(doing[t].left))
                handle == [Call("call", s, rest.event, rest.left) EXCEPT !.after = Returned(s)]
    <3>1. /\ UNCHANGED <<list, counter, id, active>>
          /\ \/ doing' = [doing EXCEPT ![t] = rest]
             \/ doing' = [doing EXCEPT ![t] = handle]
             \/ doing' = doing
      BY <2>7 DEF AskPredicate
    <3>2. rest.op = "publish" /\ handle.op = "call"
      BY DEF Call
    <3>. HIDE DEF rest, handle
    <3>3. /\ doing' = [u \in Threads |-> doing'[u]]
          /\ \A u \in Threads : doing'[u].op = "erase" => doing'[u] = doing[u]
      BY <3>1, <3>2 DEF ExistInv
    <3>. QED  BY <3>1, <3>3 DEF ExistInv, Created
  <2>6. ASSUME NEW t \in Threads, SetActive(t)  PROVE ExistInv'
    <3>1. PICK s \in Subs : Created(s) /\ active' = [active EXCEPT ![s] = ~@]
      BY <2>6 DEF SetActive, Returned
    <3>2. /\ active' \in [Subs -> BOOLEAN]
          /\ \A x \in Subs : active'[x] => active[x] \/ x = s
      BY <3>1, Zenon DEF ExistInv
    <3>3. UNCHANGED <<list, counter, id, doing>>
      BY <2>6 DEF SetActive
    <3>. QED  BY <3>1, <3>2, <3>3 DEF ExistInv, Created
  <2>. QED  BY <2>1, <2>2, <2>3, <2>4, <2>5, <2>6, <2>7 DEF Next
<1>. QED  BY <1>1, <1>2, PTL DEF Spec

(* Both sides of the balance are finite.                                    *)
LEMMA SidesFinite ==
    ASSUME ExistInv, NEW i
    PROVE  /\ IsFiniteSet(Places(i)) /\ Cardinality(Places(i)) \in Nat
           /\ IsFiniteSet(ActiveWith(i)) /\ Cardinality(ActiveWith(i)) \in Nat
<1>1. /\ IsFiniteSet(1..Len(list)) /\ Places(i) \in SUBSET (1..Len(list))
      /\ ActiveWith(i) \in SUBSET Subs /\ IsFiniteSet(Subs)
  BY LenProperties, FS_Interval, StreamAssumption DEF ExistInv, Places, ActiveWith
<1>. QED  BY <1>1, FS_Subset, FS_CardinalityType

(* Subscribe adds one to both sides of the id it gives out.                 *)
LEMMA SubscribeBalances ==
    ASSUME ExistInv, NEW t \in Threads, Subscribe(t), NEW i \in Int,
           Cardinality(Places(i)) = Cardinality(ActiveWith(i))
    PROVE  Cardinality(Places(i))' = Cardinality(ActiveWith(i))'
<1>1. PICK s \in Subs :
         /\ ~Created(s) /\ ~active[s]
         /\ id' = [id EXCEPT ![s] = counter]
         /\ active' = [active EXCEPT ![s] = TRUE]
         /\ list' = Append(list, s)
  BY SubscribeStep
<1>. DEFINE l == Len(list)
<1>2. /\ l \in Nat /\ DOMAIN list = 1..l /\ DOMAIN list' = 1..(l + 1)
      /\ \A n \in 1..l : list'[n] = list[n] /\ list[n] \in Subs
      /\ list'[l + 1] = s
  BY <1>1, AppendProperties, LenProperties DEF ExistInv
<1>. HIDE DEF l
<1>3. \A n \in 1..l : list[n] # s
  BY <1>1, <1>2 DEF ExistInv
<1>4. \A x \in Subs : id'[x] = IF x = s THEN counter ELSE id[x]
  BY <1>1 DEF ExistInv
<1>5. \A x \in Subs : active'[x] = IF x = s THEN TRUE ELSE active[x]
  BY <1>1 DEF ExistInv
<1>6. \A n \in 1..l : id'[list'[n]] = id[list[n]]
  BY <1>2, <1>3, <1>4
<1>7. id'[list'[l + 1]] = counter
  BY <1>2, <1>4
<1>8. l + 1 \notin Places(i) /\ s \notin ActiveWith(i)
  BY <1>1, <1>2 DEF Places, ActiveWith
<1>9. CASE i = counter
  <2>1. Places(i)' = Places(i) \cup {l + 1}
    <3>1. DOMAIN list' = DOMAIN list \cup {l + 1}
      BY <1>2
    <3>. QED  BY <3>1, <1>2, <1>6, <1>7, <1>9 DEF Places
  <2>2. ActiveWith(i)' = ActiveWith(i) \cup {s}
    BY <1>4, <1>5, <1>9 DEF ActiveWith
  <2>3. Cardinality(Places(i)') = Cardinality(Places(i)) + 1
    BY <1>8, <2>1, SidesFinite, FS_AddElement
  <2>4. Cardinality(ActiveWith(i)') = Cardinality(ActiveWith(i)) + 1
    BY <1>8, <2>2, SidesFinite, FS_AddElement
  <2>. QED  BY <2>3, <2>4
<1>10. CASE i # counter
  <2>1. Places(i)' = Places(i)
    <3>1. DOMAIN list' = DOMAIN list \cup {l + 1}
      BY <1>2
    <3>. QED  BY <3>1, <1>2, <1>6, <1>7, <1>10 DEF Places
  <2>2. ActiveWith(i)' = ActiveWith(i)
    <3>1. id[s] # i
      BY <1>1 , StreamAssumption DEF Created
    <3>. QED  BY <3>1, <1>4, <1>5, <1>10 DEF ActiveWith
  <2>. QED  BY <2>1, <2>2
<1>. QED  BY <1>9, <1>10

(* Erase takes one off both sides of the id it looks for, whosever entry it *)
(* removes, or off neither.                                                 *)
LEMMA EraseBalances ==
    ASSUME ExistInv, \A j \in Int : Cardinality(Places(j)) = Cardinality(ActiveWith(j)),
           NEW t \in Threads, Erase(t), NEW i \in Int
    PROVE  Cardinality(Places(i))' = Cardinality(ActiveWith(i))'
<1>. DEFINE s == doing[t].sub
            at == Places(id[s])
<1>1. /\ s \in Subs /\ id[s] \in Int
      /\ active' = [active EXCEPT ![s] = FALSE]
      /\ id' = id
      /\ \/ active[s] /\ \E k \in at : list' = RemoveAt(list, k)
         \/ (~active[s] \/ at = {}) /\ list' = list
  BY EraseStep
<1>2. \A x \in Subs : active'[x] = IF x = s THEN FALSE ELSE active[x]
  BY <1>1 DEF ExistInv
<1>. HIDE DEF s
<1>3. ActiveWith(i)' = ActiveWith(i) \ {s}
  BY <1>1, <1>2 DEF ActiveWith
<1>4. Cardinality(ActiveWith(i)') =
        IF active[s] /\ id[s] = i THEN Cardinality(ActiveWith(i)) - 1
        ELSE Cardinality(ActiveWith(i))
  <2>1. s \in ActiveWith(i) <=> active[s] /\ id[s] = i
    BY <1>1 DEF ActiveWith
  <2>2. IsFiniteSet(ActiveWith(i))
    BY SidesFinite
  <2>3. Cardinality(ActiveWith(i) \ {s}) =
          IF s \in ActiveWith(i) THEN Cardinality(ActiveWith(i)) - 1 ELSE Cardinality(ActiveWith(i))
    BY <2>2, FS_RemoveElement
  <2>. QED  BY <1>3, <2>1, <2>3
<1>5. CASE active[s] /\ at = {}
  <2>1. Cardinality(at) = 0 /\ s \in ActiveWith(id[s])
    BY <1>1, <1>5, FS_EmptySet DEF ActiveWith
  <2>2. Cardinality(ActiveWith(id[s])) = 0
    BY <1>1, <2>1
  <2>. QED  BY <2>1, <2>2, SidesFinite, FS_EmptySet
<1>6. CASE ~active[s]
  <2>1. list' = list
    BY <1>1, <1>6
  <2>2. Places(i)' = Places(i)
    BY <1>1, <2>1 DEF Places
  <2>. QED  BY <1>4, <1>6, <2>2
<1>7. ASSUME NEW k \in at, active[s], list' = RemoveAt(list, k)
      PROVE  Cardinality(Places(i))' = Cardinality(ActiveWith(i))'
  <2>. DEFINE T == {x \in Subs : id[x] = i}
  <2>1. k \in 1..Len(list) /\ id[list[k]] = id[s] /\ list[k] \in Subs
    BY <1>7, LenProperties DEF ExistInv, Places
  <2>2. list' \in Seq(Subs)
    BY <1>7, <2>1, RemoveAtProperties DEF ExistInv
  <2>3. /\ \A n \in DOMAIN list : list[n] \in Subs
        /\ \A n \in DOMAIN list' : list'[n] \in Subs
    BY <2>2, LenProperties DEF ExistInv
  <2>4. /\ Places(i) = {n \in DOMAIN list : list[n] \in T}
        /\ Places(i)' = {n \in DOMAIN list' : list'[n] \in T}
    BY <1>1, <2>3 DEF Places
  <2>5. list[k] \in T <=> id[s] = i
    BY <2>1
  <2>. HIDE DEF T
  <2>6. LET r == RemoveAt(list, k)
            old == {n \in DOMAIN list : list[n] \in T}
            new == {n \in DOMAIN r : r[n] \in T}
        IN  Cardinality(new) =
              IF list[k] \in T THEN Cardinality(old) - 1 ELSE Cardinality(old)
    <3>1. list \in Seq(Subs)
      BY DEF ExistInv
    <3>. QED  BY <2>1, <3>1, PlacesAfterRemoveAt, Zenon
  <2>7. Cardinality(Places(i)') =
          IF list[k] \in T THEN Cardinality(Places(i)) - 1 ELSE Cardinality(Places(i))
    BY <1>7, <2>4, <2>6
  <2>. QED  BY <1>4, <1>7, <2>5, <2>7
<1>. QED  BY <1>1, <1>5, <1>6, <1>7

(* For every id as many subscriptions are listed as are active, so the      *)
(* search of an Unsubscribe that deactivates finds an entry, however        *)
(* subscriptions and their removals interleave; for any number of them.     *)
THEOREM IdsKeepBalance == Spec => []IdsBalance
<1>1. Init => BalanceInv
  <2>. SUFFICES ASSUME Init, NEW i \in Int
                PROVE  Cardinality(Places(i)) = Cardinality(ActiveWith(i))
    BY DEF BalanceInv
  <2>1. Places(i) = {}
    BY EmptySeq DEF Init, Places
  <2>2. ActiveWith(i) = {}
    BY DEF Init, ActiveWith
  <2>. QED  BY <2>1, <2>2
<1>2. ExistInv /\ BalanceInv /\ [Next]_vars => BalanceInv'
  <2>. SUFFICES ASSUME ExistInv, BalanceInv, [Next]_vars  PROVE BalanceInv'
    OBVIOUS
  <2>1. CASE UNCHANGED <<list, id, active, switched>>
    <3>1. \A i : Places(i)' = Places(i) /\ ActiveWith(i)' = ActiveWith(i)
      BY <2>1 DEF Places, ActiveWith
    <3>. QED  BY <2>1, <3>1 DEF BalanceInv
  <2>2. ASSUME NEW t \in Threads, Subscribe(t)  PROVE BalanceInv'
    <3>1. switched' = switched
      BY <2>2 DEF Subscribe
    <3>. QED  BY <2>2, <3>1, SubscribeBalances DEF BalanceInv
  <2>3. ASSUME NEW t \in Threads, Erase(t)  PROVE BalanceInv'
    <3>1. switched' = switched
      BY <2>3 DEF Erase
    <3>. QED  BY <2>3, <3>1, EraseBalances DEF BalanceInv
  <2>4. ASSUME NEW t \in Threads, SetActive(t)  PROVE BalanceInv'
    BY <2>4 DEF SetActive, BalanceInv
  <2>. QED
    BY <2>1, <2>2, <2>3, <2>4
       DEF Next, vars, SetPredicate, Unsubscribe, Publish, AskPredicate, CallHandler, PublishReturns
<1>3. BalanceInv => IdsBalance
  <2>1. Cardinality(Subs) \in Nat
    BY StreamAssumption, FS_CardinalityType
  <2>. QED  BY <2>1 DEF BalanceInv, IdsBalance, Places, ActiveWith
<1>. QED  BY <1>1, <1>2, <1>3, ExistInvariant, PTL DEF Spec
=============================================================================
