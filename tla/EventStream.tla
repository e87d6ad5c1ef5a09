---------------------------- MODULE EventStream ----------------------------
(***************************************************************************)
(* The publish-subscribe bus of src/actor/eventstream.cpp.  Everything     *)
(* between lock and unlock of mutex_ is one step; what runs outside the    *)
(* mutex is a step of its own: the predicate is stored after the           *)
(* subscription was listed, Unsubscribe looks at active_ before it locks,  *)
(* and Publish goes through a copy of the list, asking each predicate and  *)
(* then calling the handler.                                               *)
(***************************************************************************)
EXTENDS Integers, Sequences, FiniteSets, SequencesExt

CONSTANTS
    Subs,      \* Subscription objects
    Filtered,  \* those made by SubscribeWithPredicate
    Threads,   \* threads that use the stream
    MaxCalls,  \* bound: calls of Publish, Activate and Deactivate
    None

ASSUME StreamAssumption ==
    /\ IsFiniteSet(Subs) /\ Filtered \subseteq Subs
    /\ None \notin Subs /\ None \notin Int
    /\ MaxCalls \in Nat

(* What a predicate tells apart: events it accepts and events it does not.  *)
Events == {"accepted", "rejected"}

VARIABLES
    list,      \* subscriptions_
    counter,   \* counter_
    id,        \* id_, None before the object exists
    active,    \* active_
    predicate, \* whether predicate_ is set
    doing,     \* the call each thread is in
    crashed,   \* a half stored predicate was called
    got,       \* history: the calls of handlers, see Handled
    switched,  \* history: Activate or Deactivate was called from outside
    calls      \* calls that are bounded, so far

vars == <<list, counter, id, active, predicate, doing, crashed, got, switched, calls>>

(* A call: the subscription it is about, the event that is published and    *)
(* the subscriptions still to come.  History: whether that subscription had *)
(* been returned to its caller when Publish asked for its predicate.        *)
Call(op, s, e, q) == [op |-> op, sub |-> s, event |-> e, left |-> q, after |-> FALSE]

Idle == Call("idle", None, None, <<>>)

Init ==
    /\ list = <<>>
    /\ counter = 0
    /\ id = [s \in Subs |-> None]
    /\ active = [s \in Subs |-> FALSE]
    /\ predicate = [s \in Subs |-> FALSE]
    /\ doing = [t \in Threads |-> Idle]
    /\ crashed = FALSE
    /\ got = {}
    /\ switched = FALSE
    /\ calls = 0

Created(s) == id[s] # None

(* A thread is between the listing of s and the end of the store of its     *)
(* predicate, which no lock protects.                                       *)
BeingStored(s) == \E t \in Threads : doing[t].op = "filter" /\ doing[t].sub = s

(* Some thread can have s: the call that makes it is over.                  *)
Returned(s) == Created(s) /\ ~BeingStored(s)

-----------------------------------------------------------------------------
Subscribe(t) ==
    /\ doing[t] = Idle
    /\ \E s \in Subs :
        /\ ~Created(s)
        /\ id' = [id EXCEPT ![s] = counter]
        /\ active' = [active EXCEPT ![s] = TRUE]
        /\ counter' = counter + 1
        /\ list' = Append(list, s)
        /\ doing' = IF s \in Filtered
                    THEN [doing EXCEPT ![t] = Call("filter", s, None, <<>>)]
                    ELSE doing
    /\ UNCHANGED <<predicate, crashed, got, switched, calls>>

(* The rest of SubscribeWithPredicate.                                      *)
SetPredicate(t) ==
    /\ doing[t].op = "filter"
    /\ predicate' = [predicate EXCEPT ![doing[t].sub] = TRUE]
    /\ doing' = [doing EXCEPT ![t] = Idle]
    /\ UNCHANGED <<list, counter, id, active, crashed, got, switched, calls>>

(* Unsubscribe sees the subscription active and goes for the mutex.         *)
Unsubscribe(t) ==
    /\ doing[t] = Idle
    /\ \E s \in Subs :
        /\ Returned(s) /\ active[s]
        /\ doing' = [doing EXCEPT ![t] = Call("erase", s, None, <<>>)]
    /\ UNCHANGED <<list, counter, id, active, predicate, crashed, got, switched, calls>>

(* Mutant: the result of Deactivate is ignored.                             *)
EraseAgain(t) ==
    /\ doing[t].op = "erase"
    /\ doing' = [doing EXCEPT ![t] = Idle]
    /\ LET s == doing[t].sub
           at == {i \in DOMAIN list : id[list[i]] = id[s]}
       IN  /\ active' = [active EXCEPT ![s] = FALSE]
           /\ list' = IF at # {}
                      THEN RemoveAt(list, CHOOSE i \in at : \A j \in at : i <= j)
                      ELSE list
           /\ counter' = IF at # {} THEN counter - 1 ELSE counter
    /\ UNCHANGED <<id, predicate, crashed, got, switched, calls>>

(* The first listed subscription with the id goes, whosever it is.          *)
Erase(t) ==
    /\ doing[t].op = "erase"
    /\ doing' = [doing EXCEPT ![t] = Idle]
    /\ LET s == doing[t].sub
           at == {i \in DOMAIN list : id[list[i]] = id[s]}
           found == active[s] /\ at # {}
       IN  /\ active' = [active EXCEPT ![s] = FALSE]
           /\ list' = IF found
                      THEN RemoveAt(list, CHOOSE i \in at : \A j \in at : i <= j)
                      ELSE list
           /\ counter' = IF found THEN counter - 1 ELSE counter
    /\ UNCHANGED <<id, predicate, crashed, got, switched, calls>>

Publish(t) ==
    /\ doing[t] = Idle
    /\ calls < MaxCalls /\ calls' = calls + 1
    /\ \E e \in Events :
        LET isActive(s) == active[s]
        IN  doing' = [doing EXCEPT ![t] =
                            Call("publish", None, e, SelectSeq(list, isActive))]
    /\ UNCHANGED <<list, counter, id, active, predicate, crashed, got, switched>>

(* Mutant: the predicate is not asked.                                      *)
AskNothing(t) ==
    /\ doing[t].op = "publish" /\ doing[t].left # <<>>
    /\ LET s == Head(doing[t].left)
       IN  doing' = [doing EXCEPT ![t] =
               [Call("call", s, @.event, Tail(@.left)) EXCEPT !.after = Returned(s)]]
    /\ UNCHANGED <<list, counter, id, active, predicate, crashed, got, switched, calls>>

(* The next of the copy.  The look at predicate_ and the call of it race    *)
(* with its store: they find the old one, the new one, or, half stored, no  *)
(* function behind a predicate that is set.                                 *)
AskPredicate(t) ==
    /\ doing[t].op = "publish" /\ doing[t].left # <<>>
    /\ LET s == Head(doing[t].left)
           rest == Call("publish", None, doing[t].event, Tail(doing[t].left))
           handle == [Call("call", s, rest.event, rest.left) EXCEPT !.after = Returned(s)]
       IN  \/ /\ predicate[s] \/ BeingStored(s)
              /\ doing' = [doing EXCEPT ![t] = IF rest.event = "rejected" THEN rest ELSE handle]
              /\ UNCHANGED crashed
           \/ /\ ~predicate[s]
              /\ doing' = [doing EXCEPT ![t] = handle]
              /\ UNCHANGED crashed
           \/ /\ BeingStored(s)
              /\ crashed' = TRUE /\ UNCHANGED doing
    /\ UNCHANGED <<list, counter, id, active, predicate, got, switched, calls>>

Handled(c) == [sub |-> c.sub, event |-> c.event, after |-> c.after]

CallHandler(t) ==
    /\ doing[t].op = "call"
    /\ got' = got \cup {Handled(doing[t])}
    /\ doing' = [doing EXCEPT ![t] = Call("publish", None, @.event, @.left)]
    /\ UNCHANGED <<list, counter, id, active, predicate, crashed, switched, calls>>

PublishReturns(t) ==
    /\ doing[t].op = "publish" /\ doing[t].left = <<>>
    /\ doing' = [doing EXCEPT ![t] = Idle]
    /\ UNCHANGED <<list, counter, id, active, predicate, crashed, got, switched, calls>>

(* Activate and Deactivate are public: the list does not learn of them.     *)
SetActive(t) ==
    /\ doing[t] = Idle
    /\ calls < MaxCalls /\ calls' = calls + 1
    /\ \E s \in Subs :
        /\ Returned(s)
        /\ active' = [active EXCEPT ![s] = ~@]
    /\ switched' = TRUE
    /\ UNCHANGED <<list, counter, id, predicate, doing, crashed, got>>

Next ==
    /\ ~crashed
    /\ \E t \in Threads :
        \/ Subscribe(t) \/ SetPredicate(t) \/ Unsubscribe(t) \/ Erase(t)
        \/ Publish(t) \/ AskPredicate(t) \/ CallHandler(t) \/ PublishReturns(t)
        \/ SetActive(t)

Spec == Init /\ [][Next]_vars

-----------------------------------------------------------------------------
(* Properties                                                               *)

TypeOK ==
    /\ list \in Seq(Subs)
    /\ counter \in 0..Cardinality(Subs)
    /\ id \in [Subs -> 0..Cardinality(Subs) \cup {None}]
    /\ active \in [Subs -> BOOLEAN]
    /\ predicate \in [Subs -> BOOLEAN]
    /\ doing \in [Threads -> [op : {"idle", "filter", "erase", "publish", "call"},
                              sub : Subs \cup {None}, event : Events \cup {None},
                              left : Seq(Subs), after : BOOLEAN]]
    /\ crashed \in BOOLEAN
    /\ got \subseteq [sub : Subs, event : Events, after : BOOLEAN]
    /\ switched \in BOOLEAN
    /\ calls \in 0..MaxCalls

(* For every id as many subscriptions are listed as are active: the search  *)
(* of an Unsubscribe that deactivates always finds an entry, although ids   *)
(* are given twice and a search may have taken the entry of another         *)
(* subscription.  Only switching a subscription from outside ends this.     *)
IdsBalance ==
    switched \/ \A i \in 0..Cardinality(Subs) :
        Cardinality({n \in DOMAIN list : id[list[n]] = i})
            = Cardinality({s \in Subs : active[s] /\ id[s] = i})

(* A handler gets an event that its predicate rejects only from a Publish   *)
(* that came to its subscription before SubscribeWithPredicate had          *)
(* returned.  The call itself may come later, but a Publish that copied the *)
(* list while the predicate was missing and asks for it afterwards obeys.   *)
FilteredOnceReturned ==
    \A c \in got : c.sub \in Filtered /\ c.event = "rejected" => ~c.after

(* Publish reaches every subscriber: who is subscribed is in the list.      *)
SubscriberIsListed == \A s \in Subs : active[s] => \E i \in DOMAIN list : list[i] = s

=============================================================================
