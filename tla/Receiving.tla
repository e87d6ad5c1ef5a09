----------------------------- MODULE Receiving -----------------------------
(***************************************************************************)
(* What a user message passes on its way into an actor: the receiver       *)
(* middleware of its Props (src/src/actor/middleware_chain.cpp), here with *)
(* deduplication (src/src/actor/deduplication_context.cpp) in it, and the  *)
(* stack of behaviors of the actor (src/src/actor/behavior.cpp).           *)
(*                                                                         *)
(* The chain and the state of the deduplication belong to the Props: all   *)
(* actors spawned from them share it and run it on their own threads.      *)
(***************************************************************************)
EXTENDS Naturals, Sequences

CONSTANTS Actors,      \* actors spawned from one Props
          Keys,        \* keys of the deduplicator; "none" stands for no key
          TTL,         \* ttl_, in ticks
          MaxDelay,    \* ticks a thread may lose between the clock and the lock
          MaxDepth     \* bound on the stack of behaviors

VARIABLES seen,      \* seen_: ticks since the time stamp of each key, Gone if absent
          thread,    \* the message each actor is receiving
          gap,       \* ticks since a message with the key was last let through
          least,     \* the least gap at which one ever was
          behaviors  \* behaviors_ of each actor

receivingVars == <<seen, thread, gap, least, behaviors>>

(* A stamp this old is as good as absent: no call is older than MaxDelay.  *)
Gone == TTL + MaxDelay + 1
Idle == [at |-> "idle", key |-> "none", age |-> 0]

Init == /\ seen = [k \in Keys |-> Gone]
        /\ thread = [a \in Actors |-> Idle]
        /\ gap = [k \in Keys |-> Gone]
        /\ least = Gone
        /\ behaviors = [a \in Actors |-> <<"initial">>]

---------------------------------------------------------------------------
(* The chain, built from its last link to its first, as a list of links.   *)
Chain(middleware, last) ==
  LET h[i \in 1..(Len(middleware) + 1)] ==
        IF i > Len(middleware) THEN <<last>> ELSE <<middleware[i]>> \o h[i + 1]
  IN h[1]

ReceiverChain == Chain(<<"deduplicate", "pass">>, "actor")

(* The link that a message which left link l meets next.                   *)
After(l) == LET i == CHOOSE i \in DOMAIN ReceiverChain : ReceiverChain[i] = l
            IN ReceiverChain[i + 1]

(* DefaultReceive: the message enters the chain of the Props.              *)
DefaultReceive(a, k) ==
  /\ thread[a] = Idle
  /\ thread' = [thread EXCEPT ![a] = [at |-> Head(ReceiverChain), key |-> k, age |-> 0]]
  /\ UNCHANGED <<seen, gap, least, behaviors>>

Pass(a) == /\ thread[a].at = "pass"
           /\ thread' = [thread EXCEPT ![a].at = After("pass")]
           /\ UNCHANGED <<seen, gap, least, behaviors>>

---------------------------------------------------------------------------
(* Deduplication.  The clock is read before the lock is taken.             *)

Cleanup == [k \in Keys |-> IF seen[k] >= TTL THEN Gone ELSE seen[k]]

(* now = clock, then Cleanup forgets what is TTL old.                      *)
ReadClock(a) ==
  /\ thread[a].at = "deduplicate"
  /\ seen' = Cleanup
  /\ thread' = [thread EXCEPT ![a] =
       [at |-> IF @.key \in Keys THEN "lock" ELSE After("deduplicate"), key |-> @.key, age |-> 0]]
  /\ UNCHANGED <<gap, least, behaviors>>

(* Mutant: the time stamp is not refreshed by what it lets through.        *)
StampOnlyDuplicates(a, dup) == IF dup THEN thread[a].age ELSE seen[thread[a].key]

(* The time stamp left for the key, handled or not: the clock as it was    *)
(* read, now the age of the call.                                          *)
Stamp(a, dup) == thread[a].age

(* elapsed = now - stamp, negative when the stamp is younger than the call *)
Elapsed(a) == IF seen[thread[a].key] >= thread[a].age
              THEN seen[thread[a].key] - thread[a].age ELSE 0

(* The middleware: a message goes on or is dropped without a word.         *)
DeduplicationContext(a, process) ==
  IF process THEN [Idle EXCEPT !.at = After("deduplicate")] ELSE Idle

ShouldProcess(a) ==
  LET k == thread[a].key
      dup == seen[k] # Gone /\ Elapsed(a) < TTL
  IN /\ thread[a].at = "lock"
     /\ seen' = [seen EXCEPT ![k] = Stamp(a, dup)]
     /\ thread' = [thread EXCEPT ![a] = DeduplicationContext(a, ~dup)]
     /\ gap' = [gap EXCEPT ![k] = IF dup THEN @ ELSE 0]
     /\ least' = IF ~dup /\ gap[k] < least THEN gap[k] ELSE least
     /\ UNCHANGED behaviors

(* One tick of the clock; a call holds the clock it read for at most       *)
(* MaxDelay ticks.                                                         *)
Older(n) == IF n < Gone THEN n + 1 ELSE Gone

Tick == /\ \A a \in Actors : thread[a].at = "lock" => thread[a].age < MaxDelay
        /\ seen' = [k \in Keys |-> Older(seen[k])]
        /\ gap' = [k \in Keys |-> Older(gap[k])]
        /\ thread' = [a \in Actors |->
             IF thread[a].at = "lock" THEN [thread[a] EXCEPT !.age = @ + 1] ELSE thread[a]]
        /\ UNCHANGED <<least, behaviors>>

---------------------------------------------------------------------------
(* The actor: the behavior on top receives, and may change the stack.  An  *)
(* empty stack throws, the message is lost with it.                        *)

Become(s, b) == <<b>>
BecomeStacked(s, b) == Append(s, b)
UnbecomeStacked(s) == IF s = <<>> THEN s ELSE SubSeq(s, 1, Len(s) - 1)

BehaviorReceive(a) ==
  /\ thread[a].at = "actor"
  /\ \/ UNCHANGED behaviors
     \/ /\ behaviors[a] # <<>>
        /\ \E s \in {Become(behaviors[a], "next"), BecomeStacked(behaviors[a], "next"),
                     UnbecomeStacked(behaviors[a])} :
             Len(s) <= MaxDepth /\ behaviors' = [behaviors EXCEPT ![a] = s]
  /\ thread' = [thread EXCEPT ![a] = Idle]
  /\ UNCHANGED <<seen, gap, least>>

Next == \/ \E a \in Actors : \/ \E k \in Keys \cup {"none"} : DefaultReceive(a, k)
                             \/ Pass(a) \/ ReadClock(a) \/ ShouldProcess(a)
                             \/ BehaviorReceive(a)
        \/ Tick

---------------------------------------------------------------------------
(* Two messages with the same key are let through at least TTL apart,      *)
(* less the time a thread may lose between reading the clock and taking    *)
(* the lock: such a thread may set a time stamp back, whichever actor of   *)
(* the Props it belongs to.                                                *)
DuplicateGap == least >= TTL - MaxDelay
=============================================================================
