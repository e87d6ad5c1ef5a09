------------------------------- MODULE Probe -------------------------------
(***************************************************************************)
(* Queues that one thread fills and others take from: PriorityQueue        *)
(* (src/src/queue/priority_queue.cpp), whose takers sleep on a condition   *)
(* variable, and TestProbe (src/src/testkit/testprobe.cpp), whose takers   *)
(* poll.  The stream actor (src/src/stream/stream.cpp) fills a queue in    *)
(* the same way; nothing in the repository takes from it.                  *)
(***************************************************************************)
EXTENDS Naturals, Sequences, SequencesExt, FiniteSets

CONSTANTS Takers,
          MaxLength   \* bound on the length of a queue

VARIABLES heap,      \* queue_ of the PriorityQueue: how many items, all of priority 0
          popper,    \* "out", "asleep" or "awake" in Pop
          probed,    \* messages_ of the TestProbe
          expecting, \* what a taker of the probe waits for
          stream,    \* mailbox and queue of the stream actor: how many items
          streaming  \* the stream actor is not stopped

probeVars == <<heap, popper, probed, expecting, stream, streaming>>
heapVars == <<heap, popper>>
testVars == <<probed, expecting>>
streamVars == <<stream, streaming>>

Kinds == {"ping", "pong"}

Init == /\ heap = 0
        /\ popper = [t \in Takers |-> "out"]
        /\ probed = <<>>
        /\ expecting = "nothing"
        /\ stream = [mailbox |-> 1, queue |-> 0]   \* Started is under way
        /\ streaming = TRUE

---------------------------------------------------------------------------
(* PriorityQueue: std::condition_variable wakes one sleeper per notify.    *)

Notified(p) == {p} \cup {[p EXCEPT ![t] = "awake"] : t \in {u \in Takers : p[u] = "asleep"}}
NotifyOne == IF \E t \in Takers : popper[t] = "asleep" THEN Notified(popper) \ {popper}
             ELSE {popper}

(* Mutant: the queue is announced only when it stops being empty.          *)
PushIfEmpty == /\ heap < MaxLength
               /\ heap' = heap + 1
               /\ popper' \in IF heap = 0 THEN NotifyOne ELSE {popper}
               /\ UNCHANGED <<testVars, streamVars>>

Push == /\ heap < MaxLength
        /\ heap' = heap + 1
        /\ popper' \in NotifyOne
        /\ UNCHANGED <<testVars, streamVars>>

(* Pop, from its start or after a wake-up: the predicate decides.          *)
Pop(t) == /\ popper[t] \in {"out", "awake"}
          /\ heap' = IF heap = 0 THEN 0 ELSE heap - 1
          /\ popper' = [popper EXCEPT ![t] = IF heap = 0 THEN "asleep" ELSE "out"]
          /\ UNCHANGED <<testVars, streamVars>>

SpuriousWakeup(t) == /\ popper[t] = "asleep"
                     /\ popper' = [popper EXCEPT ![t] = "awake"]
                     /\ UNCHANGED <<heap, testVars, streamVars>>

ClearHeap == /\ heap' = 0
             /\ UNCHANGED <<popper, testVars, streamVars>>

---------------------------------------------------------------------------
(* TestProbe: the probe's actor appends what it receives, Started apart.   *)

OnMessage(m) == /\ Len(probed) < MaxLength
                /\ probed' = Append(probed, m)
                /\ UNCHANGED <<expecting, heapVars, streamVars>>

Expect(w) == /\ expecting = "nothing"
             /\ expecting' = w
             /\ UNCHANGED <<probed, heapVars, streamVars>>

(* Only the front of the queue is tried; the rest waits behind it.         *)
ExpectMsgMatches ==
  /\ expecting \in Kinds /\ probed # <<>> /\ Head(probed) = expecting
  /\ probed' = Tail(probed)
  /\ expecting' = "nothing"
  /\ UNCHANGED <<heapVars, streamVars>>

(* The timeout is looked at after the queue, under the same lock.          *)
ExpectMsgTimesOut ==
  /\ expecting \in Kinds /\ ~(probed # <<>> /\ Head(probed) = expecting)
  /\ expecting' = "nothing"
  /\ UNCHANGED <<probed, heapVars, streamVars>>

(* ExpectNoMsg sleeps first and looks once, at the end; it takes nothing   *)
(* out, whether it then returns or throws.                                 *)
ExpectNoMsg ==
  /\ expecting = "silence"
  /\ expecting' = "nothing"
  /\ UNCHANGED <<probed, heapVars, streamVars>>

Clear == /\ probed' = <<>>
         /\ UNCHANGED <<expecting, heapVars, streamVars>>

---------------------------------------------------------------------------
(* Streams: the handler given to Subscribe is dropped, and Unsubscribe      *)
(* stops the stream for everybody.                                         *)

(* Whatever the actor receives goes to the queue, Started too; a stopped   *)
(* actor drops it.                                                         *)
StreamActorReceive ==
  /\ stream.mailbox > 0
  /\ stream' = [mailbox |-> stream.mailbox - 1,
                queue |-> IF streaming THEN stream.queue + 1 ELSE stream.queue]
  /\ UNCHANGED <<streaming, heapVars, testVars>>

Publish == /\ stream.mailbox + stream.queue < MaxLength
           /\ stream' = [stream EXCEPT !.mailbox = @ + 1]
           /\ UNCHANGED <<streaming, heapVars, testVars>>

(* Stop goes to the system queue and overtakes what was published.         *)
Unsubscribe == /\ streaming' = FALSE
               /\ UNCHANGED <<stream, heapVars, testVars>>

Next == \/ Push \/ ClearHeap \/ \E t \in Takers : Pop(t) \/ SpuriousWakeup(t)
        \/ \E m \in Kinds : OnMessage(m) \/ Expect(m)
        \/ Expect("silence") \/ ExpectMsgMatches \/ ExpectMsgTimesOut
        \/ ExpectNoMsg \/ Clear
        \/ StreamActorReceive \/ Publish \/ Unsubscribe

---------------------------------------------------------------------------
(* No taker sleeps on items: while one is asleep in Pop, every item is     *)
(* already on its way to a taker that was woken, however pushes, takers,   *)
(* spurious wake-ups and Clear interleave.                                 *)
NoItemSleeps ==
  (\E t \in Takers : popper[t] = "asleep")
    => heap <= Cardinality({t \in Takers : popper[t] = "awake"})
=============================================================================
