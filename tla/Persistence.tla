---------------------------- MODULE Persistence ----------------------------
(***************************************************************************)
(* The in-memory provider (src/src/persistence/persistence.cpp) for one    *)
(* actor name.  Each call holds mutex_ throughout, so it is one step.  The *)
(* caller counts its event indexes up, as the tests do, and may leave some *)
(* out.  The event with index i is written i + 1, an empty slot 0.         *)
(***************************************************************************)
EXTENDS Integers, Sequences, Lists

CONSTANT MaxIndex  \* bound on the indexes of a run

VARIABLES events,     \* events_ of the name
          snapshot,   \* snapshots_ of the name: its index, or -1 for none
          persisted,  \* the events persisted so far
          covered,    \* the last event that a DeleteEvents which deleted was for
          deletions   \* the calls of DeleteEvents which deleted

persistenceVars == <<events, snapshot, persisted, covered, deletions>>

(* InMemoryProvider::GetState makes an empty state on the first call.      *)
Init == /\ events = <<>>
        /\ snapshot = -1
        /\ persisted = {}
        /\ covered = 0
        /\ deletions = 0

---------------------------------------------------------------------------
(* The list grows to the index, with empty slots where it had no entry.    *)
PersistEvent(i) ==
  /\ \A e \in persisted : e <= i
  /\ events' = [j \in 1..(IF Len(events) > i THEN Len(events) ELSE i + 1) |->
                  IF j = i + 1 THEN i + 1 ELSE IF j <= Len(events) THEN events[j] ELSE 0]
  /\ persisted' = persisted \cup {i + 1}
  /\ UNCHANGED <<snapshot, covered, deletions>>

(* Mutant: the entry at the index itself is not erased.                    *)
DeleteEventsBefore(i) ==
  /\ i < Len(events)
  /\ events' = SubSeq(events, i + 1, Len(events))
  /\ covered' = IF i + 1 > covered THEN i + 1 ELSE covered
  /\ deletions' = deletions + 1
  /\ UNCHANGED <<snapshot, persisted>>

(* The first i + 1 entries go, and the rest moves to the front: from then  *)
(* on an entry is no longer at its index.  With an index past the end of   *)
(* the list the call does nothing.                                         *)
DeleteEvents(i) ==
  /\ i < Len(events)
  /\ events' = SubSeq(events, i + 2, Len(events))
  /\ covered' = IF i + 1 > covered THEN i + 1 ELSE covered
  /\ deletions' = deletions + 1
  /\ UNCHANGED <<snapshot, persisted>>

(* What the callback is given: the entries of the range that are not empty.*)
GetEvents(from, to) ==
  LET end == IF to < 0 \/ to > Len(events) THEN Len(events) ELSE to
  IN Without(SubSeq(events, from + 1, end), 0)

(* One snapshot per name: the last one persisted.                          *)
PersistSnapshot(i) ==
  /\ snapshot' = i
  /\ UNCHANGED <<events, persisted, covered, deletions>>

DeleteSnapshots(i) ==
  /\ snapshot # -1 /\ snapshot <= i
  /\ snapshot' = -1
  /\ UNCHANGED <<events, persisted, covered, deletions>>

Next == \E i \in 0..MaxIndex : \/ PersistEvent(i) \/ DeleteEvents(i)
                               \/ PersistSnapshot(i) \/ DeleteSnapshots(i)

---------------------------------------------------------------------------
(* What GetEvents still guarantees although DeleteEvents moves the entries *)
(* away from their indexes: it hands events over in the order of their     *)
(* indexes and each once, none before the index asked for and none that a  *)
(* deletion was for.  Until the first deletion it hands over exactly the   *)
(* events of the range, and until the second one a replay from 0 misses no *)
(* event that was not to be deleted.  (A second deletion can take events   *)
(* beyond its index, or find its index past the end and take none.)        *)
ReplayInOrder ==
  \A from \in 0..MaxIndex, to \in -1..MaxIndex :
    LET r == GetEvents(from, to)
        given == {r[j] : j \in 1..Len(r)}
    IN /\ \A j \in 2..Len(r) : r[j - 1] < r[j]
       /\ \A e \in given : e > from /\ e > covered /\ e \in persisted
       /\ deletions = 0 => \A e \in persisted : e > from /\ (to < 0 \/ e <= to) <=> e \in given
       /\ deletions = 1 /\ from = 0 /\ to < 0
            => \A e \in persisted : e > covered <=> e \in given
=============================================================================
