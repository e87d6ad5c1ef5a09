----------------------------- MODULE MCMailbox -----------------------------
(* Instances of Mailbox for TLC.                                            *)
EXTENDS Mailbox, TLC

(* The threads of each role are interchangeable.                            *)
ThreadSymmetry == Permutations(Producers) \cup Permutations(Workers)
=============================================================================
