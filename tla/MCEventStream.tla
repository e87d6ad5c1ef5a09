---------------------------- MODULE MCEventStream ----------------------------
(* Instances of EventStream for TLC.  The filtered subscription is singled   *)
(* out, the others and the threads are interchangeable.                      *)
EXTENDS EventStream, TLC

StreamSymmetry == Permutations(Subs \ Filtered) \cup Permutations(Threads)
=============================================================================
