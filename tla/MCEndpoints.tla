----------------------------- MODULE MCEndpoints -----------------------------
(* Instance of Endpoints for TLC: a remote actor at an address and one whose *)
(* PID has none.                                                             *)
EXTENDS Endpoints, TLC

CONSTANTS a1, r1, r2

MCAddressOf == (r1 :> a1) @@ (r2 :> None)

ThreadSymmetry == Permutations(Threads)
=============================================================================
