---------------------------- MODULE MCThreadPool ----------------------------
(* Three workers and two clients, without symmetry: liveness is checked.    *)
EXTENDS ThreadPool
=============================================================================
