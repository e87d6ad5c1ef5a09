--------------------------- MODULE MCActorContext ---------------------------
(* Two actors, without symmetry: liveness is checked.                       *)
EXTENDS ActorContext
=============================================================================
