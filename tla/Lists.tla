------------------------------- MODULE Lists -------------------------------
(***************************************************************************)
(* The erase-remove idiom and its like: one pass over a list that copies   *)
(* the entries it keeps, in their order.                                   *)
(***************************************************************************)
EXTENDS Integers, Sequences

(* q without the entries equal to x.                                       *)
Without(q, x) ==
  LET keep[i \in 0..Len(q)] ==
        IF i = 0 THEN <<>>
        ELSE IF q[i] = x THEN keep[i - 1] ELSE Append(keep[i - 1], q[i])
  IN keep[Len(q)]
=============================================================================
