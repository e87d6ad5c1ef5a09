------------------------------ MODULE TaskPool ------------------------------
(***************************************************************************)
(* The thread pool as its users see it (Mailbox models its dispatcher this *)
(* way): tasks wait, each is started once, and after a stop no task is     *)
(* accepted; a stop keeps the waiting tasks or discards all of them.       *)
(***************************************************************************)
EXTENDS Naturals

VARIABLES tasks,  \* how many tasks wait
          open    \* the pool accepts tasks

vars == <<tasks, open>>

Init == tasks = 0 /\ open = TRUE

Submit == open /\ tasks' = tasks + 1 /\ open' = open

Start == tasks > 0 /\ tasks' = tasks - 1 /\ open' = open

Stop == open /\ open' = FALSE /\ tasks' \in {0, tasks}

Next == Submit \/ Start \/ Stop

Spec == Init /\ [][Next]_vars

=============================================================================
