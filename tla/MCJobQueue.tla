------------------------------ MODULE MCJobQueue ------------------------------
(***************************************************************************)
(* Instances of JobQueue for TLC.                                          *)
(***************************************************************************)
EXTENDS JobQueue

CONSTANTS j1, j2, w1, w2

\* Both workers serve every job, the order is that of the names.
Shared == [w \in {w1, w2} |-> {j1, j2}]

Ranks == [j \in {j1, j2} |-> IF j = j1 THEN 0 ELSE 1]
================================================================================
