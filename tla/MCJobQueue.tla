----------------------------- MODULE MCJobQueue -----------------------------
(* Instances of JobQueue for TLC. *)
EXTENDS JobQueue, TLC

CONSTANTS j1, j2, j3

OneJob == {j1}
TwoJobs == {j1, j2}
ThreeJobs == {j1, j2, j3}

(* -1 shows the max(0, ...) of enqueue; the routes pass 0 to 8. *)
LessOrTwo == {-1, 2}
OnlyOne == {1}

=============================================================================
