----------------------------- MODULE MCJobWorker -----------------------------
(* JobWorker with small sets of jobs and workers. *)
EXTENDS JobWorker, TLC

CONSTANTS j1, j2, w1, w2

TwoJobs == {j1, j2}
TwoWorkers == {w1, w2}

\* Jobs and workers are interchangeable; used by the safety runs only.
Symmetry == Permutations(Jobs) \cup Permutations(Workers)

=============================================================================
