------------------------------- MODULE MCDesk -------------------------------
(* Instances of Desk for TLC. *)
EXTENDS Desk

CONSTANTS q1, q2, w1, r1, r2

MCRequest == {q1, q2}
MCWorker == {w1}
MCTask == MCRequest \cup MCWorker
MCMaker == MCRequest \cup Jobs
MCOwner == Subject \cup {NoOwner}
MCReviewer == {r1, r2}

\* Two requests; a request and the worker; the reviewers.
MCShifts == {{q1, q2}, {q1, w1}, {r1, r2}}

=============================================================================
