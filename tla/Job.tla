-------------------------------- MODULE Job --------------------------------
(***************************************************************************)
(* The value a job queue stores: backend/app/jobs/base.py.                 *)
(*                                                                         *)
(* A Job is frozen; every change is a copy with some fields replaced       *)
(* (model_copy).  The name and the payload of a job are never changed, and *)
(* the worker only asks of them whether a handler is registered under the  *)
(* name and whether the payload fits the handler's schema, so both are     *)
(* abstracted to `work'.  The text of `error' is abstracted to whether     *)
(* there is one.                                                           *)
(***************************************************************************)
EXTENDS Integers

\* The life cycle states of a job.
JobStatus == {"pending", "running", "succeeded", "failed"}

\* What JobWorker._dispatch finds out about the name and the payload.
Work == {"runnable", "unregistered", "malformed"}

Job == [status : JobStatus,
        attempts : Nat,
        max_attempts : Nat \ {0},
        work : Work,
        error : BOOLEAN]

\* The value under a key that was never written.
Absent == [status |-> "absent",
           attempts |-> 0,
           max_attempts |-> 1,
           work |-> "runnable",
           error |-> FALSE]

\* MUTANT: the budget is compared with > instead of >=.
exhausted_late(job) == job.attempts > job.max_attempts

exhausted(job) == job.attempts >= job.max_attempts

terminal(job) == job.status \in {"succeeded", "failed"}

\* A new job: the caller's input is refused when max_attempts < 1.
acceptable(max_attempts) == max_attempts >= 1

build_job(work, max_attempts) ==
    [status |-> "pending",
     attempts |-> 0,
     max_attempts |-> max_attempts,
     work |-> work,
     error |-> FALSE]

-----------------------------------------------------------------------------
(* The four model_copy calls of a queue backend. *)

running(stored) ==
    [stored EXCEPT !.status = "running", !.attempts = @ + 1]

done(stored) ==
    [stored EXCEPT !.status = "succeeded", !.error = FALSE]

dead_letter(stored) ==
    [stored EXCEPT !.status = "failed", !.error = TRUE]

retry(stored) ==
    [stored EXCEPT !.status = "pending", !.error = TRUE]

=============================================================================
