--------------------------- MODULE MemoryJobQueue ---------------------------
(***************************************************************************)
(* InMemoryJobQueue: backend/app/jobs/memory.py, the default queue.        *)
(*                                                                         *)
(* No method awaits anything, so each one is a single step.  The queue     *)
(* lives and dies with the process that holds it.                          *)
(***************************************************************************)
EXTENDS Job, Sequences

CONSTANTS
    Jobs,        \* the job ids that may be generated
    MaxAttempts  \* bound on the max_attempts a caller asks for

ASSUME MaxAttemptsAssumption == MaxAttempts \in Nat

VARIABLES
    pending,  \* _pending, a deque of ids
    jobs,     \* _jobs, by id
    dead      \* _dead, a list of ids

queueVars == <<pending, jobs, dead>>

QueueTypeOK ==
    /\ pending \in Seq(Jobs)
    /\ jobs \in [Jobs -> Job \cup {Absent}]
    /\ dead \in Seq(Jobs)

\* A new process starts with an empty queue.
EmptyQueue ==
    /\ pending = <<>>
    /\ jobs = [j \in Jobs |-> Absent]
    /\ dead = <<>>

\* The process is replaced by another.
EmptiedQueue ==
    /\ pending' = <<>>
    /\ jobs' = [j \in Jobs |-> Absent]
    /\ dead' = <<>>

\* Whether the process has made a job with this id.
known(j) == jobs[j] # Absent

enqueue(j, max_attempts) ==
    /\ ~ known(j)
    /\ acceptable(max_attempts)
    /\ jobs' = [jobs EXCEPT ![j] = build_job("runnable", max_attempts)]
    /\ pending' = Append(pending, j)
    /\ UNCHANGED dead

\* dequeue on a queue that is not empty; j is the job it returns.
dequeue(j) ==
    /\ pending # <<>>
    /\ j = Head(pending)
    /\ jobs' = [jobs EXCEPT ![j] = running(@)]
    /\ pending' = Tail(pending)
    /\ UNCHANGED dead

complete(j) ==
    /\ jobs' = [jobs EXCEPT ![j] = done(@)]
    /\ UNCHANGED <<pending, dead>>

\* Back of the queue, or the dead-letter list.
fail(j, retryable) ==
    IF exhausted(jobs[j]) \/ ~ retryable
    THEN /\ jobs' = [jobs EXCEPT ![j] = dead_letter(@)]
         /\ dead' = Append(dead, j)
         /\ UNCHANGED pending
    ELSE /\ jobs' = [jobs EXCEPT ![j] = retry(@)]
         /\ pending' = Append(pending, j)
         /\ UNCHANGED dead

=============================================================================
