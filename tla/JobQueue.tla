------------------------------ MODULE JobQueue ------------------------------
(***************************************************************************)
(* What a job queue promises: the JobQueue protocol of                     *)
(* backend/app/jobs/base.py, as a caller sees it through `get'.            *)
(*                                                                         *)
(* Every method is one atomic step on one job.  The backends do less than  *)
(* that (RedisJobQueue reads a job, computes, and writes it back in        *)
(* separate round trips), so that a backend implements this specification  *)
(* is a claim about interleavings.                                         *)
(***************************************************************************)
EXTENDS Job

CONSTANTS
    Jobs,        \* the job ids that may be generated
    MaxAttempts  \* bound on the max_attempts a caller asks for

VARIABLE jobs    \* what get(id) returns for every id

QInit == jobs = [j \in Jobs |-> Absent]

\* Add work to the back of the queue and return the stored job.
QEnqueue(j) ==
    /\ jobs[j] = Absent
    /\ \E work \in Work, max_attempts \in 0..MaxAttempts :
          /\ acceptable(max_attempts)
          /\ jobs' = [jobs EXCEPT ![j] = build_job(work, max_attempts)]

\* Take a job, marking it running and counting the attempt.
QDequeue(j) ==
    /\ jobs[j].status = "pending"
    /\ ~ exhausted(jobs[j])
    /\ jobs' = [jobs EXCEPT ![j] = running(@)]

\* Record that a job finished successfully.
QComplete(j) ==
    /\ jobs[j].status = "running"
    /\ jobs[j].work = "runnable"
    /\ jobs' = [jobs EXCEPT ![j] = done(@)]

\* Re-queues the job when attempts remain and the failure may be retried.
QRetry(j) ==
    /\ jobs[j].status = "running"
    /\ jobs[j].work = "runnable"
    /\ ~ exhausted(jobs[j])
    /\ jobs' = [jobs EXCEPT ![j] = retry(@)]

\* Dead-letters a job: its attempts are spent, or the failure is settled.
QDeadLetter(j) ==
    /\ jobs[j].status = "running"
    /\ jobs' = [jobs EXCEPT ![j] = dead_letter(@)]

QNext ==
    \E j \in Jobs : \/ QEnqueue(j)
                    \/ QDequeue(j)
                    \/ QComplete(j)
                    \/ QRetry(j)
                    \/ QDeadLetter(j)

QSpec == QInit /\ [][QNext]_jobs

=============================================================================
