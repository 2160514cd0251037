---------------------------- MODULE RedisJobQueue ----------------------------
(***************************************************************************)
(* The keys of backend/app/jobs/redis_queue.py and the commands the class  *)
(* RedisJobQueue sends to the server.  The server executes a command, or a *)
(* MULTI/EXEC pipeline, atomically; what is not atomic is a method of the  *)
(* class, which sends several of them.  The methods are therefore split at *)
(* their awaits, and JobWorker puts the pieces in the order of the code.   *)
(***************************************************************************)
EXTENDS Job, Sequences

CONSTANTS
    Jobs,        \* job ids (uuid4 hex: never generated twice)
    MaxAttempts  \* bound on the max_attempts a caller asks for

ASSUME MaxAttemptsAssumption == MaxAttempts \in Nat

VARIABLES
    pending,     \* {ns}:pending     list of ids waiting to be taken
    processing,  \* {ns}:processing  how often the list holds each id; its
                 \*                  order is never read
    dead,        \* {ns}:dead        list of dead-lettered ids
    store,       \* {ns}:job:{id}    the job last written by this class
    unreadable   \* ids whose key something else has overwritten since

redisVars == <<pending, processing, dead, store, unreadable>>

RedisTypeOK ==
    /\ pending \in Seq(Jobs)
    /\ processing \in [Jobs -> Nat]
    /\ dead \in Seq(Jobs)
    /\ store \in [Jobs -> Job \cup {Absent}]
    /\ unreadable \in SUBSET Jobs

RedisInit ==
    /\ pending = <<>>
    /\ processing = [j \in Jobs |-> 0]
    /\ dead = <<>>
    /\ store = [j \in Jobs |-> Absent]
    /\ unreadable = {}

-----------------------------------------------------------------------------
(* Commands. *)

\* SET {ns}:job:{j}
SET(j, job) ==
    /\ store' = [store EXCEPT ![j] = job]
    /\ unreadable' = unreadable \ {j}

\* LREM {ns}:processing 1 j
LREM(j) ==
    processing' = [processing EXCEPT ![j] = IF @ = 0 THEN 0 ELSE @ - 1]

\* enqueue: build_job, then one pipeline.
enqueue(j) ==
    /\ store[j] = Absent
    /\ \E work \in Work, max_attempts \in 0..MaxAttempts :
          /\ acceptable(max_attempts)
          /\ SET(j, build_job(work, max_attempts))
    /\ pending' = Append(pending, j)
    /\ UNCHANGED <<processing, dead>>

\* MUTANT: the id is read and pushed to processing, but not taken atomically.
lmove_copying ==
    /\ pending # <<>>
    /\ processing' = [processing EXCEPT ![Head(pending)] = @ + 1]
    /\ UNCHANGED <<pending, dead, store, unreadable>>

\* dequeue, first round trip: LMOVE pending processing LEFT RIGHT.
lmove ==
    /\ pending # <<>>
    /\ pending' = Tail(pending)
    /\ processing' = [processing EXCEPT ![Head(pending)] = @ + 1]
    /\ UNCHANGED <<dead, store, unreadable>>

\* get: what _parse can make of the stored bytes.
readable(j) == store[j] # Absent /\ j \notin unreadable

\* _write, the last round trip of dequeue.
write(j, job) ==
    /\ SET(j, job)
    /\ UNCHANGED <<pending, processing, dead>>

\* MUTANT: the reason of an earlier failed attempt stays on the job.
complete_exec_keeping_error(j, stored) ==
    /\ SET(j, [stored EXCEPT !.status = "succeeded"])
    /\ LREM(j)
    /\ UNCHANGED <<pending, dead>>

\* complete, after its get: the pipeline.
complete_exec(j, stored) ==
    /\ SET(j, done(stored))
    /\ LREM(j)
    /\ UNCHANGED <<pending, dead>>

\* fail, after its get, when the job is settled: the pipeline.
dead_exec(j, stored) ==
    /\ SET(j, dead_letter(stored))
    /\ LREM(j)
    /\ dead' = Append(dead, j)
    /\ UNCHANGED pending

\* MUTANT: a retry is pushed to the front of the queue.
retry_exec_in_front(j, stored) ==
    /\ SET(j, retry(stored))
    /\ LREM(j)
    /\ pending' = <<j>> \o pending
    /\ UNCHANGED dead

\* MUTANT: the job is marked pending but its id is not pushed back.
retry_exec_unqueued(j, stored) ==
    /\ SET(j, retry(stored))
    /\ LREM(j)
    /\ UNCHANGED <<pending, dead>>

\* fail, after its get, when attempts remain: the pipeline.
retry_exec(j, stored) ==
    /\ SET(j, retry(stored))
    /\ LREM(j)
    /\ pending' = Append(pending, j)
    /\ UNCHANGED dead

\* fail, after its get.
fail_exec(j, stored, retryable) ==
    IF exhausted(stored) \/ ~retryable
    THEN dead_exec(j, stored)
    ELSE retry_exec(j, stored)

\* Something else writes to a key of ours (the case _parse is written for).
overwrite(j) ==
    /\ readable(j)
    /\ unreadable' = unreadable \cup {j}
    /\ UNCHANGED <<pending, processing, dead, store>>

=============================================================================
