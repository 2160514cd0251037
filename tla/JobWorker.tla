------------------------------ MODULE JobWorker ------------------------------
(***************************************************************************)
(* Workers (backend/app/jobs/worker.py) draining one Redis job queue.      *)
(*                                                                         *)
(* A worker step is the code between two awaits: one command to Redis, or  *)
(* one handler run.  Between any two steps of a worker the others may      *)
(* move, producers may enqueue, the worker may lose Redis or die, and a    *)
(* stored job may be overwritten.  `snap' is the Job object the worker     *)
(* holds in a local variable: it was read from Redis in an earlier step,   *)
(* and what complete and fail write back is computed from it.              *)
(***************************************************************************)
EXTENDS RedisJobQueue, FiniteSets

CONSTANTS
    Workers,       \* JobWorker objects, each drained by its own caller
    DrainLimit,    \* max_jobs of drain
    MaxFaults,     \* bound on lost workers and lost Redis connections
    MaxOverwrites  \* bound on keys overwritten from outside

ASSUME DrainLimitAssumption == DrainLimit \in Nat \ {0}
ASSUME MaxFaultsAssumption == MaxFaults \in Nat
ASSUME MaxOverwritesAssumption == MaxOverwrites \in Nat

VARIABLES
    pc,          \* where each worker is; see Working and Stopped
    held,        \* the job id a worker moved to processing last
    snap,        \* the Job object in its local variable
    retryable,   \* the argument of the fail in progress
    quota,       \* run_once calls its drain may still make
    effects,     \* how often a job's handler committed its effect
    runs,        \* the counter job_runs_total, by outcome
    faults,      \* faults so far
    overwrites   \* overwritten keys so far

workerVars == <<pc, held, snap, retryable, quota, effects, runs, faults, overwrites>>
vars == <<pending, processing, dead, store, unreadable,
          pc, held, snap, retryable, quota, effects, runs, faults, overwrites>>

\* A drain has returned, raised JobQueueUnavailableError (or its process is
\* gone), raised JobNotFoundError.
Stopped == {"idle", "lost", "not_found"}

\* The awaits of run_once from the moment the worker has taken an id until
\* it has put it back; at the first two the job is not marked running yet.
Taking == {"get", "write"}
Running == {"dispatch", "run", "complete_get", "complete_exec",
            "fail_get", "fail_exec"}
Holding == Taking \cup Running

PC == Stopped \cup Holding \cup {"poll", "record"}

JobOutcome == {"succeeded", "retrying", "dead_lettered"}

TypeOK ==
    /\ RedisTypeOK
    /\ pc \in [Workers -> PC]
    /\ held \in [Workers -> Jobs]
    /\ snap \in [Workers -> Job \cup {Absent}]
    /\ retryable \in [Workers -> BOOLEAN]
    /\ quota \in [Workers -> 0..DrainLimit]
    /\ effects \in [Jobs -> Nat]
    /\ runs \in [JobOutcome -> Nat]
    /\ faults \in 0..MaxFaults
    /\ overwrites \in 0..MaxOverwrites

Init ==
    /\ RedisInit
    /\ pc = [w \in Workers |-> "idle"]
    /\ held \in [Workers -> Jobs]
    /\ snap = [w \in Workers |-> Absent]
    /\ retryable = [w \in Workers |-> TRUE]
    /\ quota = [w \in Workers |-> 0]
    /\ effects = [j \in Jobs |-> 0]
    /\ runs = [o \in JobOutcome |-> 0]
    /\ faults = 0
    /\ overwrites = 0

-----------------------------------------------------------------------------
(* The environment of the workers. *)

\* A producer calls enqueue.
Enqueue(j) ==
    /\ enqueue(j)
    /\ UNCHANGED workerVars

\* The owner of a stopped worker calls drain again.
StartDrain(w) ==
    /\ pc[w] \in Stopped
    /\ pc' = [pc EXCEPT ![w] = "poll"]
    /\ quota' = [quota EXCEPT ![w] = DrainLimit]
    /\ UNCHANGED <<redisVars, held, snap, retryable, effects, runs, faults, overwrites>>

\* run_once is left, and with it the scope of its local variables.
Forget(w) ==
    /\ snap' = [snap EXCEPT ![w] = Absent]
    /\ retryable' = [retryable EXCEPT ![w] = TRUE]

\* The worker's process dies, its task is cancelled, or the command it awaits
\* raises RedisError or OSError, which _RedisGuard turns into a
\* JobQueueUnavailableError that nothing below the caller of drain catches.
\* A command whose reply is lost has been executed: that is the step of the
\* command followed by this one.
Lose(w) ==
    /\ faults < MaxFaults
    /\ pc[w] \notin Stopped
    /\ pc' = [pc EXCEPT ![w] = "lost"]
    /\ faults' = faults + 1
    /\ Forget(w)
    /\ UNCHANGED <<redisVars, held, quota, effects, runs, overwrites>>

\* Something else overwrites the key of a job.
Overwrite(j) ==
    /\ overwrites < MaxOverwrites
    /\ overwrite(j)
    /\ overwrites' = overwrites + 1
    /\ UNCHANGED <<pc, held, snap, retryable, quota, effects, runs, faults>>

-----------------------------------------------------------------------------
(* run_once, await by await. *)

\* dequeue: LMOVE.  An empty queue ends the drain.
Poll(w) ==
    /\ pc[w] = "poll"
    /\ \/ /\ pending = <<>>
          /\ pc' = [pc EXCEPT ![w] = "idle"]
          /\ UNCHANGED <<redisVars, held>>
       \/ /\ lmove
          /\ held' = [held EXCEPT ![w] = Head(pending)]
          /\ pc' = [pc EXCEPT ![w] = "get"]
    /\ UNCHANGED <<snap, retryable, quota, effects, runs, faults, overwrites>>

\* The three calls of get, each before a write of the same job.
NextAfterGet ==
    [get |-> "write", complete_get |-> "complete_exec", fail_get |-> "fail_exec"]

\* get: a job that cannot be parsed raises JobNotFoundError out of run_once.
Get(w) ==
    /\ pc[w] \in DOMAIN NextAfterGet
    /\ IF readable(held[w])
       THEN /\ snap' = [snap EXCEPT ![w] = store[held[w]]]
            /\ pc' = [pc EXCEPT ![w] = NextAfterGet[@]]
            /\ UNCHANGED retryable
       ELSE /\ pc' = [pc EXCEPT ![w] = "not_found"]
            /\ Forget(w)
    /\ UNCHANGED <<redisVars, held, quota, effects, runs, faults, overwrites>>

\* dequeue: the job is marked running and handed to _dispatch.
Write(w) ==
    /\ pc[w] = "write"
    /\ write(held[w], running(snap[w]))
    /\ snap' = [snap EXCEPT ![w] = running(@)]
    /\ pc' = [pc EXCEPT ![w] = "dispatch"]
    /\ UNCHANGED <<held, retryable, quota, effects, runs, faults, overwrites>>

\* _dispatch: no handler, or a payload its schema refuses, is settled.
Dispatch(w) ==
    /\ pc[w] = "dispatch"
    /\ IF snap[w].work = "runnable"
       THEN pc' = [pc EXCEPT ![w] = "run"] /\ UNCHANGED retryable
       ELSE /\ pc' = [pc EXCEPT ![w] = "fail_get"]
            /\ retryable' = [retryable EXCEPT ![w] = FALSE]
    /\ UNCHANGED <<redisVars, held, snap, quota, effects, runs, faults, overwrites>>

\* _run: the handler returns, having committed; or it raises JobError (with
\* either flag), anything else, or runs into the timeout -- and then its
\* transaction may have been committed all the same (the failure came after
\* the commit, or the reply to the COMMIT was lost).
Run(w) ==
    /\ pc[w] = "run"
    /\ \/ /\ effects' = [effects EXCEPT ![held[w]] = @ + 1]
          /\ pc' = [pc EXCEPT ![w] = "complete_get"]
          /\ UNCHANGED retryable
       \/ /\ \E committed \in {0, 1} :
                effects' = [effects EXCEPT ![held[w]] = @ + committed]
          /\ \E again \in BOOLEAN : retryable' = [retryable EXCEPT ![w] = again]
          /\ pc' = [pc EXCEPT ![w] = "fail_get"]
    /\ UNCHANGED <<redisVars, held, snap, quota, runs, faults, overwrites>>

\* complete, the pipeline; `snap' becomes the Job it returns.
CompleteExec(w) ==
    /\ pc[w] = "complete_exec"
    /\ complete_exec(held[w], snap[w])
    /\ snap' = [snap EXCEPT ![w] = done(@)]
    /\ pc' = [pc EXCEPT ![w] = "record"]
    /\ UNCHANGED <<held, retryable, quota, effects, runs, faults, overwrites>>

\* fail, one of its pipelines; `snap' becomes the Job it returns.
FailExec(w) ==
    /\ pc[w] = "fail_exec"
    /\ fail_exec(held[w], snap[w], retryable[w])
    /\ snap' = [snap EXCEPT ![w] = store'[held[w]]]
    /\ pc' = [pc EXCEPT ![w] = "record"]
    /\ UNCHANGED <<held, retryable, quota, effects, runs, faults, overwrites>>

\* The outcome of a run is read off the job that complete or fail returned.
Outcome(job) ==
    CASE job.status = "succeeded" -> "succeeded"
      [] job.status = "failed"    -> "dead_lettered"
      [] OTHER                    -> "retrying"

\* MUTANT: drain goes on for as long as there is work.
Record_unbounded(w) ==
    /\ pc[w] = "record"
    /\ runs' = [runs EXCEPT ![Outcome(snap[w])] = @ + 1]
    /\ quota' = [quota EXCEPT ![w] = @ - 1]
    /\ pc' = [pc EXCEPT ![w] = "poll"]
    /\ Forget(w)
    /\ UNCHANGED <<redisVars, held, effects, faults, overwrites>>

\* _record, and the end of one iteration of drain.
Record(w) ==
    /\ pc[w] = "record"
    /\ runs' = [runs EXCEPT ![Outcome(snap[w])] = @ + 1]
    /\ quota' = [quota EXCEPT ![w] = @ - 1]
    /\ pc' = [pc EXCEPT ![w] = IF quota[w] = 1 THEN "idle" ELSE "poll"]
    /\ Forget(w)
    /\ UNCHANGED <<redisVars, held, effects, faults, overwrites>>

Step(w) ==
    \/ Poll(w)
    \/ Get(w)
    \/ Write(w)
    \/ Dispatch(w)
    \/ Run(w)
    \/ CompleteExec(w)
    \/ FailExec(w)
    \/ Record(w)

Next ==
    \/ \E j \in Jobs : Enqueue(j) \/ Overwrite(j)
    \/ \E w \in Workers : StartDrain(w) \/ Lose(w) \/ Step(w)

Spec == Init /\ [][Next]_vars

\* A live worker's await returns, and the owner of a stopped worker drains
\* again.  Nothing obliges a producer to enqueue or a fault to happen.
Fairness == \A w \in Workers : WF_vars(Step(w)) /\ WF_vars(StartDrain(w))

FairSpec == Spec /\ Fairness

-----------------------------------------------------------------------------
(* Properties. *)

\* How often the list s holds j.
Occurrences(s, j) == Cardinality({i \in DOMAIN s : s[i] = j})

Stored(j) == store[j] # Absent

\* A job that is not settled is in exactly one of the pending list and the
\* processing list, exactly once, wherever workers died and whatever was
\* interleaved; a settled job is in neither.  (redis_queue.py:18-24: "the id
\* is still there to reclaim".)
NoJobLost ==
    \A j \in Jobs :
        Occurrences(pending, j) + processing[j]
            = IF Stored(j) /\ ~terminal(store[j]) THEN 1 ELSE 0

\* No two workers hold the same job between the LMOVE and the pipeline that
\* puts it back, and what a holder read is still what is stored when it
\* writes: no update is lost between get and the pipeline.
SingleCustody ==
    \A w \in Workers :
        pc[w] \in Holding =>
            /\ \A v \in Workers \ {w} : pc[v] \in Holding => held[v] # held[w]
            /\ pc[w] \in Running \cup {"write"} => snap[w] = store[held[w]]

\* The attempt budget of dequeue and fail together: never more than
\* max_attempts attempts, a job waiting in the queue has one left, and the
\* handler commits its effect at most once per attempt.
AttemptBudget ==
    \A j \in Jobs :
        /\ store[j].attempts <= store[j].max_attempts
        /\ store[j].status = "pending" =>
               store[j].attempts < store[j].max_attempts
        /\ effects[j] <= store[j].attempts

\* The dead list holds the failed jobs, each once.
DeadLetterListIsExact ==
    \A j \in Jobs :
        Occurrences(dead, j) = IF store[j].status = "failed" THEN 1 ELSE 0

\* A job whose handler is not registered or whose payload does not fit is
\* dead-lettered by its first attempt and never has an effect.
UnrunnableNeverRetried ==
    \A j \in Jobs :
        store[j].work # "runnable" =>
            /\ store[j].status # "succeeded"
            /\ store[j].attempts <= 1
            /\ effects[j] = 0

\* A job recorded as succeeded did take effect.
SucceededTookEffect ==
    \A j \in Jobs : store[j].status = "succeeded" => effects[j] >= 1

\* The counters a worker reports never run ahead of the queue.
CountersNeverAhead ==
    /\ runs["succeeded"] <= Cardinality({j \in Jobs : store[j].status = "succeeded"})
    /\ runs["dead_lettered"] <= Len(dead)

\* Wherever workers die, lose Redis or are interleaved: an unsettled job is in
\* exactly one list exactly once, one worker at most works on it with what is
\* really stored, and a failed job is listed once among the dead.
EveryJobHasItsPlace == NoJobLost /\ SingleCustody /\ DeadLetterListIsExact

\* What attempts, effects and counters say about a job agrees: the budget is
\* kept, what can never run is tried once and has no effect, a success had its
\* effect, and no counter is ahead of the queue.
AttemptsAreAccounted ==
    /\ AttemptBudget
    /\ UnrunnableNeverRetried
    /\ SucceededTookEffect
    /\ CountersNeverAhead

\* A job waiting in the queue is never overtaken: as long as it waits, the
\* jobs in front of it only become fewer (redis_queue.py:167 "a job that just
\* failed must not starve the work already waiting behind it").
NeverOvertaken ==
    [][\A i \in DOMAIN pending :
           \A k \in DOMAIN pending' : pending'[k] = pending[i] => k <= i]_vars

\* The queue, seen through `get', is the job queue of the protocol.
JQ == INSTANCE JobQueue WITH jobs <- store
ImplementsJobQueue == JQ!QSpec

\* In the processing list and in no worker's hands: what a fault leaves.
Stranded(j) ==
    /\ processing[j] > 0
    /\ \A w \in Workers : pc[w] \in Holding => held[w] # j

\* Every job that was accepted is settled in the end, unless a fault or an
\* overwritten key stranded it.
SettledOrStranded ==
    \A j \in Jobs : Stored(j) ~> (terminal(store[j]) \/ Stranded(j))

=============================================================================
