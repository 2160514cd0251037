--------------------------- MODULE JobWorkerProofs ---------------------------
(***************************************************************************)
(* Proofs about JobWorker, for any sets of jobs and workers and any        *)
(* bounds: type correctness, the custody invariants, the attempt budget    *)
(* and the implementation of the JobQueue protocol.                        *)
(***************************************************************************)
EXTENDS JobWorker, FiniteSetTheorems, TLAPS

-----------------------------------------------------------------------------
(* The operators of Job. *)

\* A record that is not the never-written one is a job, and conversely.
LEMMA StoredIsJob ==
    ASSUME NEW s \in Job \cup {Absent}
    PROVE  /\ s \in Job <=> s # Absent
           /\ s \in Job <=> s.status # "absent"
BY DEF Job, JobStatus, Absent

\* build_job makes a pending job with no attempt spent.
LEMMA BuildJob ==
    ASSUME NEW work \in Work, NEW m \in Nat, acceptable(m)
    PROVE  /\ build_job(work, m) \in Job
           /\ build_job(work, m).status = "pending"
           /\ build_job(work, m).attempts = 0
           /\ build_job(work, m).max_attempts = m
           /\ build_job(work, m).max_attempts >= 1
           /\ build_job(work, m).work = work
BY DEF build_job, acceptable, Job, JobStatus, Work

\* What each model_copy changes and what it keeps.
LEMMA RunningCopy ==
    ASSUME NEW s \in Job
    PROVE  /\ running(s) \in Job
           /\ running(s).status = "running"
           /\ running(s).attempts = s.attempts + 1
           /\ running(s).max_attempts = s.max_attempts
           /\ running(s).work = s.work
<1> DEFINE n == s.attempts + 1
<1>1. n \in Nat
  BY DEF Job
<1>2. running(s) = [s EXCEPT !.status = "running", !.attempts = n]
  BY DEF running
<1> HIDE DEF n
<1>3. /\ running(s) \in Job
      /\ running(s).status = "running"
      /\ running(s).attempts = n
      /\ running(s).max_attempts = s.max_attempts
      /\ running(s).work = s.work
  BY <1>1, <1>2 DEF Job, JobStatus
<1> QED BY <1>3 DEF n

LEMMA DoneCopy ==
    ASSUME NEW s \in Job
    PROVE  /\ done(s) \in Job
           /\ done(s).status = "succeeded"
           /\ done(s).attempts = s.attempts
           /\ done(s).max_attempts = s.max_attempts
           /\ done(s).work = s.work
BY DEF done, Job, JobStatus

LEMMA DeadLetterCopy ==
    ASSUME NEW s \in Job
    PROVE  /\ dead_letter(s) \in Job
           /\ dead_letter(s).status = "failed"
           /\ dead_letter(s).attempts = s.attempts
           /\ dead_letter(s).max_attempts = s.max_attempts
           /\ dead_letter(s).work = s.work
BY DEF dead_letter, Job, JobStatus

LEMMA RetryCopy ==
    ASSUME NEW s \in Job
    PROVE  /\ retry(s) \in Job
           /\ retry(s).status = "pending"
           /\ retry(s).attempts = s.attempts
           /\ retry(s).max_attempts = s.max_attempts
           /\ retry(s).work = s.work
BY DEF retry, Job, JobStatus

LEMMA JobFields ==
    ASSUME NEW s \in Job
    PROVE  /\ s.status \in JobStatus
           /\ s.attempts \in Nat
           /\ s.max_attempts \in Nat \ {0}
           /\ s.work \in Work
BY DEF Job

-----------------------------------------------------------------------------
(* Lists without repetition. *)

In(s, j) == \E i \in 1..Len(s) : s[i] = j

Distinct(s) == \A i, k \in 1..Len(s) : s[i] = s[k] => i = k

LEMMA AppendList ==
    ASSUME NEW S, NEW s \in Seq(S), NEW x \in S
    PROVE  /\ Append(s, x) \in Seq(S)
           /\ \A j : In(Append(s, x), j) <=> (In(s, j) \/ j = x)
           /\ Distinct(s) /\ ~In(s, x) => Distinct(Append(s, x))
<1>1. /\ Append(s, x) \in Seq(S)
      /\ Len(Append(s, x)) = Len(s) + 1
      /\ Len(s) \in Nat
      /\ \A i \in 1..Len(s) : Append(s, x)[i] = s[i]
      /\ Append(s, x)[Len(s) + 1] = x
  OBVIOUS
<1>2. ASSUME NEW j PROVE In(Append(s, x), j) <=> (In(s, j) \/ j = x)
  BY <1>1 DEF In
<1>3. Distinct(s) /\ ~In(s, x) => Distinct(Append(s, x))
  BY <1>1 DEF In, Distinct
<1> QED BY <1>1, <1>2, <1>3

LEMMA TailList ==
    ASSUME NEW S, NEW s \in Seq(S), s # <<>>
    PROVE  /\ Head(s) \in S
           /\ Tail(s) \in Seq(S)
           /\ In(s, Head(s))
           /\ \A j : In(Tail(s), j) => In(s, j)
           /\ \A j : In(s, j) => (In(Tail(s), j) \/ j = Head(s))
           /\ Distinct(s) => Distinct(Tail(s)) /\ ~In(Tail(s), Head(s))
<1>1. /\ Head(s) \in S /\ Tail(s) \in Seq(S)
      /\ Head(s) = s[1]
      /\ Len(s) \in Nat /\ Len(s) >= 1
      /\ Len(Tail(s)) = Len(s) - 1
      /\ \A i \in 1..(Len(s) - 1) : Tail(s)[i] = s[i + 1]
  OBVIOUS
<1>2. In(s, Head(s))
  BY <1>1 DEF In
<1>3. ASSUME NEW j, In(Tail(s), j) PROVE In(s, j)
  <2>1. PICK i \in 1..Len(Tail(s)) : Tail(s)[i] = j
    BY <1>3 DEF In
  <2>2. i + 1 \in 1..Len(s) /\ s[i + 1] = j
    BY <2>1, <1>1
  <2> QED BY <2>2 DEF In
<1>4. ASSUME NEW j, In(s, j), j # Head(s) PROVE In(Tail(s), j)
  <2>1. PICK i \in 1..Len(s) : s[i] = j
    BY <1>4 DEF In
  <2>2. i # 1
    BY <2>1, <1>4, <1>1
  <2>3. i - 1 \in 1..Len(Tail(s)) /\ Tail(s)[i - 1] = j
    BY <2>1, <2>2, <1>1
  <2> QED BY <2>3 DEF In
<1>5. ASSUME Distinct(s) PROVE Distinct(Tail(s)) /\ ~In(Tail(s), Head(s))
  BY <1>1, <1>5 DEF Distinct, In
<1> QED BY <1>1, <1>2, <1>3, <1>4, <1>5

\* Occurrences in a list without repetition.
LEMMA OccurrencesOfDistinct ==
    ASSUME NEW S, NEW s \in Seq(S), Distinct(s), NEW j
    PROVE  Occurrences(s, j) = IF In(s, j) THEN 1 ELSE 0
<1>1. DOMAIN s = 1..Len(s)
  OBVIOUS
<1>2. CASE In(s, j)
  <2>1. PICK i \in 1..Len(s) : s[i] = j
    BY <1>2 DEF In
  <2>2. {k \in DOMAIN s : s[k] = j} = {i}
    BY <2>1, <1>1 DEF Distinct
  <2> QED BY <2>2, <1>2, FS_Singleton DEF Occurrences
<1>3. CASE ~In(s, j)
  <2>1. {k \in DOMAIN s : s[k] = j} = {}
    BY <1>3, <1>1 DEF In
  <2> QED BY <2>1, <1>3, FS_EmptySet DEF Occurrences
<1> QED BY <1>2, <1>3

-----------------------------------------------------------------------------
(* Type correctness.  TypeOK is not inductive: what a worker writes back is *)
(* computed from the job it read, so that job must be one.                  *)

TypeInv ==
    /\ TypeOK
    /\ \A w \in Workers :
          /\ pc[w] \in Running \cup {"write"} => snap[w] \in Job
          /\ pc[w] \notin Stopped => quota[w] >= 1

\* Where a get returns to.
LEMMA AfterGet ==
    /\ DOMAIN NextAfterGet = {"get", "complete_get", "fail_get"}
    /\ NextAfterGet["get"] = "write"
    /\ NextAfterGet["complete_get"] = "complete_exec"
    /\ NextAfterGet["fail_get"] = "fail_exec"
BY DEF NextAfterGet

LEMMA TypeInvInit == Init => TypeInv
<1> SUFFICES ASSUME Init PROVE TypeInv
  OBVIOUS
<1>1. RedisTypeOK
  BY DEF Init, RedisInit, RedisTypeOK
<1>2. \A w \in Workers : pc[w] = "idle"
  BY DEF Init
<1>3. TypeOK
  BY <1>1, MaxFaultsAssumption, MaxOverwritesAssumption, DrainLimitAssumption
  DEF Init, TypeOK, PC, Stopped, JobOutcome
<1> QED
  BY <1>2, <1>3 DEF TypeInv, Stopped, Running

LEMMA TypeInvNext == TypeInv /\ [Next]_vars => TypeInv'
<1> SUFFICES ASSUME TypeInv, [Next]_vars PROVE TypeInv'
  OBVIOUS
<1> USE MaxFaultsAssumption, MaxOverwritesAssumption, DrainLimitAssumption,
        MaxAttemptsAssumption
<1>0. TypeOK /\ RedisTypeOK
  BY DEF TypeInv, TypeOK
<1>1. ASSUME NEW j \in Jobs, Enqueue(j) PROVE TypeInv'
  <2>1. PICK work \in Work, m \in 0..MaxAttempts :
            acceptable(m) /\ SET(j, build_job(work, m))
    BY <1>1 DEF Enqueue, enqueue
  <2>2. build_job(work, m) \in Job
    BY <2>1, BuildJob
  <2>3. RedisTypeOK'
    BY <1>0, <1>1, <2>1, <2>2, AppendList
    DEF Enqueue, enqueue, SET, RedisTypeOK
  <2> QED
    BY <1>1, <2>3 DEF Enqueue, workerVars, TypeInv, TypeOK
<1>2. ASSUME NEW j \in Jobs, Overwrite(j) PROVE TypeInv'
  BY <1>2 DEF Overwrite, overwrite, TypeInv, TypeOK, RedisTypeOK
<1>3. ASSUME NEW w \in Workers, StartDrain(w) PROVE TypeInv'
  BY <1>3 DEF StartDrain, redisVars, TypeInv, TypeOK, RedisTypeOK, PC, Stopped,
              Running
<1>4. ASSUME NEW w \in Workers, Lose(w) PROVE TypeInv'
  BY <1>4 DEF Lose, Forget, redisVars, TypeInv, TypeOK, RedisTypeOK, PC, Stopped,
              Running
<1>5. ASSUME NEW w \in Workers, Poll(w) PROVE TypeInv'
  <2>1. CASE pending = <<>> /\ UNCHANGED <<redisVars, held>>
    BY <1>5, <2>1 DEF Poll, lmove, redisVars, TypeInv, TypeOK, RedisTypeOK, PC, Stopped,
                Running
  <2>2. CASE lmove /\ held' = [held EXCEPT ![w] = Head(pending)]
    <3>1. RedisTypeOK' /\ Head(pending) \in Jobs
      BY <1>0, <2>2, TailList DEF lmove, RedisTypeOK
    <3> QED
      BY <1>5, <2>2, <3>1
      DEF Poll, lmove, TypeInv, TypeOK, PC, Stopped, Running, Holding, Taking
  <2> QED BY <1>5, <2>1, <2>2 DEF Poll
<1>6. ASSUME NEW w \in Workers, Get(w) PROVE TypeInv'
  <2>1. CASE readable(held[w])
    <3>1. store[held[w]] \in Job
      BY <1>0, <2>1 DEF readable, TypeOK, RedisTypeOK
    <3>2. PICK p \in {"write", "complete_exec", "fail_exec"} :
              pc' = [pc EXCEPT ![w] = p]
      BY <1>0, <1>6, <2>1, AfterGet DEF Get, TypeOK
    <3>3. pc[w] \notin Stopped
      BY <1>6, AfterGet DEF Get, Stopped
    <3> QED
      BY <1>6, <2>1, <3>1, <3>2, <3>3
      DEF Get, redisVars, TypeInv, TypeOK, RedisTypeOK, PC, Stopped,
          Running, Holding, Taking
  <2>2. CASE ~readable(held[w])
    BY <1>6, <2>2
    DEF Get, Forget, NextAfterGet, redisVars, TypeInv, TypeOK, RedisTypeOK, PC, Stopped,
        Running
  <2> QED BY <2>1, <2>2
<1>7. ASSUME NEW w \in Workers, Write(w) PROVE TypeInv'
  <2>1. running(snap[w]) \in Job
    BY <1>7, RunningCopy DEF Write, TypeInv
  <2>2. RedisTypeOK'
    BY <1>0, <1>7, <2>1 DEF Write, write, SET, TypeOK, RedisTypeOK
  <2> QED
    BY <1>7, <2>1, <2>2
    DEF Write, TypeInv, TypeOK, PC, Stopped, Running, Holding
<1>8. ASSUME NEW w \in Workers, Dispatch(w) PROVE TypeInv'
  BY <1>8 DEF Dispatch, redisVars, TypeInv, TypeOK, RedisTypeOK, PC, Stopped, Running, Holding
<1>9. ASSUME NEW w \in Workers, Run(w) PROVE TypeInv'
  <2>1. retryable' \in [Workers -> BOOLEAN]
    BY <1>0, <1>9 DEF Run, TypeOK
  <2>2. effects' \in [Jobs -> Nat]
    BY <1>0, <1>9 DEF Run, TypeOK
  <2>3. PICK p \in {"complete_get", "fail_get"} : pc' = [pc EXCEPT ![w] = p]
    BY <1>9 DEF Run
  <2> QED
    BY <1>0, <1>9, <2>1, <2>2, <2>3
    DEF Run, redisVars, TypeInv, TypeOK, RedisTypeOK, PC, Stopped, Running, Holding
<1>10. ASSUME NEW w \in Workers, CompleteExec(w) PROVE TypeInv'
  <2>1. done(snap[w]) \in Job
    BY <1>10, DoneCopy DEF CompleteExec, TypeInv, Running
  <2>2. RedisTypeOK'
    BY <1>0, <1>10, <2>1
    DEF CompleteExec, complete_exec, SET, LREM, TypeOK, RedisTypeOK
  <2> QED
    BY <1>10, <2>1, <2>2
    DEF CompleteExec, TypeInv, TypeOK, PC, Stopped, Running, Holding
<1>11. ASSUME NEW w \in Workers, FailExec(w) PROVE TypeInv'
  <2>1. dead_letter(snap[w]) \in Job /\ retry(snap[w]) \in Job
    BY <1>11, DeadLetterCopy, RetryCopy DEF FailExec, TypeInv, Running
  <2>2. RedisTypeOK'
    <3>1. CASE dead_exec(held[w], snap[w])
      BY <1>0, <2>1, <3>1, AppendList
      DEF dead_exec, SET, LREM, TypeOK, RedisTypeOK
    <3>2. CASE retry_exec(held[w], snap[w])
      BY <1>0, <2>1, <3>2, AppendList
      DEF retry_exec, SET, LREM, TypeOK, RedisTypeOK
    <3> QED BY <1>11, <3>1, <3>2 DEF FailExec, fail_exec
  <2>3. store'[held[w]] \in Job \cup {Absent}
    BY <1>0, <2>2 DEF RedisTypeOK, TypeOK
  <2> QED
    BY <1>11, <2>2, <2>3
    DEF FailExec, TypeInv, TypeOK, PC, Stopped, Running, Holding
<1>12. ASSUME NEW w \in Workers, Record(w) PROVE TypeInv'
  <2>1. Outcome(snap[w]) \in JobOutcome
    BY DEF Outcome, JobOutcome
  <2>2. retryable' \in [Workers -> BOOLEAN]
    BY <1>0, <1>12 DEF Record, Forget, TypeOK
  <2>3. runs' \in [JobOutcome -> Nat]
    BY <1>0, <1>12, <2>1 DEF Record, TypeOK
  <2>4. /\ quota[w] \in 1..DrainLimit
        /\ quota' = [quota EXCEPT ![w] = quota[w] - 1]
        /\ quota' \in [Workers -> 0..DrainLimit]
    BY <1>0, <1>12 DEF Record, TypeInv, TypeOK, Stopped
  <2>5. pc' = [pc EXCEPT ![w] = IF quota[w] = 1 THEN "idle" ELSE "poll"]
    BY <1>12 DEF Record
  <2>6. \A v \in Workers : pc'[v] \notin Stopped => quota'[v] >= 1
    BY <1>0, <2>4, <2>5 DEF TypeInv, TypeOK, Stopped
  <2> QED
    BY <1>0, <1>12, <2>2, <2>3, <2>4, <2>5, <2>6
    DEF Record, Forget, redisVars, TypeInv, TypeOK, RedisTypeOK, PC, Stopped, Running
<1>13. CASE UNCHANGED vars
  BY <1>13 DEF vars, TypeInv, TypeOK, RedisTypeOK
<1> QED
  BY <1>1, <1>2, <1>3, <1>4, <1>5, <1>6, <1>7, <1>8, <1>9, <1>10, <1>11, <1>12,
     <1>13 DEF Next, Step

\* Every variable keeps its type, whatever is interleaved.
THEOREM TypeCorrect == Spec => []TypeOK
<1>1. TypeInv => TypeOK
  BY DEF TypeInv
<1> QED BY <1>1, TypeInvInit, TypeInvNext, PTL DEF Spec

-----------------------------------------------------------------------------
(* Custody: the lists, the stored statuses and the workers agree.           *)

\* The lists against the stored statuses.
ListInv ==
    /\ Distinct(pending)
    /\ Distinct(dead)
    /\ \A j \in Jobs :
          /\ processing[j] \in {0, 1}
          /\ In(pending, j) => store[j].status = "pending" /\ processing[j] = 0
          /\ processing[j] = 1 => store[j].status \in {"pending", "running"}
          /\ store[j].status \in {"pending", "running"} =>
                In(pending, j) \/ processing[j] = 1
          /\ In(dead, j) <=> store[j].status = "failed"

\* The workers against the lists and the stored jobs.
HolderInv ==
    \A w \in Workers :
        pc[w] \in Holding =>
            /\ processing[held[w]] = 1
            /\ \A v \in Workers \ {w} : pc[v] \in Holding => held[v] # held[w]
            /\ pc[w] \in Taking => store[held[w]].status = "pending"
            /\ pc[w] \in Running => store[held[w]].status = "running"
            /\ pc[w] \in Running \cup {"write"} => snap[w] = store[held[w]]

CustodyInv == TypeInv /\ ListInv /\ HolderInv

LEMMA CustodyInvInit == Init => CustodyInv
<1> SUFFICES ASSUME Init PROVE ListInv /\ HolderInv
  BY TypeInvInit DEF CustodyInv
<1>1. ListInv
  BY DEF Init, RedisInit, ListInv, Distinct, In, Absent
<1>2. HolderInv
  BY DEF Init, HolderInv, Holding, Taking, Running
<1> QED BY <1>1, <1>2

\* A step that touches neither the lists nor the store.
LEMMA ListInvFrame ==
    ASSUME ListInv, UNCHANGED <<pending, processing, dead, store>>
    PROVE  ListInv'
BY DEF ListInv

LEMMA CustodyInvNext == CustodyInv /\ [Next]_vars => CustodyInv'
<1> SUFFICES ASSUME CustodyInv, [Next]_vars PROVE ListInv' /\ HolderInv'
  BY TypeInvNext DEF CustodyInv
<1>0. /\ TypeInv /\ TypeOK /\ RedisTypeOK /\ ListInv /\ HolderInv
      /\ \A j \in Jobs : store[j] \in Job \cup {Absent} /\ processing[j] \in Nat
      /\ \A w \in Workers : held[w] \in Jobs
  BY DEF CustodyInv, TypeInv, TypeOK, RedisTypeOK
<1>1. ASSUME NEW j \in Jobs, Enqueue(j) PROVE ListInv' /\ HolderInv'
  <2>1. PICK work \in Work, m \in 0..MaxAttempts :
            acceptable(m) /\ SET(j, build_job(work, m))
    BY <1>1 DEF Enqueue, enqueue
  <2>2. /\ store[j].status = "absent"
        /\ store' = [store EXCEPT ![j] = build_job(work, m)]
        /\ build_job(work, m).status = "pending"
        /\ pending' = Append(pending, j)
        /\ processing' = processing /\ dead' = dead
        /\ UNCHANGED <<pc, held, snap>>
    <3>1. m \in Nat /\ acceptable(m)
      BY <2>1, MaxAttemptsAssumption
    <3>2. build_job(work, m).status = "pending"
      BY <3>1, BuildJob
    <3>3. store[j].status = "absent"
      BY <1>1 DEF Enqueue, enqueue, Absent
    <3> QED
      BY <1>1, <2>1, <3>2, <3>3 DEF Enqueue, enqueue, SET, workerVars
  <2>3. processing[j] = 0 /\ ~In(pending, j) /\ ~In(dead, j)
    BY <1>0, <2>2 DEF ListInv
  <2>4. /\ Distinct(pending')
        /\ \A k : In(pending', k) <=> (In(pending, k) \/ k = j)
    BY <1>0, <2>2, <2>3, AppendList DEF ListInv, RedisTypeOK
  <2>5. /\ store'[j].status = "pending"
        /\ \A k \in Jobs \ {j} : store'[k] = store[k]
    BY <1>0, <2>2 DEF RedisTypeOK
  <2>6. ListInv'
    BY <1>0, <2>2, <2>3, <2>4, <2>5 DEF ListInv
  <2>7. \A w \in Workers : pc[w] \in Holding => held[w] # j
    BY <1>0, <2>3 DEF HolderInv
  <2>8. HolderInv'
    BY <1>0, <2>2, <2>5, <2>7 DEF HolderInv
  <2> QED BY <2>6, <2>8
<1>2. ASSUME NEW j \in Jobs, Overwrite(j) PROVE ListInv' /\ HolderInv'
  <2>1. UNCHANGED <<pending, processing, dead, store, pc, held, snap>>
    BY <1>2 DEF Overwrite, overwrite
  <2> QED BY <1>0, <2>1, ListInvFrame DEF HolderInv
<1>3. ASSUME NEW w \in Workers, StartDrain(w) PROVE ListInv' /\ HolderInv'
  <2>1. /\ UNCHANGED <<pending, processing, dead, store, held, snap>>
        /\ pc' = [pc EXCEPT ![w] = "poll"]
    BY <1>3 DEF StartDrain, redisVars
  <2> QED BY <1>0, <2>1, ListInvFrame
          DEF HolderInv, Holding, Taking, Running, TypeOK
<1>4. ASSUME NEW w \in Workers, Lose(w) PROVE ListInv' /\ HolderInv'
  <2>1. /\ UNCHANGED <<pending, processing, dead, store, held>>
        /\ pc' = [pc EXCEPT ![w] = "lost"]
        /\ snap' = [snap EXCEPT ![w] = Absent]
    BY <1>4 DEF Lose, Forget, redisVars
  <2> QED BY <1>0, <2>1, ListInvFrame
          DEF HolderInv, Holding, Taking, Running, TypeOK
<1>5. ASSUME NEW w \in Workers, Poll(w) PROVE ListInv' /\ HolderInv'
  <2>1. CASE UNCHANGED <<redisVars, held>> /\ pc' = [pc EXCEPT ![w] = "idle"]
    <3>1. UNCHANGED <<pending, processing, dead, store, held, snap>>
      BY <1>5, <2>1 DEF Poll, redisVars
    <3> QED BY <1>0, <2>1, <3>1, ListInvFrame
            DEF HolderInv, Holding, Taking, Running, TypeOK
  <2>2. CASE /\ lmove
             /\ held' = [held EXCEPT ![w] = Head(pending)]
             /\ pc' = [pc EXCEPT ![w] = "get"]
    <3> DEFINE j == Head(pending)
    <3>1. /\ pending' = Tail(pending) /\ pending # <<>>
          /\ processing' = [processing EXCEPT ![j] = processing[j] + 1]
          /\ dead' = dead /\ store' = store /\ snap' = snap
      BY <1>5, <2>2 DEF Poll, lmove
    <3>2. /\ j \in Jobs /\ In(pending, j)
          /\ Distinct(pending') /\ ~In(pending', j)
          /\ \A k : In(pending', k) => In(pending, k)
          /\ \A k : In(pending, k) => (In(pending', k) \/ k = j)
      BY <1>0, <3>1, TailList DEF ListInv, RedisTypeOK
    <3>3. store[j].status = "pending" /\ processing[j] = 0
      BY <1>0, <3>2 DEF ListInv
    <3> HIDE DEF j
    <3>4. /\ processing'[j] = 1
          /\ \A k \in Jobs \ {j} : processing'[k] = processing[k]
      BY <1>0, <3>1, <3>2, <3>3 DEF RedisTypeOK
    <3>5. ListInv'
      BY <1>0, <3>1, <3>2, <3>3, <3>4 DEF ListInv
    <3>6. \A v \in Workers : pc[v] \in Holding => held[v] # j
      BY <1>0, <3>3 DEF HolderInv
    <3>7. /\ held'[w] = j /\ pc'[w] = "get"
          /\ \A v \in Workers \ {w} : held'[v] = held[v] /\ pc'[v] = pc[v]
      BY <1>0, <2>2 DEF TypeOK, j
    <3>8. HolderInv'
      BY <1>0, <3>1, <3>3, <3>4, <3>6, <3>7
      DEF HolderInv, Holding, Taking, Running
    <3> QED BY <3>5, <3>8
  <2> QED BY <1>5, <2>1, <2>2 DEF Poll
<1>6. ASSUME NEW w \in Workers, Get(w) PROVE ListInv' /\ HolderInv'
  <2>1. UNCHANGED <<pending, processing, dead, store, held>>
    BY <1>6 DEF Get, redisVars
  <2>2. CASE readable(held[w])
    <3>1. /\ snap' = [snap EXCEPT ![w] = store[held[w]]]
          /\ pc' = [pc EXCEPT ![w] = NextAfterGet[pc[w]]]
          /\ \/ pc[w] = "get" /\ NextAfterGet[pc[w]] = "write"
             \/ pc[w] = "complete_get" /\ NextAfterGet[pc[w]] = "complete_exec"
             \/ pc[w] = "fail_get" /\ NextAfterGet[pc[w]] = "fail_exec"
      BY <1>6, <2>2, AfterGet DEF Get
    <3> QED BY <1>0, <2>1, <3>1, ListInvFrame
            DEF HolderInv, Holding, Taking, Running, TypeOK
  <2>3. CASE ~readable(held[w])
    BY <1>0, <1>6, <2>1, <2>3, ListInvFrame
    DEF Get, Forget, HolderInv, Holding, Taking, Running, TypeOK
  <2> QED BY <2>2, <2>3
<1>7. ASSUME NEW w \in Workers, Write(w) PROVE ListInv' /\ HolderInv'
  <2> DEFINE j == held[w]
  <2>1. /\ pc[w] = "write" /\ pc' = [pc EXCEPT ![w] = "dispatch"]
        /\ UNCHANGED <<pending, processing, dead, held>>
        /\ store' = [store EXCEPT ![j] = running(snap[w])]
        /\ snap' = [snap EXCEPT ![w] = running(snap[w])]
    BY <1>7 DEF Write, write, SET
  <2>2. /\ j \in Jobs /\ processing[j] = 1
        /\ \A v \in Workers \ {w} : pc[v] \in Holding => held[v] # j
        /\ running(snap[w]).status = "running"
    BY <1>0, <2>1, RunningCopy
    DEF HolderInv, Holding, Taking, Running, TypeInv
  <2> HIDE DEF j
  <2>3. /\ store'[j].status = "running"
        /\ store'[j] = running(snap[w])
        /\ \A k \in Jobs \ {j} : store'[k] = store[k]
    BY <1>0, <2>1, <2>2 DEF RedisTypeOK
  <2>4. ListInv'
    BY <1>0, <2>1, <2>2, <2>3 DEF ListInv
  <2>5. HolderInv'
    BY <1>0, <2>1, <2>2, <2>3
    DEF HolderInv, Holding, Taking, Running, TypeOK, j
  <2> QED BY <2>4, <2>5
<1>8. ASSUME NEW w \in Workers, Dispatch(w) PROVE ListInv' /\ HolderInv'
  <2>1. /\ UNCHANGED <<pending, processing, dead, store, held, snap>>
        /\ pc[w] = "dispatch"
        /\ \E p \in {"run", "fail_get"} : pc' = [pc EXCEPT ![w] = p]
    BY <1>8 DEF Dispatch, redisVars
  <2> QED BY <1>0, <2>1, ListInvFrame
          DEF HolderInv, Holding, Taking, Running, TypeOK
<1>9. ASSUME NEW w \in Workers, Run(w) PROVE ListInv' /\ HolderInv'
  <2>1. /\ UNCHANGED <<pending, processing, dead, store, held, snap>>
        /\ pc[w] = "run"
        /\ \E p \in {"complete_get", "fail_get"} : pc' = [pc EXCEPT ![w] = p]
    BY <1>9 DEF Run, redisVars
  <2> QED BY <1>0, <2>1, ListInvFrame
          DEF HolderInv, Holding, Taking, Running, TypeOK
<1>10. ASSUME NEW w \in Workers, CompleteExec(w) PROVE ListInv' /\ HolderInv'
  <2> DEFINE j == held[w]
  <2>1. /\ pc[w] = "complete_exec" /\ pc' = [pc EXCEPT ![w] = "record"]
        /\ UNCHANGED <<pending, dead, held>>
        /\ store' = [store EXCEPT ![j] = done(snap[w])]
        /\ processing' = [processing EXCEPT
                             ![j] = IF processing[j] = 0 THEN 0 ELSE processing[j] - 1]
        /\ snap' = [snap EXCEPT ![w] = done(snap[w])]
    BY <1>10 DEF CompleteExec, complete_exec, SET, LREM
  <2>2. /\ j \in Jobs /\ processing[j] = 1 /\ store[j].status = "running"
        /\ \A v \in Workers \ {w} : pc[v] \in Holding => held[v] # j
        /\ done(snap[w]).status = "succeeded"
    BY <1>0, <2>1, DoneCopy
    DEF HolderInv, Holding, Taking, Running, TypeInv
  <2> HIDE DEF j
  <2>3. /\ store'[j].status = "succeeded" /\ processing'[j] = 0
        /\ \A k \in Jobs \ {j} :
              store'[k] = store[k] /\ processing'[k] = processing[k]
    BY <1>0, <2>1, <2>2 DEF RedisTypeOK
  <2>4. ~In(pending, j) /\ ~In(dead, j)
    BY <1>0, <2>2 DEF ListInv
  <2>5. ListInv'
    BY <1>0, <2>1, <2>3, <2>4 DEF ListInv
  <2>6. HolderInv'
    BY <1>0, <2>1, <2>2, <2>3
    DEF HolderInv, Holding, Taking, Running, TypeOK
  <2> QED BY <2>5, <2>6
<1>11. ASSUME NEW w \in Workers, FailExec(w) PROVE ListInv' /\ HolderInv'
  <2> DEFINE j == held[w]
  <2>1. /\ pc[w] = "fail_exec" /\ pc' = [pc EXCEPT ![w] = "record"]
        /\ held' = held
        /\ processing' = [processing EXCEPT
                             ![j] = IF processing[j] = 0 THEN 0 ELSE processing[j] - 1]
        /\ snap' = [snap EXCEPT ![w] = store'[j]]
    BY <1>11 DEF FailExec, fail_exec, dead_exec, retry_exec, LREM
  <2>2. /\ j \in Jobs /\ processing[j] = 1 /\ store[j].status = "running"
        /\ \A v \in Workers \ {w} : pc[v] \in Holding => held[v] # j
        /\ snap[w] \in Job
    BY <1>0, <2>1
    DEF HolderInv, Holding, Taking, Running, TypeInv
  <2>3. ~In(pending, j) /\ ~In(dead, j)
    BY <1>0, <2>2 DEF ListInv
  <2>4. /\ processing'[j] = 0
        /\ \A k \in Jobs \ {j} : processing'[k] = processing[k]
    BY <1>0, <2>1, <2>2 DEF RedisTypeOK
  <2>5. CASE dead_exec(held[w], snap[w])
    <3>1. /\ store' = [store EXCEPT ![j] = dead_letter(snap[w])]
          /\ dead' = Append(dead, j) /\ pending' = pending
      BY <2>5 DEF dead_exec, SET
    <3>2. /\ Distinct(dead')
          /\ \A k : In(dead', k) <=> (In(dead, k) \/ k = j)
      BY <1>0, <2>2, <2>3, <3>1, AppendList DEF ListInv, RedisTypeOK
    <3>3. /\ store'[j].status = "failed"
          /\ \A k \in Jobs \ {j} : store'[k] = store[k]
      BY <1>0, <2>2, <3>1, DeadLetterCopy DEF RedisTypeOK
    <3> HIDE DEF j
    <3>4. ListInv'
      BY <1>0, <2>3, <2>4, <3>1, <3>2, <3>3 DEF ListInv
    <3>5. HolderInv'
      BY <1>0, <2>1, <2>2, <2>4, <3>3
      DEF HolderInv, Holding, Taking, Running, TypeOK
    <3> QED BY <3>4, <3>5
  <2>6. CASE retry_exec(held[w], snap[w])
    <3>1. /\ store' = [store EXCEPT ![j] = retry(snap[w])]
          /\ pending' = Append(pending, j) /\ dead' = dead
      BY <2>6 DEF retry_exec, SET
    <3>2. /\ Distinct(pending')
          /\ \A k : In(pending', k) <=> (In(pending, k) \/ k = j)
      BY <1>0, <2>2, <2>3, <3>1, AppendList DEF ListInv, RedisTypeOK
    <3>3. /\ store'[j].status = "pending"
          /\ \A k \in Jobs \ {j} : store'[k] = store[k]
      BY <1>0, <2>2, <3>1, RetryCopy DEF RedisTypeOK
    <3> HIDE DEF j
    <3>4. ListInv'
      BY <1>0, <2>3, <2>4, <3>1, <3>2, <3>3 DEF ListInv
    <3>5. HolderInv'
      BY <1>0, <2>1, <2>2, <2>4, <3>3
      DEF HolderInv, Holding, Taking, Running, TypeOK
    <3> QED BY <3>4, <3>5
  <2> QED BY <1>11, <2>5, <2>6 DEF FailExec, fail_exec
<1>12. ASSUME NEW w \in Workers, Record(w) PROVE ListInv' /\ HolderInv'
  <2>1. /\ UNCHANGED <<pending, processing, dead, store, held>>
        /\ \E p \in {"idle", "poll"} : pc' = [pc EXCEPT ![w] = p]
        /\ snap' = [snap EXCEPT ![w] = Absent]
    BY <1>12 DEF Record, Forget, redisVars
  <2> QED BY <1>0, <2>1, ListInvFrame
          DEF HolderInv, Holding, Taking, Running, TypeOK
<1>13. CASE UNCHANGED vars
  BY <1>0, <1>13, ListInvFrame DEF vars, HolderInv
<1> QED
  BY <1>1, <1>2, <1>3, <1>4, <1>5, <1>6, <1>7, <1>8, <1>9, <1>10, <1>11, <1>12,
     <1>13 DEF Next, Step

\* The attempts, the effects and the verdicts of the run in progress.
BudgetInv ==
    /\ \A j \in Jobs :
          /\ store[j].attempts <= store[j].max_attempts
          /\ store[j].status = "pending" =>
                 store[j].attempts < store[j].max_attempts
          /\ effects[j] <= store[j].attempts
          /\ store[j].status = "succeeded" =>
                 store[j].work = "runnable" /\ effects[j] >= 1
          /\ store[j].work # "runnable" =>
                 /\ store[j].attempts <= 1
                 /\ store[j].status = "pending" => store[j].attempts = 0
                 /\ effects[j] = 0
    /\ \A w \in Workers :
          /\ pc[w] \in {"dispatch", "run"} =>
                 effects[held[w]] < store[held[w]].attempts
          /\ pc[w] \in {"run", "complete_get", "complete_exec"} =>
                 store[held[w]].work = "runnable"
          /\ pc[w] \in {"complete_get", "complete_exec"} => effects[held[w]] >= 1
          /\ pc[w] \in {"fail_get", "fail_exec"} /\ retryable[w] =>
                 store[held[w]].work = "runnable"

LEMMA BudgetInvInit == Init => BudgetInv
BY DEF Init, RedisInit, BudgetInv, Absent

\* A step that touches neither the store nor the effects and moves no worker
\* to a later await of its run.
LEMMA BudgetInvFrame ==
    ASSUME BudgetInv, UNCHANGED <<store, effects>>,
           \A w \in Workers :
               \/ pc'[w] \in Stopped \cup Taking \cup {"poll", "record"}
               \/ UNCHANGED <<pc[w], held[w], retryable[w]>>
    PROVE  BudgetInv'
BY DEF BudgetInv, Stopped, Taking

LEMMA BudgetInvNext == CustodyInv /\ BudgetInv /\ [Next]_vars => BudgetInv'
<1> SUFFICES ASSUME CustodyInv, BudgetInv, [Next]_vars PROVE BudgetInv'
  OBVIOUS
<1>0. /\ TypeInv /\ TypeOK /\ RedisTypeOK /\ ListInv /\ HolderInv /\ BudgetInv
      /\ \A j \in Jobs : store[j] \in Job \cup {Absent} /\ effects[j] \in Nat
      /\ \A w \in Workers : held[w] \in Jobs
  BY DEF CustodyInv, TypeInv, TypeOK, RedisTypeOK
<1>a. \A j \in Jobs : store[j].attempts \in Nat /\ store[j].max_attempts \in Nat \ {0}
  BY <1>0, JobFields DEF Absent
<1>1. ASSUME NEW j \in Jobs, Enqueue(j) PROVE BudgetInv'
  <2>1. PICK work \in Work, m \in 0..MaxAttempts :
            acceptable(m) /\ SET(j, build_job(work, m))
    BY <1>1 DEF Enqueue, enqueue
  <2>2. m \in Nat /\ acceptable(m)
    BY <2>1, MaxAttemptsAssumption
  <2>3. /\ store[j].attempts = 0 /\ store[j].status = "absent"
        /\ UNCHANGED <<pc, held, retryable, effects>>
    BY <1>1 DEF Enqueue, enqueue, Absent, workerVars
  <2>4. /\ store'[j].status = "pending" /\ store'[j].attempts = 0
        /\ store'[j].max_attempts = m /\ m >= 1
        /\ \A k \in Jobs \ {j} : store'[k] = store[k]
    BY <1>0, <2>1, <2>2, BuildJob DEF SET, RedisTypeOK
  <2>5. effects[j] = 0
    BY <1>0, <2>3 DEF BudgetInv
  <2>6. \A w \in Workers : pc[w] \in Running => held[w] # j
    BY <1>0, <2>3 DEF HolderInv, Holding
  <2> QED
    BY <1>0, <2>2, <2>3, <2>4, <2>5, <2>6 DEF BudgetInv, Running
<1>2. ASSUME NEW j \in Jobs, Overwrite(j) PROVE BudgetInv'
  BY <1>0, <1>2, BudgetInvFrame DEF Overwrite, overwrite
<1>3. ASSUME NEW w \in Workers, StartDrain(w) PROVE BudgetInv'
  <2>1. /\ UNCHANGED <<store, effects, held, retryable>>
        /\ pc' = [pc EXCEPT ![w] = "poll"]
    BY <1>3 DEF StartDrain, redisVars
  <2> QED BY <1>0, <2>1, BudgetInvFrame DEF TypeOK
<1>4. ASSUME NEW w \in Workers, Lose(w) PROVE BudgetInv'
  <2>1. /\ UNCHANGED <<store, effects, held>>
        /\ pc' = [pc EXCEPT ![w] = "lost"]
        /\ retryable' = [retryable EXCEPT ![w] = TRUE]
    BY <1>4 DEF Lose, Forget, redisVars
  <2> QED BY <1>0, <2>1, BudgetInvFrame DEF TypeOK, Stopped
<1>5. ASSUME NEW w \in Workers, Poll(w) PROVE BudgetInv'
  <2>1. /\ UNCHANGED <<store, effects, retryable>>
        /\ \E p \in {"idle", "get"} : pc' = [pc EXCEPT ![w] = p]
        /\ \A v \in Workers \ {w} : held'[v] = held[v]
    BY <1>0, <1>5 DEF Poll, lmove, redisVars, TypeOK
  <2> QED BY <1>0, <2>1, BudgetInvFrame DEF TypeOK, Stopped, Taking
<1>6. ASSUME NEW w \in Workers, Get(w) PROVE BudgetInv'
  <2>1. UNCHANGED <<store, effects, held>>
    BY <1>6 DEF Get, redisVars
  <2>2. CASE readable(held[w])
    <3>1. /\ pc' = [pc EXCEPT ![w] = NextAfterGet[pc[w]]]
          /\ \/ pc[w] = "get" /\ NextAfterGet[pc[w]] = "write"
             \/ pc[w] = "complete_get" /\ NextAfterGet[pc[w]] = "complete_exec"
             \/ pc[w] = "fail_get" /\ NextAfterGet[pc[w]] = "fail_exec"
          /\ retryable' = retryable
      BY <1>6, <2>2, AfterGet DEF Get
    <3>2. \A j \in Jobs : store'[j] = store[j] /\ effects'[j] = effects[j]
      BY <2>1
    <3> QED BY <1>0, <2>1, <3>1, <3>2 DEF BudgetInv, TypeOK
  <2>3. CASE ~readable(held[w])
    <3>1. /\ pc' = [pc EXCEPT ![w] = "not_found"]
          /\ retryable' = [retryable EXCEPT ![w] = TRUE]
      BY <1>6, <2>3 DEF Get, Forget
    <3> QED BY <1>0, <2>1, <3>1, BudgetInvFrame DEF TypeOK, Stopped
  <2> QED BY <2>2, <2>3
<1>7. ASSUME NEW w \in Workers, Write(w) PROVE BudgetInv'
  <2> DEFINE j == held[w]
  <2>1. /\ pc[w] = "write" /\ pc' = [pc EXCEPT ![w] = "dispatch"]
        /\ UNCHANGED <<held, retryable, effects>>
        /\ store' = [store EXCEPT ![j] = running(snap[w])]
    BY <1>7 DEF Write, write, SET
  <2>2. /\ j \in Jobs /\ store[j].status = "pending"
        /\ snap[w] = store[j] /\ snap[w] \in Job
        /\ \A v \in Workers \ {w} : pc[v] \in Holding => held[v] # j
    BY <1>0, <2>1 DEF HolderInv, Holding, Taking, TypeInv
  <2>3. /\ store'[j].status = "running"
        /\ store'[j].attempts = store[j].attempts + 1
        /\ store'[j].max_attempts = store[j].max_attempts
        /\ store'[j].work = store[j].work
        /\ \A k \in Jobs \ {j} : store'[k] = store[k]
    BY <1>0, <2>1, <2>2, RunningCopy DEF RedisTypeOK
  <2> HIDE DEF j
  <2>4. \A k \in Jobs :
            /\ store'[k].attempts <= store'[k].max_attempts
            /\ store'[k].status = "pending" =>
                   store'[k].attempts < store'[k].max_attempts
            /\ effects'[k] <= store'[k].attempts
            /\ store'[k].status = "succeeded" =>
                   store'[k].work = "runnable" /\ effects'[k] >= 1
            /\ store'[k].work # "runnable" =>
                   /\ store'[k].attempts <= 1
                   /\ store'[k].status = "pending" => store'[k].attempts = 0
                   /\ effects'[k] = 0
    BY <1>0, <1>a, <2>1, <2>2, <2>3 DEF BudgetInv
  <2>5. \A v \in Workers \ {w} :
            /\ pc'[v] = pc[v] /\ held'[v] = held[v] /\ retryable'[v] = retryable[v]
            /\ pc[v] \in Running => held[v] # j
    BY <1>0, <2>1, <2>2 DEF TypeOK, Holding
  <2>6. effects'[j] < store'[j].attempts
    BY <1>0, <1>a, <2>1, <2>2, <2>3 DEF BudgetInv
  <2>7. pc'[w] = "dispatch" /\ held'[w] = j
    BY <1>0, <2>1 DEF TypeOK, j
  <2> QED
    BY <1>0, <2>1, <2>3, <2>4, <2>5, <2>6, <2>7 DEF BudgetInv, Running
<1>8. ASSUME NEW w \in Workers, Dispatch(w) PROVE BudgetInv'
  <2>1. /\ UNCHANGED <<store, effects, held>> /\ pc[w] = "dispatch"
        /\ snap[w] = store[held[w]]
    BY <1>0, <1>8 DEF Dispatch, redisVars, HolderInv, Holding, Running
  <2>2. CASE snap[w].work = "runnable"
    <3>1. retryable' = retryable /\ pc' = [pc EXCEPT ![w] = "run"]
      BY <1>8, <2>2 DEF Dispatch
    <3>2. \A j \in Jobs : store'[j] = store[j] /\ effects'[j] = effects[j]
      BY <2>1
    <3> QED BY <1>0, <2>1, <2>2, <3>1, <3>2 DEF BudgetInv, TypeOK
  <2>3. CASE snap[w].work # "runnable"
    <3>1. /\ retryable' = [retryable EXCEPT ![w] = FALSE]
          /\ pc' = [pc EXCEPT ![w] = "fail_get"]
      BY <1>8, <2>3 DEF Dispatch
    <3>2. \A j \in Jobs : store'[j] = store[j] /\ effects'[j] = effects[j]
      BY <2>1
    <3> QED BY <1>0, <2>1, <3>1, <3>2 DEF BudgetInv, TypeOK
  <2> QED BY <2>2, <2>3
<1>9. ASSUME NEW w \in Workers, Run(w) PROVE BudgetInv'
  <2> DEFINE j == held[w]
  <2>1. /\ UNCHANGED <<store, held>> /\ pc[w] = "run"
        /\ j \in Jobs
        /\ \A v \in Workers \ {w} : pc[v] \in Holding => held[v] # j
        /\ store[j].status = "running"
    BY <1>0, <1>9 DEF Run, redisVars, HolderInv, Holding, Running
  <2>2. effects[j] < store[j].attempts /\ store[j].work = "runnable"
    BY <1>0, <2>1 DEF BudgetInv
  <2>3. PICK n \in {0, 1} : effects' = [effects EXCEPT ![j] = effects[j] + n]
    BY <1>9 DEF Run
  <2>4. /\ \A v \in Workers \ {w} : pc'[v] = pc[v] /\ retryable'[v] = retryable[v]
        /\ \/ pc'[w] = "complete_get" /\ effects'[j] = effects[j] + 1
           \/ pc'[w] = "fail_get"
    BY <1>0, <1>9, <2>1 DEF Run, TypeOK
  <2> HIDE DEF j
  <2>5. /\ effects'[j] = effects[j] + n
        /\ \A k \in Jobs \ {j} : effects'[k] = effects[k]
    BY <1>0, <2>1, <2>3 DEF TypeOK
  <2>6. \A k \in Jobs :
            /\ effects'[k] <= store[k].attempts
            /\ store[k].status = "succeeded" => effects'[k] >= 1
            /\ store[k].work # "runnable" => effects'[k] = 0
    BY <1>0, <1>a, <2>1, <2>2, <2>5 DEF BudgetInv
  <2>7. /\ pc'[w] \in {"complete_get", "complete_exec"} => effects'[held[w]] >= 1
        /\ pc'[w] \notin {"dispatch", "run"}
        /\ store[held[w]].work = "runnable"
    BY <1>0, <2>1, <2>2, <2>4 DEF j
  <2>8. \A v \in Workers \ {w} :
            pc[v] \in Running => effects'[held[v]] = effects[held[v]]
    BY <1>0, <2>1, <2>5 DEF Holding
  <2>9. store' = store /\ held' = held
    BY <2>1
  <2> QED
    BY <1>0, <2>4, <2>6, <2>7, <2>8, <2>9 DEF BudgetInv, Running
<1>10. ASSUME NEW w \in Workers, CompleteExec(w) PROVE BudgetInv'
  <2> DEFINE j == held[w]
  <2>1. /\ pc[w] = "complete_exec" /\ pc' = [pc EXCEPT ![w] = "record"]
        /\ UNCHANGED <<held, retryable, effects>>
        /\ store' = [store EXCEPT ![j] = done(snap[w])]
    BY <1>10 DEF CompleteExec, complete_exec, SET
  <2>2. /\ j \in Jobs
        /\ snap[w] = store[j] /\ snap[w] \in Job
        /\ \A v \in Workers \ {w} : pc[v] \in Holding => held[v] # j
    BY <1>0, <2>1 DEF HolderInv, Holding, Running, TypeInv
  <2>3. /\ store'[j].status = "succeeded"
        /\ store'[j].attempts = store[j].attempts
        /\ store'[j].max_attempts = store[j].max_attempts
        /\ store'[j].work = store[j].work
        /\ \A k \in Jobs \ {j} : store'[k] = store[k]
    BY <1>0, <2>1, <2>2, DoneCopy DEF RedisTypeOK
  <2>4. store[j].work = "runnable" /\ effects[j] >= 1
    BY <1>0, <2>1 DEF BudgetInv
  <2>5. \A v \in Workers \ {w} :
            /\ pc'[v] = pc[v] /\ held'[v] = held[v] /\ retryable'[v] = retryable[v]
            /\ pc[v] \in Running => held[v] # j
    BY <1>0, <2>1, <2>2 DEF TypeOK, Holding
  <2>6. pc'[w] = "record" /\ effects' = effects
    BY <1>0, <2>1 DEF TypeOK
  <2> HIDE DEF j
  <2> QED
    BY <1>0, <1>a, <2>2, <2>3, <2>4, <2>5, <2>6 DEF BudgetInv, Running
<1>11. ASSUME NEW w \in Workers, FailExec(w) PROVE BudgetInv'
  <2> DEFINE j == held[w]
  <2>1. /\ pc[w] = "fail_exec" /\ pc' = [pc EXCEPT ![w] = "record"]
        /\ UNCHANGED <<held, retryable, effects>>
    BY <1>11 DEF FailExec
  <2>2. /\ j \in Jobs
        /\ snap[w] = store[j] /\ snap[w] \in Job
        /\ \A v \in Workers \ {w} : pc[v] \in Holding => held[v] # j
    BY <1>0, <2>1 DEF HolderInv, Holding, Running, TypeInv
  <2>3. /\ \/ store'[j].status = "failed"
           \/ /\ store'[j].status = "pending"
              /\ store[j].attempts < store[j].max_attempts
              /\ store[j].work = "runnable"
        /\ store'[j].attempts = store[j].attempts
        /\ store'[j].max_attempts = store[j].max_attempts
        /\ store'[j].work = store[j].work
        /\ \A k \in Jobs \ {j} : store'[k] = store[k]
    <3>1. CASE exhausted(snap[w]) \/ ~retryable[w]
      <4>1. store' = [store EXCEPT ![j] = dead_letter(snap[w])]
        BY <1>11, <3>1 DEF FailExec, fail_exec, dead_exec, SET
      <4> QED BY <1>0, <2>2, <4>1, DeadLetterCopy DEF RedisTypeOK
    <3>2. CASE ~(exhausted(snap[w]) \/ ~retryable[w])
      <4>1. store' = [store EXCEPT ![j] = retry(snap[w])]
        BY <1>11, <3>2 DEF FailExec, fail_exec, retry_exec, SET
      <4>2. store[j].work = "runnable"
        BY <1>0, <2>1, <3>2 DEF BudgetInv
      <4>3. store[j].attempts < store[j].max_attempts
        BY <1>a, <2>2, <3>2 DEF exhausted
      <4> QED BY <1>0, <2>2, <4>1, <4>2, <4>3, RetryCopy DEF RedisTypeOK
    <3> QED BY <3>1, <3>2
  <2>5. \A v \in Workers \ {w} :
            /\ pc'[v] = pc[v] /\ held'[v] = held[v] /\ retryable'[v] = retryable[v]
            /\ pc[v] \in Running => held[v] # j
    BY <1>0, <2>1, <2>2 DEF TypeOK, Holding
  <2>6. pc'[w] = "record" /\ effects' = effects
    BY <1>0, <2>1 DEF TypeOK
  <2> HIDE DEF j
  <2> QED
    BY <1>0, <1>a, <2>2, <2>3, <2>5, <2>6 DEF BudgetInv, Running
<1>12. ASSUME NEW w \in Workers, Record(w) PROVE BudgetInv'
  <2>1. /\ UNCHANGED <<store, effects, held>>
        /\ \E p \in {"idle", "poll"} : pc' = [pc EXCEPT ![w] = p]
        /\ retryable' = [retryable EXCEPT ![w] = TRUE]
    BY <1>12 DEF Record, Forget, redisVars
  <2> QED BY <1>0, <2>1, BudgetInvFrame DEF TypeOK, Stopped
<1>13. CASE UNCHANGED vars
  BY <1>0, <1>13, BudgetInvFrame DEF vars
<1> QED
  BY <1>1, <1>2, <1>3, <1>4, <1>5, <1>6, <1>7, <1>8, <1>9, <1>10, <1>11, <1>12,
     <1>13 DEF Next, Step

-----------------------------------------------------------------------------
(* The theorems.                                                           *)

\* All three invariants hold in every reachable state.
LEMMA Invariants == Spec => [](CustodyInv /\ BudgetInv)
BY CustodyInvInit, CustodyInvNext, BudgetInvInit, BudgetInvNext, PTL DEF Spec

\* Every job that is not settled is in exactly one of the two lists, once, and
\* a settled job in neither, wherever workers died (redis_queue.py:18-24).
THEOREM NoJobIsLost == Spec => []NoJobLost
<1>1. CustodyInv => NoJobLost
  <2> SUFFICES ASSUME CustodyInv, NEW j \in Jobs
               PROVE  Occurrences(pending, j) + processing[j]
                        = IF Stored(j) /\ ~terminal(store[j]) THEN 1 ELSE 0
    BY DEF NoJobLost
  <2>1. /\ ListInv /\ pending \in Seq(Jobs) /\ store[j] \in Job \cup {Absent}
    BY DEF CustodyInv, TypeInv, TypeOK, RedisTypeOK
  <2>2. Occurrences(pending, j) = IF In(pending, j) THEN 1 ELSE 0
    BY <2>1, OccurrencesOfDistinct DEF ListInv
  <2>3. Stored(j) /\ ~terminal(store[j])
            <=> store[j].status \in {"pending", "running"}
    BY <2>1, StoredIsJob, JobFields DEF Stored, terminal, JobStatus
  <2>4. /\ processing[j] \in {0, 1}
        /\ In(pending, j) => store[j].status = "pending" /\ processing[j] = 0
        /\ processing[j] = 1 => store[j].status \in {"pending", "running"}
        /\ store[j].status \in {"pending", "running"} =>
              In(pending, j) \/ processing[j] = 1
    BY <2>1 DEF ListInv
  <2> QED BY <2>2, <2>3, <2>4
<1> QED BY <1>1, Invariants, PTL

\* No two workers hold one job, and what a holder read is what is stored.
THEOREM CustodyIsSingle == Spec => []SingleCustody
<1>1. CustodyInv => SingleCustody
  BY DEF CustodyInv, HolderInv, SingleCustody
<1> QED BY <1>1, Invariants, PTL

\* The attempt budget of dequeue and fail holds under every interleaving.
THEOREM AttemptsAreBounded == Spec => []AttemptBudget
<1>1. BudgetInv => AttemptBudget
  BY DEF BudgetInv, AttemptBudget
<1> QED BY <1>1, Invariants, PTL

\* The dead list holds the failed jobs, each once.
THEOREM DeadLettersAreExact == Spec => []DeadLetterListIsExact
<1>1. CustodyInv => DeadLetterListIsExact
  <2> SUFFICES ASSUME CustodyInv, NEW j \in Jobs
               PROVE  Occurrences(dead, j)
                        = IF store[j].status = "failed" THEN 1 ELSE 0
    BY DEF DeadLetterListIsExact
  <2>1. ListInv /\ dead \in Seq(Jobs)
    BY DEF CustodyInv, TypeInv, TypeOK, RedisTypeOK
  <2>2. Occurrences(dead, j) = IF In(dead, j) THEN 1 ELSE 0
    BY <2>1, OccurrencesOfDistinct DEF ListInv
  <2> QED BY <2>1, <2>2 DEF ListInv
<1> QED BY <1>1, Invariants, PTL

\* A job that can never run is settled by its first attempt.
THEOREM UnrunnableIsSettledAtOnce == Spec => []UnrunnableNeverRetried
<1>1. BudgetInv => UnrunnableNeverRetried
  BY DEF BudgetInv, UnrunnableNeverRetried
<1> QED BY <1>1, Invariants, PTL

\* A job recorded as succeeded took effect.
THEOREM SuccessIsEffective == Spec => []SucceededTookEffect
<1>1. BudgetInv => SucceededTookEffect
  BY DEF BudgetInv, SucceededTookEffect
<1> QED BY <1>1, Invariants, PTL

\* What a step can do to the pending list.
LEMMA PendingStep ==
    ASSUME CustodyInv, [Next]_vars
    PROVE  \/ pending' = pending
           \/ pending # <<>> /\ pending' = Tail(pending)
           \/ \E j \in Jobs : ~In(pending, j) /\ pending' = Append(pending, j)
<1>0. ListInv /\ HolderInv /\ \A w \in Workers : held[w] \in Jobs
  BY DEF CustodyInv, TypeInv, TypeOK
<1>1. ASSUME NEW j \in Jobs, Enqueue(j)
      PROVE  ~In(pending, j) /\ pending' = Append(pending, j)
  BY <1>0, <1>1 DEF Enqueue, enqueue, ListInv, Absent
<1>2. ASSUME NEW w \in Workers, FailExec(w)
      PROVE  \/ pending' = pending
             \/ ~In(pending, held[w]) /\ pending' = Append(pending, held[w])
  <2>1. processing[held[w]] = 1
    BY <1>0, <1>2 DEF FailExec, HolderInv, Holding, Running
  <2>2. ~In(pending, held[w])
    BY <1>0, <2>1 DEF ListInv
  <2> QED BY <1>2, <2>2 DEF FailExec, fail_exec, dead_exec, retry_exec
<1>3. ASSUME NEW w \in Workers, Poll(w)
      PROVE  pending' = pending \/ (pending # <<>> /\ pending' = Tail(pending))
  BY <1>3 DEF Poll, lmove, redisVars
<1>4. ASSUME NEW w \in Workers,
             \/ StartDrain(w) \/ Lose(w) \/ Get(w) \/ Write(w) \/ Dispatch(w)
             \/ Run(w) \/ CompleteExec(w) \/ Record(w)
      PROVE  pending' = pending
  BY <1>4
  DEF StartDrain, Lose, Get, Write, write, Dispatch, Run, CompleteExec, complete_exec,
      Record, redisVars
<1>5. ASSUME NEW j \in Jobs, Overwrite(j) PROVE pending' = pending
  BY <1>5 DEF Overwrite, overwrite
<1>6. CASE UNCHANGED vars
  BY <1>6 DEF vars
<1> QED
  BY <1>0, <1>1, <1>2, <1>3, <1>4, <1>5, <1>6 DEF Next, Step

\* A waiting job is never overtaken: fail pushes a retry behind it and dequeue
\* takes from the front.
THEOREM NoJobIsOvertaken == Spec => NeverOvertaken
<1> DEFINE Kept == \A i \in DOMAIN pending : \A k \in DOMAIN pending' :
                       pending'[k] = pending[i] => k <= i
<1>1. ASSUME CustodyInv, [Next]_vars PROVE Kept
  <2>1. pending \in Seq(Jobs) /\ Distinct(pending) /\ DOMAIN pending = 1..Len(pending)
    BY <1>1 DEF CustodyInv, ListInv, TypeInv, TypeOK, RedisTypeOK
  <2>2. CASE pending' = pending
    BY <2>1, <2>2 DEF Distinct
  <2>3. CASE pending # <<>> /\ pending' = Tail(pending)
    <3>1. /\ DOMAIN pending' = 1..(Len(pending) - 1)
          /\ \A k \in 1..(Len(pending) - 1) : pending'[k] = pending[k + 1]
          /\ Len(pending) \in Nat
      BY <2>1, <2>3
    <3> QED BY <2>1, <3>1 DEF Distinct
  <2>4. ASSUME NEW j \in Jobs, ~In(pending, j), pending' = Append(pending, j)
        PROVE  Kept
    <3>1. /\ DOMAIN pending' = 1..(Len(pending) + 1)
          /\ \A k \in 1..Len(pending) : pending'[k] = pending[k]
          /\ pending'[Len(pending) + 1] = j
          /\ Len(pending) \in Nat
      BY <2>1, <2>4
    <3> QED BY <2>1, <2>4, <3>1 DEF Distinct, In
  <2> QED BY <1>1, <2>2, <2>3, <2>4, PendingStep
<1>2. CustodyInv /\ [Next]_vars => [Kept]_vars
  BY <1>1
<1> QED BY <1>2, Invariants, PTL DEF Spec, NeverOvertaken

-----------------------------------------------------------------------------
(* Refinement: every step on Redis is a step of the JobQueue protocol, or   *)
(* does not change what `get' returns.                                      *)

LEMMA StepRefines ==
    CustodyInv /\ BudgetInv /\ [Next]_vars => [JQ!QNext]_store
<1> SUFFICES ASSUME CustodyInv, BudgetInv, [Next]_vars, store' # store
             PROVE  JQ!QNext
  OBVIOUS
<1>0. /\ TypeInv /\ TypeOK /\ RedisTypeOK /\ HolderInv
      /\ \A w \in Workers : held[w] \in Jobs
      /\ \A j \in Jobs : store[j] \in Job \cup {Absent}
  BY DEF CustodyInv, TypeInv, TypeOK, RedisTypeOK
<1>1. ASSUME NEW j \in Jobs, Enqueue(j) PROVE JQ!QNext
  <2>1. JQ!QEnqueue(j)
    BY <1>1 DEF Enqueue, enqueue, SET, JQ!QEnqueue, acceptable, JQ!acceptable,
                build_job, JQ!build_job, Work, JQ!Work, Absent, JQ!Absent
  <2> QED BY <2>1 DEF JQ!QNext
<1>2. ASSUME NEW w \in Workers, Write(w) PROVE JQ!QNext
  <2>1. /\ pc[w] = "write"
        /\ store' = [store EXCEPT ![held[w]] = running(snap[w])]
    BY <1>2 DEF Write, write, SET
  <2>2. snap[w] = store[held[w]] /\ store[held[w]].status = "pending"
    BY <1>0, <2>1 DEF HolderInv, Holding, Taking
  <2>3. ~exhausted(store[held[w]])
    <3>1. store[held[w]].attempts < store[held[w]].max_attempts
      BY <1>0, <2>2 DEF BudgetInv
    <3>2. store[held[w]] \in Job
      BY <1>0, <2>2, StoredIsJob
    <3> QED BY <3>1, <3>2, JobFields DEF exhausted
  <2>4. JQ!QDequeue(held[w])
    BY <2>1, <2>2, <2>3 DEF JQ!QDequeue, running, JQ!running, exhausted, JQ!exhausted
  <2> QED BY <1>0, <2>4 DEF JQ!QNext
<1>3. ASSUME NEW w \in Workers, CompleteExec(w) PROVE JQ!QNext
  <2>1. /\ pc[w] = "complete_exec"
        /\ store' = [store EXCEPT ![held[w]] = done(snap[w])]
    BY <1>3 DEF CompleteExec, complete_exec, SET
  <2>2. snap[w] = store[held[w]] /\ store[held[w]].status = "running"
    BY <1>0, <2>1 DEF HolderInv, Holding, Running
  <2>3. store[held[w]].work = "runnable"
    BY <1>0, <2>1 DEF BudgetInv
  <2>4. JQ!QComplete(held[w])
    BY <2>1, <2>2, <2>3 DEF JQ!QComplete, done, JQ!done
  <2> QED BY <1>0, <2>4 DEF JQ!QNext
<1>4. ASSUME NEW w \in Workers, FailExec(w) PROVE JQ!QNext
  <2>1. pc[w] = "fail_exec"
    BY <1>4 DEF FailExec
  <2>2. snap[w] = store[held[w]] /\ store[held[w]].status = "running"
    BY <1>0, <2>1 DEF HolderInv, Holding, Running
  <2>3. CASE exhausted(snap[w]) \/ ~retryable[w]
    <3>1. store' = [store EXCEPT ![held[w]] = dead_letter(snap[w])]
      BY <1>4, <2>3 DEF FailExec, fail_exec, dead_exec, SET
    <3>2. JQ!QDeadLetter(held[w])
      BY <2>2, <3>1 DEF JQ!QDeadLetter, dead_letter, JQ!dead_letter
    <3> QED BY <1>0, <3>2 DEF JQ!QNext
  <2>4. CASE ~(exhausted(snap[w]) \/ ~retryable[w])
    <3>1. store' = [store EXCEPT ![held[w]] = retry(snap[w])]
      BY <1>4, <2>4 DEF FailExec, fail_exec, retry_exec, SET
    <3>2. store[held[w]].work = "runnable"
      BY <1>0, <2>1, <2>4 DEF BudgetInv
    <3>3. JQ!QRetry(held[w])
      BY <2>2, <2>4, <3>1, <3>2
      DEF JQ!QRetry, retry, JQ!retry, exhausted, JQ!exhausted
    <3> QED BY <1>0, <3>3 DEF JQ!QNext
  <2> QED BY <2>3, <2>4
<1>5. ASSUME NEW j \in Jobs, Overwrite(j) PROVE FALSE
  BY <1>5 DEF Overwrite, overwrite
<1>6. ASSUME NEW w \in Workers,
             \/ StartDrain(w) \/ Lose(w) \/ Poll(w) \/ Get(w)
             \/ Dispatch(w) \/ Run(w) \/ Record(w)
      PROVE  FALSE
  BY <1>6
  DEF StartDrain, Lose, Poll, lmove, Get, Dispatch, Run, Record, redisVars
<1>7. CASE UNCHANGED vars
  BY <1>7 DEF vars
<1> QED
  BY <1>1, <1>2, <1>3, <1>4, <1>5, <1>6, <1>7 DEF Next, Step

\* The Redis queue under any number of workers, faults and overwritten keys,
\* seen through `get', is the job queue of the protocol: no attempt, outcome or
\* error of a job is ever lost or changed after the fact.
THEOREM RedisImplementsJobQueue == Spec => ImplementsJobQueue
<1>1. Init => JQ!QInit
  BY DEF Init, RedisInit, JQ!QInit, Absent, JQ!Absent
<1> QED
  BY <1>1, StepRefines, Invariants, PTL DEF Spec, ImplementsJobQueue, JQ!QSpec

-----------------------------------------------------------------------------
(* The counters.  What a worker is about to count is added to what has been *)
(* counted: that sum is what the queue bounds.                              *)

Succeeded == {j \in Jobs : store[j].status = "succeeded"}

Reporting(s) == {w \in Workers : pc[w] = "record" /\ snap[w].status = s}

CountInv ==
    /\ IsFiniteSet(Succeeded)
    /\ IsFiniteSet(Reporting("succeeded"))
    /\ IsFiniteSet(Reporting("failed"))
    /\ runs["succeeded"] + Cardinality(Reporting("succeeded")) <= Cardinality(Succeeded)
    /\ runs["dead_lettered"] + Cardinality(Reporting("failed")) <= Len(dead)

LEMMA CountInvInit == Init => CountInv
<1> SUFFICES ASSUME Init PROVE CountInv
  OBVIOUS
<1>1. Succeeded = {} /\ Reporting("succeeded") = {} /\ Reporting("failed") = {}
  BY DEF Init, RedisInit, Absent, Succeeded, Reporting
<1>2. runs["succeeded"] = 0 /\ runs["dead_lettered"] = 0 /\ Len(dead) = 0
  BY DEF Init, RedisInit, JobOutcome
<1> QED BY <1>1, <1>2, FS_EmptySet DEF CountInv

\* A step on which nobody reports, nothing is counted and nothing succeeds.
LEMMA CountInvFrame ==
    ASSUME CountInv,
           UNCHANGED <<runs, dead>>,
           Succeeded' = Succeeded,
           Reporting("succeeded")' = Reporting("succeeded"),
           Reporting("failed")' = Reporting("failed")
    PROVE  CountInv'
BY DEF CountInv

\* A step of a worker that is not reporting, before it or after it.
LEMMA QuietStep ==
    ASSUME CountInv, NEW w \in Workers,
           UNCHANGED <<runs, dead>>,
           pc[w] # "record", pc'[w] # "record",
           \A v \in Workers \ {w} : pc'[v] = pc[v] /\ snap'[v] = snap[v],
           \A j \in Jobs : store'[j].status = "succeeded" <=> store[j].status = "succeeded"
    PROVE  CountInv'
<1>1. Succeeded' = Succeeded
  BY DEF Succeeded
<1>2. ASSUME NEW s PROVE Reporting(s)' = Reporting(s)
  BY DEF Reporting
<1> QED BY <1>1, <1>2, CountInvFrame

\* What Record counts.
LEMMA OutcomeOf ==
    ASSUME NEW job
    PROVE  /\ job.status = "succeeded" => Outcome(job) = "succeeded"
           /\ job.status = "failed" => Outcome(job) = "dead_lettered"
           /\ job.status \notin {"succeeded", "failed"} => Outcome(job) = "retrying"
<1>1. CASE job.status = "succeeded"
  BY <1>1, Zenon DEF Outcome
<1>2. CASE job.status = "failed"
  <2>1. job.status # "succeeded"
    BY <1>2
  <2> QED BY <1>2, <2>1, Zenon DEF Outcome
<1>3. CASE job.status \notin {"succeeded", "failed"}
  BY <1>3, Zenon DEF Outcome
<1> QED BY <1>1, <1>2, <1>3

LEMMA CountInvNext == CustodyInv /\ CountInv /\ [Next]_vars => CountInv'
<1> SUFFICES ASSUME CustodyInv, CountInv, [Next]_vars PROVE CountInv'
  OBVIOUS
<1>0. /\ TypeInv /\ TypeOK /\ RedisTypeOK /\ HolderInv
      /\ \A j \in Jobs : store[j] \in Job \cup {Absent}
      /\ \A w \in Workers : held[w] \in Jobs
      /\ runs \in [JobOutcome -> Nat] /\ dead \in Seq(Jobs)
  BY DEF CustodyInv, TypeInv, TypeOK, RedisTypeOK
<1>a. /\ Cardinality(Succeeded) \in Nat
      /\ Cardinality(Reporting("succeeded")) \in Nat
      /\ Cardinality(Reporting("failed")) \in Nat
      /\ runs["succeeded"] \in Nat /\ runs["dead_lettered"] \in Nat /\ Len(dead) \in Nat
  BY <1>0, FS_CardinalityType DEF CountInv, JobOutcome
<1>1. ASSUME NEW j \in Jobs, Enqueue(j) PROVE CountInv'
  <2>1. PICK work \in Work, m \in 0..MaxAttempts :
            acceptable(m) /\ SET(j, build_job(work, m))
    BY <1>1 DEF Enqueue, enqueue
  <2>2. build_job(work, m).status = "pending"
    BY <2>1, MaxAttemptsAssumption, BuildJob
  <2>3. /\ store[j] = Absent
        /\ store' = [store EXCEPT ![j] = build_job(work, m)]
        /\ UNCHANGED <<pc, snap, runs, dead>>
    BY <1>1, <2>1 DEF Enqueue, enqueue, SET, workerVars
  <2>a. store[j].status = "absent"
    BY <2>3 DEF Absent
  <2>4. Succeeded' = Succeeded
    BY <1>0, <2>2, <2>3, <2>a DEF Succeeded, RedisTypeOK
  <2>5. ASSUME NEW s PROVE Reporting(s)' = Reporting(s)
    BY <2>3 DEF Reporting
  <2> QED BY <2>3, <2>4, <2>5, CountInvFrame
<1>2. ASSUME NEW j \in Jobs, Overwrite(j) PROVE CountInv'
  <2>1. UNCHANGED <<store, dead, pc, snap, runs>>
    BY <1>2 DEF Overwrite, overwrite
  <2> QED BY <2>1, CountInvFrame DEF Succeeded, Reporting
<1>3. ASSUME NEW w \in Workers, StartDrain(w) PROVE CountInv'
  <2>1. /\ pc[w] # "record" /\ pc' = [pc EXCEPT ![w] = "poll"]
        /\ UNCHANGED <<store, dead, snap, runs>>
    BY <1>3 DEF StartDrain, Stopped, redisVars
  <2> QED BY <1>0, <2>1, QuietStep DEF TypeOK
<1>4. ASSUME NEW w \in Workers, Poll(w) PROVE CountInv'
  <2>1. /\ pc[w] # "record"
        /\ \E p \in {"idle", "get"} : pc' = [pc EXCEPT ![w] = p]
        /\ UNCHANGED <<store, dead, snap, runs>>
    BY <1>4 DEF Poll, lmove, redisVars
  <2> QED BY <1>0, <2>1, QuietStep DEF TypeOK
<1>5. ASSUME NEW w \in Workers, Get(w) PROVE CountInv'
  <2>1. /\ pc[w] \in {"get", "complete_get", "fail_get"}
        /\ \E p \in {"write", "complete_exec", "fail_exec", "not_found"} :
              pc' = [pc EXCEPT ![w] = p]
        /\ \E s : snap' = [snap EXCEPT ![w] = s]
        /\ UNCHANGED <<store, dead, runs>>
    BY <1>5, AfterGet DEF Get, Forget, redisVars
  <2> QED BY <1>0, <2>1, QuietStep DEF TypeOK
<1>6. ASSUME NEW w \in Workers, Write(w) PROVE CountInv'
  <2> DEFINE j == held[w]
  <2>1. /\ pc[w] = "write" /\ pc' = [pc EXCEPT ![w] = "dispatch"]
        /\ snap' = [snap EXCEPT ![w] = running(snap[w])]
        /\ store' = [store EXCEPT ![j] = running(snap[w])]
        /\ UNCHANGED <<dead, runs>>
    BY <1>6 DEF Write, write, SET
  <2>2. j \in Jobs /\ store[j].status = "pending" /\ snap[w] \in Job
    BY <1>0, <2>1 DEF HolderInv, Holding, Taking, TypeInv
  <2>3. running(snap[w]).status = "running"
    BY <2>2, RunningCopy
  <2>4. \A k \in Jobs : store'[k].status = "succeeded" <=> store[k].status = "succeeded"
    BY <1>0, <2>1, <2>2, <2>3 DEF RedisTypeOK
  <2> QED BY <1>0, <2>1, <2>4, QuietStep DEF TypeOK
<1>7. ASSUME NEW w \in Workers, Dispatch(w) PROVE CountInv'
  <2>1. /\ pc[w] # "record"
        /\ \E p \in {"run", "fail_get"} : pc' = [pc EXCEPT ![w] = p]
        /\ UNCHANGED <<store, dead, snap, runs>>
    BY <1>7 DEF Dispatch, redisVars
  <2> QED BY <1>0, <2>1, QuietStep DEF TypeOK
<1>8. ASSUME NEW w \in Workers, Run(w) PROVE CountInv'
  <2>1. /\ pc[w] # "record"
        /\ \E p \in {"complete_get", "fail_get"} : pc' = [pc EXCEPT ![w] = p]
        /\ UNCHANGED <<store, dead, snap, runs>>
    BY <1>8 DEF Run, redisVars
  <2> QED BY <1>0, <2>1, QuietStep DEF TypeOK
<1>9. ASSUME NEW w \in Workers, Lose(w) PROVE CountInv'
  <2>1. /\ pc' = [pc EXCEPT ![w] = "lost"] /\ snap' = [snap EXCEPT ![w] = Absent]
        /\ UNCHANGED <<store, dead, runs>>
    BY <1>9 DEF Lose, Forget, redisVars
  <2>2. Succeeded' = Succeeded
    BY <2>1 DEF Succeeded
  <2>3. ASSUME NEW s PROVE Reporting(s)' = Reporting(s) \ {w}
    BY <1>0, <2>1 DEF Reporting, TypeOK
  <2>4. /\ IsFiniteSet(Reporting("succeeded")') /\ IsFiniteSet(Reporting("failed")')
        /\ Cardinality(Reporting("succeeded")') <= Cardinality(Reporting("succeeded"))
        /\ Cardinality(Reporting("failed")') <= Cardinality(Reporting("failed"))
        /\ Cardinality(Reporting("succeeded")') \in Nat
        /\ Cardinality(Reporting("failed")') \in Nat
    <3>1. ASSUME NEW S, IsFiniteSet(S)
          PROVE  /\ IsFiniteSet(S \ {w}) /\ Cardinality(S \ {w}) \in Nat
                 /\ Cardinality(S \ {w}) <= Cardinality(S)
      <4>1. Cardinality(S) \in Nat /\ IsFiniteSet(S \ {w}) /\ Cardinality(S \ {w}) \in Nat
        BY <3>1, FS_CardinalityType, FS_RemoveElement
      <4> QED BY <3>1, <4>1, FS_RemoveElement
    <3>2. IsFiniteSet(Reporting("succeeded")) /\ IsFiniteSet(Reporting("failed"))
      BY DEF CountInv
    <3>3. /\ Reporting("succeeded")' = Reporting("succeeded") \ {w}
          /\ Reporting("failed")' = Reporting("failed") \ {w}
      BY <2>3
    <3> QED BY <3>1, <3>2, <3>3
  <2> QED BY <1>a, <2>1, <2>2, <2>4 DEF CountInv
<1>10. ASSUME NEW w \in Workers, CompleteExec(w) PROVE CountInv'
  <2> DEFINE j == held[w]
  <2>1. /\ pc[w] = "complete_exec" /\ pc' = [pc EXCEPT ![w] = "record"]
        /\ snap' = [snap EXCEPT ![w] = done(snap[w])]
        /\ store' = [store EXCEPT ![j] = done(snap[w])]
        /\ UNCHANGED <<dead, runs>>
    BY <1>10 DEF CompleteExec, complete_exec, SET
  <2>2. j \in Jobs /\ store[j].status = "running" /\ snap[w] \in Job
    BY <1>0, <2>1 DEF HolderInv, Holding, Running, TypeInv
  <2>3. done(snap[w]).status = "succeeded"
    BY <2>2, DoneCopy
  <2>4. Succeeded' = Succeeded \cup {j} /\ j \notin Succeeded
    BY <1>0, <2>1, <2>2, <2>3 DEF Succeeded, RedisTypeOK
  <2>5. /\ Reporting("succeeded")' = Reporting("succeeded") \cup {w}
        /\ Reporting("failed")' = Reporting("failed")
        /\ w \notin Reporting("succeeded")
    BY <1>0, <2>1, <2>3 DEF Reporting, TypeOK
  <2>6. /\ IsFiniteSet(Succeeded') /\ IsFiniteSet(Reporting("succeeded")')
        /\ Cardinality(Succeeded') = Cardinality(Succeeded) + 1
        /\ Cardinality(Reporting("succeeded")') = Cardinality(Reporting("succeeded")) + 1
    BY <2>4, <2>5, FS_AddElement DEF CountInv
  <2> QED BY <1>a, <2>1, <2>5, <2>6 DEF CountInv
<1>11. ASSUME NEW w \in Workers, FailExec(w) PROVE CountInv'
  <2> DEFINE j == held[w]
  <2>1. /\ pc[w] = "fail_exec" /\ pc' = [pc EXCEPT ![w] = "record"]
        /\ snap' = [snap EXCEPT ![w] = store'[j]]
        /\ UNCHANGED runs
    BY <1>11 DEF FailExec
  <2>2. j \in Jobs /\ store[j].status = "running" /\ snap[w] \in Job
    BY <1>0, <2>1 DEF HolderInv, Holding, Running, TypeInv
  <2>3. CASE exhausted(snap[w]) \/ ~retryable[w]
    <3>1. store' = [store EXCEPT ![j] = dead_letter(snap[w])] /\ dead' = Append(dead, j)
      BY <1>11, <2>3 DEF FailExec, fail_exec, dead_exec, SET
    <3>2. dead_letter(snap[w]).status = "failed"
      BY <2>2, DeadLetterCopy
    <3>3. Succeeded' = Succeeded
      BY <1>0, <2>2, <3>1, <3>2 DEF Succeeded, RedisTypeOK
    <3>4. snap'[w].status = "failed" /\ \A v \in Workers \ {w} : snap'[v] = snap[v]
      BY <1>0, <2>1, <2>2, <3>1, <3>2 DEF RedisTypeOK, TypeOK
    <3>5. /\ Reporting("failed")' = Reporting("failed") \cup {w}
          /\ Reporting("succeeded")' = Reporting("succeeded")
          /\ w \notin Reporting("failed")
      BY <1>0, <2>1, <3>4 DEF Reporting, TypeOK
    <3>6. /\ IsFiniteSet(Reporting("failed")')
          /\ Cardinality(Reporting("failed")') = Cardinality(Reporting("failed")) + 1
      BY <3>5, FS_AddElement DEF CountInv
    <3>7. Len(dead') = Len(dead) + 1
      BY <1>0, <2>2, <3>1
    <3> QED BY <1>a, <2>1, <3>3, <3>5, <3>6, <3>7 DEF CountInv
  <2>4. CASE ~(exhausted(snap[w]) \/ ~retryable[w])
    <3>1. store' = [store EXCEPT ![j] = retry(snap[w])] /\ dead' = dead
      BY <1>11, <2>4 DEF FailExec, fail_exec, retry_exec, SET
    <3>2. retry(snap[w]).status = "pending"
      BY <2>2, RetryCopy
    <3>3. Succeeded' = Succeeded
      BY <1>0, <2>2, <3>1, <3>2 DEF Succeeded, RedisTypeOK
    <3>4. snap'[w].status = "pending" /\ \A v \in Workers \ {w} : snap'[v] = snap[v]
      BY <1>0, <2>1, <2>2, <3>1, <3>2 DEF RedisTypeOK, TypeOK
    <3>5. /\ Reporting("failed")' = Reporting("failed")
          /\ Reporting("succeeded")' = Reporting("succeeded")
      BY <1>0, <2>1, <3>4 DEF Reporting, TypeOK
    <3> QED BY <2>1, <3>1, <3>3, <3>5, CountInvFrame
  <2> QED BY <2>3, <2>4
<1>12. ASSUME NEW w \in Workers, Record(w) PROVE CountInv'
  <2> DEFINE o == Outcome(snap[w])
  <2>1. /\ pc[w] = "record"
        /\ \E p \in {"idle", "poll"} : pc' = [pc EXCEPT ![w] = p]
        /\ runs' = [runs EXCEPT ![o] = runs[o] + 1]
        /\ snap' = [snap EXCEPT ![w] = Absent]
        /\ UNCHANGED <<store, dead>>
    BY <1>12 DEF Record, Forget, redisVars
  <2>2. Succeeded' = Succeeded
    BY <2>1 DEF Succeeded
  <2>3. ASSUME NEW s PROVE Reporting(s)' = Reporting(s) \ {w}
    BY <1>0, <2>1 DEF Reporting, TypeOK
  <2>4. /\ w \in Reporting("succeeded") <=> snap[w].status = "succeeded"
        /\ w \in Reporting("failed") <=> snap[w].status = "failed"
    BY <2>1 DEF Reporting
  <2>5. /\ IsFiniteSet(Reporting("succeeded")') /\ IsFiniteSet(Reporting("failed")')
        /\ Cardinality(Reporting("succeeded")') = IF snap[w].status = "succeeded"
              THEN Cardinality(Reporting("succeeded")) - 1
              ELSE Cardinality(Reporting("succeeded"))
        /\ Cardinality(Reporting("failed")') = IF snap[w].status = "failed"
              THEN Cardinality(Reporting("failed")) - 1
              ELSE Cardinality(Reporting("failed"))
    BY <2>3, <2>4, FS_RemoveElement DEF CountInv
  <2>6. /\ o \in JobOutcome
        /\ o = "succeeded" <=> snap[w].status = "succeeded"
        /\ o = "dead_lettered" <=> snap[w].status = "failed"
    <3>1. \/ snap[w].status = "succeeded" \/ snap[w].status = "failed"
          \/ snap[w].status \notin {"succeeded", "failed"}
      OBVIOUS
    <3> QED BY <3>1, OutcomeOf DEF JobOutcome
  <2> HIDE DEF o
  <2>7. /\ runs'["succeeded"] = IF o = "succeeded" THEN runs["succeeded"] + 1
                                                   ELSE runs["succeeded"]
        /\ runs'["dead_lettered"] = IF o = "dead_lettered" THEN runs["dead_lettered"] + 1
                                                           ELSE runs["dead_lettered"]
    BY <1>0, <2>1, <2>6 DEF JobOutcome
  <2> QED BY <1>a, <2>1, <2>2, <2>5, <2>6, <2>7 DEF CountInv
<1>13. CASE UNCHANGED vars
  BY <1>13, CountInvFrame DEF vars, Succeeded, Reporting
<1> QED
  BY <1>1, <1>2, <1>3, <1>4, <1>5, <1>6, <1>7, <1>8, <1>9, <1>10, <1>11, <1>12, <1>13
  DEF Next, Step

\* No counter a worker reports is ahead of the queue, for any number of workers.
THEOREM CountersFollowTheQueue == Spec => []CountersNeverAhead
<1>1. CustodyInv /\ CountInv => CountersNeverAhead
  <2> SUFFICES ASSUME CustodyInv, CountInv PROVE CountersNeverAhead
    OBVIOUS
  <2>1. /\ Cardinality(Succeeded) \in Nat
        /\ Cardinality(Reporting("succeeded")) \in Nat
        /\ Cardinality(Reporting("failed")) \in Nat
        /\ runs["succeeded"] \in Nat /\ runs["dead_lettered"] \in Nat
        /\ Len(dead) \in Nat
    BY FS_CardinalityType DEF CountInv, CustodyInv, TypeInv, TypeOK, RedisTypeOK, JobOutcome
  <2> QED BY <2>1 DEF CountInv, CountersNeverAhead, Succeeded
<1>2. Spec => []CountInv
  BY CountInvInit, CountInvNext, Invariants, PTL DEF Spec
<1> QED BY <1>1, <1>2, Invariants, PTL

\* Every job is where it should be, and only there, under every interleaving
\* and every fault.
THEOREM PlacesAreExact == Spec => []EveryJobHasItsPlace
BY NoJobIsLost, CustodyIsSingle, DeadLettersAreExact, PTL DEF EveryJobHasItsPlace

\* Attempts, effects and counters agree.
THEOREM AccountsAgree == Spec => []AttemptsAreAccounted
BY AttemptsAreBounded, UnrunnableIsSettledAtOnce, SuccessIsEffective, CountersFollowTheQueue,
   PTL DEF AttemptsAreAccounted

=============================================================================
