----------------------------- MODULE RateLimiter -----------------------------
(***************************************************************************)
(* The three limiters of backend/app/ratelimit: none, in the memory of one *)
(* process, and in Redis for several processes.  check is one step in      *)
(* memory; in Redis it is the TIME of the server and then a pipeline, and  *)
(* each of the two may fail.                                               *)
(***************************************************************************)
EXTENDS Callers, FiniteSets

CONSTANTS
    Limit,           \* rate_limit_requests
    WindowSeconds,   \* rate_limit_window_seconds
    MaxSkew          \* bound on how far a process's own clock is off, in ticks

\* _validate
ASSUME LimitAssumption == Limit \in Nat \ {0}
ASSUME WindowSecondsAssumption == WindowSeconds \in Nat \ {0}
ASSUME MaxSkewAssumption == MaxSkew \in Nat

VARIABLES
    limiter,        \* rate_limit_provider
    counters,       \* requests counted under (subject, window)
    expires,        \* when Redis drops that counter; 0 for a key without expiry
    checking,       \* where the check of a request is
    readAt,         \* the clock its window was derived from
    countedAt,      \* when it was counted; -1 while it is not
    retry_after,    \* retry_after_seconds, when it is refused
    local           \* windows some process derived from its own clock

limiterVars == <<limiter, counters, expires, checking, readAt,
                 countedAt, retry_after, local>>

Window == WindowSeconds * Second

\* int(now // window)
window(time) == time \div Window

Windows == 0..window(MaxTime + MaxSkew)

\* {ns}:{key}:{window}
counter_key(r, time) == <<subject[r], window(time)>>

CheckState == {"new", "count", "allowed", "refused", "failed"}

LimiterTypeOK ==
    /\ limiter \in {"none", "memory", "redis"}
    /\ counters \in [Subjects \X Windows -> Nat]
    /\ expires \in [Subjects \X Windows -> Nat]
    /\ checking \in [Requests -> CheckState]
    /\ readAt \in [Requests -> 0..(MaxTime + MaxSkew)]
    /\ countedAt \in [Requests -> -1..MaxTime]
    /\ retry_after \in [Requests -> 0..WindowSeconds]
    /\ local \in SUBSET Windows

LimiterInit ==
    /\ limiter \in {"none", "memory", "redis"}
    /\ counters = [k \in Subjects \X Windows |-> 0]
    /\ expires = [k \in Subjects \X Windows |-> 0]
    /\ checking = [r \in Requests |-> "new"]
    /\ readAt = [r \in Requests |-> 0]
    /\ countedAt = [r \in Requests |-> -1]
    /\ retry_after = [r \in Requests |-> 0]
    /\ local = {}

-----------------------------------------------------------------------------
(* The verdict. *)

\* MUTANT: one more than the limit gets through.
over_late(used) == used > Limit + 1

over(used) == used > Limit

\* MUTANT: one second more than the whole seconds left.
seconds_left_and_one(time) == (Window - (time % Window)) \div Second + 1

\* max(1, ceil(window_seconds - elapsed))
seconds_left(time) == (Window - (time % Window) + Second - 1) \div Second

\* The request has been counted as the used-th of its window.
decide(r, used, time) ==
    /\ countedAt' = [countedAt EXCEPT ![r] = now]
    /\ checking' = [checking EXCEPT ![r] = IF over(used) THEN "refused" ELSE "allowed"]
    /\ retry_after' = [retry_after EXCEPT ![r] = IF over(used) THEN seconds_left(time) ELSE 0]

\* Allowed without having been counted, or without knowing it was.
allow(r) ==
    /\ checking' = [checking EXCEPT ![r] = "allowed"]
    /\ UNCHANGED retry_after

-----------------------------------------------------------------------------
(* check *)

\* NullRateLimiter.check
CheckNothing(r) ==
    /\ limiter = "none"
    /\ checking[r] = "new"
    /\ allow(r)
    /\ UNCHANGED <<limiter, counters, expires, readAt, countedAt, local, faults>>

\* _prune: what is left under a key once windows that are over are dropped.
pruned(k) == IF k[2] < window(now) THEN 0 ELSE counters[k]

\* InMemoryRateLimiter.check
CheckInMemory(r) ==
    /\ limiter = "memory"
    /\ checking[r] = "new"
    /\ LET key  == counter_key(r, now)
           used == counters[key] + 1
       IN  /\ counters' = [k \in DOMAIN counters |-> IF k = key THEN used ELSE pruned(k)]
           /\ decide(r, used, now)
    /\ readAt' = [readAt EXCEPT ![r] = now]
    /\ UNCHANGED <<limiter, expires, local, faults>>

\* RedisRateLimiter._window_now: the server's clock, or when it cannot be
\* asked the process's own.
WindowNow(r) ==
    /\ limiter = "redis"
    /\ checking[r] = "new"
    /\ \/ /\ readAt' = [readAt EXCEPT ![r] = now]
          /\ UNCHANGED <<local, faults>>
       \/ /\ RedisFails
          /\ \E off \in -MaxSkew..MaxSkew :
                /\ now + off >= 0
                /\ readAt' = [readAt EXCEPT ![r] = now + off]
                /\ local' = local \cup {window(now + off)}
    /\ checking' = [checking EXCEPT ![r] = "count"]
    /\ UNCHANGED <<limiter, counters, expires, countedAt, retry_after>>

\* What the server still holds under a key.
stored(key) == IF expires[key] # 0 /\ now >= expires[key] THEN 0 ELSE counters[key]

\* MUTANT: the counter is never given an expiry.
INCR_EXPIRE_forever(key) ==
    /\ counters' = [counters EXCEPT ![key] = stored(key) + 1]
    /\ UNCHANGED expires

\* MULTI; INCR key; EXPIRE key window NX; EXEC
INCR_EXPIRE(key) ==
    /\ counters' = [counters EXCEPT ![key] = stored(key) + 1]
    /\ expires' = [expires EXCEPT ![key] =
                      IF stored(key) = 0 \/ @ = 0 THEN now + Window ELSE @]

\* RedisRateLimiter.check, from the pipeline on.  A pipeline that fails allows
\* the request, whether or not it was executed.
Count(r) ==
    /\ limiter = "redis"
    /\ checking[r] = "count"
    /\ LET key == counter_key(r, readAt[r]) IN
       \/ /\ INCR_EXPIRE(key)
          /\ decide(r, stored(key) + 1, readAt[r])
          /\ UNCHANGED faults
       \/ /\ RedisFails
          /\ INCR_EXPIRE(key) \/ UNCHANGED <<counters, expires>>
          /\ allow(r)
          /\ UNCHANGED countedAt
    /\ UNCHANGED <<limiter, readAt, local>>

Check(r) == CheckNothing(r) \/ CheckInMemory(r) \/ WindowNow(r) \/ Count(r)

-----------------------------------------------------------------------------
(* Properties of the limiters. *)

\* The requests of s that were counted in window w while it lasted.
CountedIn(s, w) ==
    {r \in Requests : /\ subject[r] = s
                      /\ countedAt[r] # -1
                      /\ window(readAt[r]) = w
                      /\ window(countedAt[r]) = w}

\* Of the requests of a subject counted in a window while it lasted, no more
\* than the limit are let through, however many processes count them and
\* however the TIME and the counting of different requests interleave.  Three
\* kinds of requests are not among them: those of a window some process derived
\* from its own clock, since a counter created early expires early; those
\* counted when the window whose TIME they read was over; and those let through
\* uncounted because the pipeline failed, which UncountedOnlyOnFailure bounds.
LimitPerWindow ==
    \A s \in Subjects, w \in Windows \ local :
        Cardinality({r \in CountedIn(s, w) : checking[r] \in {"allowed", "failed"}}) <= Limit

\* A request that is let through without having been counted costs a failure
\* of Redis of its own (redis_limiter.py:14: "A limiter that cannot reach Redis
\* allows the request").
\* With LimitPerWindow: of the requests whose TIME the server told and whose
\* window was not over when they were counted, a window lets through no more
\* than the limit and the number of failures together.
UncountedOnlyOnFailure ==
    limiter # "none" =>
        Cardinality({r \in Requests : checking[r] \in {"allowed", "failed"}
                                         /\ countedAt[r] = -1}) <= faults

\* Nobody is refused for what others did: whoever is refused is one too many
\* of the requests counted for this subject and window.
RefusedOnlyOverTheLimit ==
    \A r \in Requests :
        checking[r] = "refused" =>
            Cardinality({q \in Requests :
                            /\ subject[q] = subject[r]
                            /\ checking[q] \in {"allowed", "refused", "failed"}
                            /\ window(readAt[q]) = window(readAt[r])}) > Limit

\* A caller that is told to wait finds a new window when it comes back, and
\* is not made to wait a whole second longer than that.
RetryAfterReachesTheNextWindow ==
    \A r \in Requests :
        checking[r] = "refused" =>
            LET back == readAt[r] + retry_after[r] * Second
                next == (window(readAt[r]) + 1) * Window
            IN  back \in next..(next + Second - 1)

\* Counters do not pile up: in Redis each has an expiry, in memory a check
\* leaves none of an earlier window (redis_limiter.py:9, limiters.py:76).
NoCounterStays ==
    /\ limiter = "redis" =>
           \A k \in DOMAIN counters :
               counters[k] > 0 => expires[k] \in 1..(now + Window)
    /\ limiter = "memory" =>
           \A k, l \in DOMAIN counters :
               counters[k] > 0 /\ counters[l] > 0 => k[2] = l[2]

=============================================================================
