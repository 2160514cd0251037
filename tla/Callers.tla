------------------------------- MODULE Callers -------------------------------
(***************************************************************************)
(* Requests, the subjects they are made for, and time, in ticks: the clock *)
(* of the Redis server, or of the one process where memory is used         *)
(* instead.  A second has several ticks, since the code computes with      *)
(* fractions of a second.                                                  *)
(***************************************************************************)
EXTENDS Integers

CONSTANTS
    Subjects,  \* principals, as RequestIdentity.subject names them
    Requests,  \* HTTP requests
    Second,    \* ticks in a second
    MaxTime,   \* bound on the time
    MaxFaults  \* bound on failing calls to Redis

ASSUME SecondAssumption == Second \in Nat \ {0}
ASSUME MaxTimeAssumption == MaxTime \in Nat
ASSUME MaxFaultsAssumption == MaxFaults \in Nat

VARIABLES
    now,      \* the time
    subject,  \* whose request each one is
    faults    \* failing calls so far

\* A call to Redis raises RedisError or OSError.
RedisFails ==
    /\ faults < MaxFaults
    /\ faults' = faults + 1

=============================================================================
