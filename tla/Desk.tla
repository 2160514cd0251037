-------------------------------- MODULE Desk --------------------------------
(***************************************************************************)
(* The support desk: HTTP requests that raise tickets and open             *)
(* conversations, a worker that turns queued messages into tickets         *)
(* (CreateTicketHandler, backend/app/jobs/domain.py) from the in-memory    *)
(* queue, and reviewers, on one database.                                  *)
(*                                                                         *)
(* The handlers a worker dispatches to are built once, over services built *)
(* over a session (build_handler_registry), and nothing below the worker   *)
(* rolls that session back: after a failed statement every later one is    *)
(* refused by the session (PendingRollbackError).  `shared' says whether   *)
(* whoever assembles the worker keeps one session for all jobs, as the     *)
(* repository's own assembly does, or replaces it for each.                *)
(***************************************************************************)
EXTENDS Customers, Ownership, MemoryJobQueue, ReviewDesk, FiniteSets

CONSTANTS
    Request,      \* HTTP requests
    Worker,       \* JobWorker objects
    Shifts,       \* bound on who acts together: sets of actors
    MaxFaults,    \* bound on failing statements and commits
    MaxRestarts   \* bound on restarts of the process

ASSUME DeskAssumption ==
    /\ Task = Request \cup Worker
    /\ Request \cap Worker = {}
    /\ Maker = Request \cup Jobs
    /\ Request \cap Jobs = {}
    /\ Owner = Subject \cup {NoOwner}
    /\ Jobs # {} /\ Subject # {}
    /\ MaxFaults \in Nat
    /\ MaxRestarts \in Nat

VARIABLES
    shift,     \* the requests, workers and reviewers that act
    payload,   \* the payload of a queued job
    held,      \* the job a worker runs
    shared,    \* one session for all the jobs of a worker
    broken,    \* workers whose session waits to be rolled back
    origin,    \* of every request: its subject, and the authorizer it met
    struck,    \* requests that a failing statement or commit has hit
    blamed,    \* of every job: the attempts the database itself has failed
    lost,      \* jobs that went with the process that held them
    faults,    \* failures so far
    restarts   \* restarts so far

deskVars == <<shift, payload, held, shared, broken, origin, struck, blamed, lost, faults, restarts>>
vars == <<pc, ask, staged, customers, rows, authorizer, pending, jobs, dead,
          status, desk, handed, work,
          shift, payload, held, shared, broken, origin, struck, blamed, lost, faults,
          restarts>>

Unasked == [kind |-> "none"]

TypeOK ==
    /\ CustomersTypeOK
    /\ QueueTypeOK
    /\ ReviewTypeOK
    /\ authorizer \in Authorizers
    /\ shift \in Shifts
    /\ payload \in [Jobs -> [address : Address, fits : BOOLEAN]]
    /\ held \in [Worker -> Jobs]
    /\ shared \in BOOLEAN
    /\ broken \subseteq Worker
    /\ origin \in [Request -> [subject : Subject, under : Authorizers]]
    /\ struck \subseteq Request
    /\ blamed \in [Jobs -> Nat]
    /\ lost \subseteq Jobs
    /\ faults \in 0..MaxFaults
    /\ restarts \in 0..MaxRestarts

Init ==
    /\ pc = [t \in Task |-> "idle"]
    /\ ask = [t \in Task |-> Unasked]
    /\ staged = [t \in Task |-> {}]
    /\ customers = {}
    /\ rows = {}
    /\ EmptyQueue
    /\ ReviewInit
    /\ authorizer \in Authorizers
    /\ shift \in Shifts
    /\ shared \in BOOLEAN
    /\ payload = [j \in Jobs |-> CHOOSE p \in [address : Address, fits : BOOLEAN] : TRUE]
    /\ held = [w \in Worker |-> CHOOSE j \in Jobs : TRUE]
    /\ broken = {}
    /\ origin = [q \in Request |-> CHOOSE o \in [subject : Subject, under : Authorizers] : TRUE]
    /\ struck = {}
    /\ blamed = [j \in Jobs |-> 0]
    /\ lost = {}
    /\ faults = 0
    /\ restarts = 0

-----------------------------------------------------------------------------
(* Requests. *)

\* POST /tickets or POST /conversations.  The schemas refuse an address that
\* is none; a subject of white space passes.
Arrive(q, s) ==
    /\ pc[q] = "idle" /\ q \in shift
    /\ \E kind \in {"ticket", "conversation"}, m \in Mailbox, canonical, fits \in BOOLEAN :
          /\ kind = "conversation" => fits
          /\ ask' = [ask EXCEPT ![q] = [kind |-> kind,
                                        address |-> [mailbox |-> m, canonical |-> canonical],
                                        fits |-> fits,
                                        owner |-> owner_for(s),
                                        maker |-> q,
                                        attempt |-> 1]]
    /\ to(q, "find")
    /\ origin' = [origin EXCEPT ![q] = [subject |-> s, under |-> authorizer]]
    /\ UNCHANGED <<staged, customers, rows, authorizer, queueVars, reviewVars, shift, payload, held,
                   shared, broken, struck, blamed, lost, faults, restarts>>

\* A step of a request or of a handler that does not end it.  A session that
\* waits for its rollback runs no statement.
Step(t) ==
    /\ t \notin broken
    /\ Progress(t)
    /\ UNCHANGED <<authorizer, queueVars, reviewVars, deskVars>>

\* The request answers 201.
Answer(q) ==
    /\ Committed(q)
    /\ to(q, "done")
    /\ UNCHANGED <<ask, authorizer, queueVars, reviewVars, deskVars>>

\* The request raises; get_db_session rolls back and closes its session.
Raise(q) ==
    /\ Refused(q)
    /\ RolledBack(q)
    /\ to(q, "failed")
    /\ UNCHANGED <<ask, authorizer, queueVars, reviewVars, deskVars>>

-----------------------------------------------------------------------------
(* Jobs. *)

\* An inbound channel queues a message.  The payload takes any three
\* characters for an address.
Enqueue(j) ==
    /\ j \notin lost /\ Worker \cap shift # {}
    /\ \E max_attempts \in 0..MaxAttempts : enqueue(j, max_attempts)
    /\ \E m \in Mailbox \cup {Blank}, fits \in BOOLEAN :
          payload' = [payload EXCEPT ![j] = [address |-> [mailbox |-> m, canonical |-> TRUE],
                                             fits |-> fits]]
    /\ UNCHANGED <<customerVars, authorizer, reviewVars, shift, held, shared, broken, origin,
                   struck, blamed, lost, faults, restarts>>

\* The worker takes a job and calls the handler: a ticket nobody owns.
Take(w, j) ==
    /\ pc[w] = "idle" /\ w \in shift
    /\ dequeue(j)
    /\ held' = [held EXCEPT ![w] = j]
    /\ ask' = [ask EXCEPT ![w] = [kind |-> "ticket",
                                  address |-> payload[j].address,
                                  fits |-> payload[j].fits,
                                  owner |-> NoOwner,
                                  maker |-> j,
                                  attempt |-> jobs[j].attempts + 1]]
    /\ to(w, "find")
    /\ broken' = IF shared THEN broken ELSE broken \ {w}
    /\ UNCHANGED <<staged, customers, rows, authorizer, reviewVars, shift, payload, shared, origin,
                   struck, blamed, lost, faults, restarts>>

\* The handler returns and the job is complete.
Complete(w) ==
    /\ Committed(w)
    /\ complete(held[w])
    /\ to(w, "idle")
    /\ UNCHANGED <<ask, authorizer, reviewVars, deskVars>>

\* The handler turns SQLAlchemyError into a JobError another attempt may
\* follow, and leaves the session as it is.
HandlerFails(w) ==
    /\ fail(held[w], TRUE)
    /\ to(w, "idle")
    /\ broken' = broken \cup {w}

\* The database refuses the row, or the session refuses the statement.
Reject(w) ==
    /\ \/ Refused(w)
       \/ w \in broken /\ pc[w] \in Busy
    /\ RolledBack(w)
    /\ HandlerFails(w)
    /\ UNCHANGED <<ask, authorizer, reviewVars, shift, payload, held, shared, origin, struck, blamed,
                   lost, faults, restarts>>

-----------------------------------------------------------------------------
(* Failures. *)

Counted ==
    /\ faults < MaxFaults
    /\ faults' = faults + 1

\* A statement or a commit of a request fails: a lost connection, a timeout.
RequestFault(q) ==
    /\ Counted
    /\ Interrupted(q)
    /\ to(q, "failed")
    /\ struck' = struck \cup {q}
    /\ UNCHANGED <<ask, authorizer, queueVars, reviewVars, shift, payload, held, shared, broken, origin,
                   blamed, lost, restarts>>

\* The same for a job; the deadline of the worker is one of the causes.
JobFault(w) ==
    /\ Counted
    /\ w \notin broken
    /\ Interrupted(w)
    /\ HandlerFails(w)
    /\ blamed' = [blamed EXCEPT ![held[w]] = @ + 1]
    /\ UNCHANGED <<ask, authorizer, reviewVars, shift, payload, held, shared, origin, struck, lost,
                   restarts>>

\* The call of a reviewer fails.
DeskFault(r) ==
    /\ Counted
    /\ ReviewFault(r)
    /\ UNCHANGED <<customerVars, authorizer, queueVars, shift, payload, held, shared, broken,
                   origin, struck, blamed, lost, restarts>>

\* The process ends, and with it every transaction under way and the queue.
\* Another starts, perhaps configured with the other authorizer.
Restart(a) ==
    /\ restarts < MaxRestarts
    /\ restarts' = restarts + 1
    /\ authorizer' = a
    /\ pc' = [t \in Task |-> IF pc[t] \notin Busy THEN pc[t]
                             ELSE IF t \in Worker THEN "idle" ELSE "dropped"]
    /\ staged' = [t \in Task |-> {}]
    /\ EmptiedQueue
    /\ lost' = lost \cup {j \in Jobs : known(j)}
    /\ broken' = {}
    /\ desk' = [r \in Reviewer |-> [desk[r] EXCEPT !.at = Idle]]
    /\ UNCHANGED <<ask, customers, rows, status, handed, work, shift, payload, held, shared, origin,
                   struck, blamed, faults>>

-----------------------------------------------------------------------------

\* An item is queued, or a reviewer moves.
Review ==
    /\ \/ Reviewer \cap shift # {} /\ \E i \in Item : Escalated(i)
       \/ \E r \in Reviewer \cap shift : ReviewStep(r) \/ (\E i \in Item : Begin(r, i))
    /\ UNCHANGED <<customerVars, authorizer, queueVars, deskVars>>

Next ==
    \/ \E q \in Request : \/ \E s \in Subject : Arrive(q, s)
                          \/ Answer(q)
                          \/ Raise(q)
                          \/ RequestFault(q)
    \/ \E t \in Task : Step(t)
    \/ \E j \in Jobs : Enqueue(j)
    \/ \E w \in Worker : \/ \E j \in Jobs : Take(w, j)
                         \/ Complete(w)
                         \/ Reject(w)
                         \/ JobFault(w)
    \/ \E r \in Reviewer : DeskFault(r)
    \/ \E a \in Authorizers : Restart(a)
    \/ Review

Spec == Init /\ [][Next]_vars

\* The event loop runs every task that can run, the database answers, the
\* worker is drained again and again.
Fairness ==
    /\ \A q \in Request : WF_vars(Step(q) \/ Answer(q) \/ Raise(q))
    /\ \A w \in Worker : WF_vars(Step(w) \/ Complete(w) \/ Reject(w) \/ \E j \in Jobs : Take(w, j))
    /\ \A r \in Reviewer : WF_vars(Review /\ ReviewStep(r))

FairSpec == Spec /\ Fairness

-----------------------------------------------------------------------------
(* Properties. *)

\* A customer is one row, however an address is spelled and whoever makes it.
OneCustomerPerMailbox ==
    \A c, d \in customers : c.mailbox = d.mailbox => c = d

\* What is recorded belongs to a customer who is recorded.
NobodysRows == {x \in rows : x.address \notin customers}

Requested(t) == [kind |-> ask[t].kind, maker |-> ask[t].maker, owner |-> ask[t].owner]

Stored(x) == [kind |-> x.kind, maker |-> x.maker, owner |-> x.owner]

\* The tables take the ticket of job j.
Acceptable(j) == payload[j].fits /\ payload[j].address.mailbox # Blank

\* First contacts from one address race (services/customer.py:46-55,
\* services/ticket.py:132-142), and statements and commits fail.  Whatever the
\* order: one customer per mailbox; no row without its customer; a request
\* that was answered is on record once; one that failed was hit by a failure
\* of the database or asked for a row the table refuses, never by another
\* request; and a job that is done has its ticket, a job never more tickets
\* than attempts; and where every job has a session of its own, a job the tables
\* accept is given up only when the database failed each of its attempts.
RequestsAreHonoured ==
    /\ OneCustomerPerMailbox
    /\ NobodysRows = {}
    /\ \A q \in Request :
          /\ pc[q] = "done" => {Stored(x) : x \in {y \in rows : y.maker = q}} = {Requested(q)}
          /\ pc[q] = "failed" => q \in struck \/ ~ ask[q].fits
    /\ \A j \in Jobs \ lost :
          LET tickets == {x \in rows : x.maker = j}
          IN /\ Cardinality(tickets) <= jobs[j].attempts
             /\ jobs[j].status = "succeeded" =>
                    \E x \in tickets : x.attempt = jobs[j].attempts
             /\ jobs[j].status = "failed" /\ Acceptable(j) =>
                    blamed[j] = jobs[j].attempts \/ shared

\* Whether x is what subject s recorded itself under scoping.
Own(s, x) == x.maker \in Request /\ origin[x.maker] = [subject |-> s, under |-> "subject"]

\* While reads are scoped, the routes that read tickets and conversations show
\* a subject what it recorded itself under scoping, in a listing as by its id,
\* and nothing else: not what came in as a job, nor what anybody, that subject
\* included, recorded while the deployment was open (auth/authorization.py:
\* 36-44, 85-88; services/ticket.py:84,111).  The assistant is the exception:
\* its agent's tools find every ticket, whoever asks (tools/domain.py:41,86),
\* against docs/architecture.md:911-914.
ReadsAreOwned ==
    authorizer = "subject" =>
        \A s \in Subject : \A x \in rows :
            /\ readable(x, scope_for(s)) <=> Own(s, x)
            /\ listed(x, scope_for(s)) <=> x.kind = "ticket" /\ Own(s, x)
            /\ x.kind = "ticket" => readable(x, tool_scope) /\ listed(x, tool_scope)

\* Every request ends, though inserts wait for each other; every queued job is
\* done or dead-lettered, or went with its process; every call of a reviewer
\* ends.
EveryTaskEnds ==
    /\ \A q \in Request : pc[q] \in Busy ~> pc[q] \in {"done", "failed", "dropped"}
    /\ \A j \in Jobs : known(j) ~> (j \in lost \/ terminal(jobs[j]))
    /\ \A r \in Reviewer : desk[r].at # Idle ~> desk[r].at = Idle

=============================================================================
