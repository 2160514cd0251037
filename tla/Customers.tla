----------------------------- MODULE Customers -----------------------------
(***************************************************************************)
(* Requests and jobs that record something for a customer, creating the    *)
(* customer on first contact: CustomerService, TicketService and           *)
(* ConversationService.start (backend/app/services), over the sessions of  *)
(* backend/app/db/session.py.                                              *)
(*                                                                         *)
(* A step is the code between two awaits, and every await is a statement   *)
(* or a commit.  The database is external: transactions are READ COMMITTED *)
(* and an insert of a value another transaction has inserted under a       *)
(* unique constraint waits for that transaction to end.                    *)
(***************************************************************************)
EXTENDS Naturals

CONSTANTS
    Task,     \* what runs the services: requests, and workers
    Mailbox,  \* mailboxes people write from
    Blank,    \* an address of white space only
    Maker,    \* what a row is made for: a request, or a job
    Owner     \* the values of owner_subject

ASSUME BlankAssumption == Blank \notin Mailbox

VARIABLES
    pc,         \* the await each task is at
    ask,        \* what it has been asked to do
    staged,     \* the addresses it has inserted and not committed
    customers,  \* the committed customers, by address
    rows        \* the committed tickets and conversations

customerVars == <<pc, ask, staged, customers, rows>>

\* An address as it was typed: in lower case and trimmed, or not.
Address == [mailbox : Mailbox \cup {Blank}, canonical : BOOLEAN]

\* fits: the column takes the subject.  The schema of a request lets a blank
\* subject through, the payload of a job one of up to 500 characters, and the
\* table refuses both (models/ticket.py).
Ask == [kind : {"ticket", "conversation"},
        address : Address,
        fits : BOOLEAN,
        owner : Owner,
        maker : Maker,
        attempt : Nat]

Row == [kind : {"ticket", "conversation"},
        address : Address,
        owner : Owner,
        maker : Maker,
        attempt : Nat]

\* The awaits: _find, the insert in its SAVEPOINT, _find again after losing,
\* CustomerService's commit, the flush of the row and the commit after it.
Busy == {"find", "insert", "refind", "keep", "flush", "commit"}

CustomersTypeOK ==
    /\ pc \in [Task -> Busy \cup {"idle", "done", "failed", "dropped"}]
    /\ \A t \in Task : pc[t] # "idle" => ask[t] \in Ask
    /\ staged \in [Task -> SUBSET Address]
    /\ customers \subseteq Address
    /\ rows \subseteq Row

\* strip and lower.
normalise_email(address) == [address EXCEPT !.canonical = TRUE]

\* The CHECK constraints on customers.email.
legal(address) == address.canonical /\ address.mailbox # Blank

email(t) == normalise_email(ask[t].address)

to(t, where) == pc' = [pc EXCEPT ![t] = where]

\* _find: what the session sees is what is committed.
found(t) == email(t) \in customers

Find(t) ==
    /\ pc[t] = "find"
    /\ to(t, IF found(t) THEN "flush" ELSE "insert")
    /\ UNCHANGED <<ask, staged, customers, rows>>

\* CustomerService commits the customer on its own; TicketService goes on and
\* commits it together with the ticket.
created(t) == IF ask[t].kind = "conversation" THEN "keep" ELSE "flush"

\* MUTANT: without the SAVEPOINT the whole transaction is lost.
beaten_unguarded(t) == "failed"

\* Losing the race rolls back to the SAVEPOINT.
beaten(t) == "refind"

\* The insert, which waits for another that is not committed yet.
Insert(t) ==
    /\ pc[t] = "insert"
    /\ \A u \in Task \ {t} : email(t) \notin staged[u]
    /\ IF legal(email(t)) /\ ~ found(t)
       THEN /\ staged' = [staged EXCEPT ![t] = {email(t)}]
            /\ to(t, created(t))
       ELSE /\ to(t, beaten(t))
            /\ UNCHANGED staged
    /\ UNCHANGED <<ask, customers, rows>>

\* After IntegrityError: the winner is there.
Refind(t) ==
    /\ pc[t] = "refind"
    /\ found(t)
    /\ to(t, "flush")
    /\ UNCHANGED <<ask, staged, customers, rows>>

\* Everything the transaction has written becomes visible.
Publish(t, written) ==
    /\ customers' = customers \cup staged[t]
    /\ rows' = rows \cup written
    /\ staged' = [staged EXCEPT ![t] = {}]

\* CustomerService.get_or_create commits the customer it made.
Keep(t) ==
    /\ pc[t] = "keep"
    /\ Publish(t, {})
    /\ to(t, "flush")
    /\ UNCHANGED ask

\* TicketService.create and ConversationService.start add their row.
Flush(t) ==
    /\ pc[t] = "flush"
    /\ ask[t].fits
    /\ to(t, "commit")
    /\ UNCHANGED <<ask, staged, customers, rows>>

row(t) == [kind |-> ask[t].kind,
           address |-> email(t),
           owner |-> ask[t].owner,
           maker |-> ask[t].maker,
           attempt |-> ask[t].attempt]

\* What a task has done before it settles: the last commit.
Committed(t) ==
    /\ pc[t] = "commit"
    /\ Publish(t, {row(t)})

\* The database refuses: no winner behind a refused insert, or a row the
\* table does not take.
Refused(t) ==
    \/ pc[t] = "refind" /\ ~ found(t)
    \/ pc[t] = "flush" /\ ~ ask[t].fits

\* MUTANT: the session is neither rolled back nor closed.
RolledBack_never(t) == UNCHANGED <<staged, customers, rows>>

\* The transaction is gone.
RolledBack(t) ==
    /\ staged' = [staged EXCEPT ![t] = {}]
    /\ UNCHANGED <<customers, rows>>

\* A statement raises, or a commit does: its answer may be what was lost.
Interrupted(t) ==
    \/ pc[t] \in Busy /\ RolledBack(t)
    \/ pc[t] = "keep" /\ Publish(t, {})
    \/ pc[t] = "commit" /\ Publish(t, {row(t)})

Progress(t) == Find(t) \/ Insert(t) \/ Refind(t) \/ Keep(t) \/ Flush(t)

=============================================================================
