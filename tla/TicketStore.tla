----------------------------- MODULE TicketStore -----------------------------
(***************************************************************************)
(* The two stores of handshake tickets: backend/app/auth/tickets.py in     *)
(* memory and backend/app/auth/redis_tickets.py.  A ticket is random and   *)
(* never generated twice, so it is named after the request that minted it. *)
(***************************************************************************)
EXTENDS Callers

CONSTANT
    TtlSeconds  \* realtime_ticket_ttl_seconds

ASSUME TtlSecondsAssumption == TtlSeconds \in Nat \ {0}

VARIABLES
    store,    \* realtime_ticket_store
    tickets   \* what the store holds

ticketVars == <<store, tickets>>

Ttl == TtlSeconds * Second

Ticket == [id : Requests, subject : Subjects, expires : Nat]

TicketTypeOK ==
    /\ store \in {"memory", "redis"}
    /\ tickets \in SUBSET Ticket

TicketInit ==
    /\ store \in {"memory", "redis"}
    /\ tickets = {}

live(t) == now < t.expires

\* What is left before a ticket is added: memory is pruned, and Redis has
\* dropped what expired.
kept == {t \in tickets : live(t)}

SET_EX(r, s) ==
    tickets' = kept \cup {[id |-> r, subject |-> s, expires |-> now + Ttl]}

\* issue: the ticket is returned to the caller.
issue(r, s) ==
    /\ SET_EX(r, s)
    /\ UNCHANGED <<store, faults>>

\* issue raises; the server may have stored the ticket.
issue_fails(r, s) ==
    /\ store = "redis"
    /\ RedisFails
    /\ SET_EX(r, s) \/ UNCHANGED tickets
    /\ UNCHANGED store

\* The subjects redeem(id) returns: one or none.
redeemed(id) == {t.subject : t \in {u \in tickets : u.id = id /\ live(u)}}

\* MUTANT: GET, without DEL.
GETDEL_keeping(id) == UNCHANGED tickets

\* pop, or GETDEL: the ticket is destroyed by being looked up.
GETDEL(id) == tickets' = {t \in tickets : t.id # id}

redeem(id) ==
    /\ GETDEL(id)
    /\ UNCHANGED <<store, faults>>

\* redeem returns None because Redis failed, before or after the deletion.
redeem_fails(id) ==
    /\ store = "redis"
    /\ RedisFails
    /\ GETDEL(id) \/ UNCHANGED tickets
    /\ UNCHANGED store

\* A ticket nobody redeems does not stay: what a store holds was issued within
\* one lifetime (tickets.py:111: "a slow memory leak").
TicketsDoNotPileUp ==
    \A t, u \in tickets : t.expires < u.expires + Ttl

=============================================================================
