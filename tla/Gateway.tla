------------------------------- MODULE Gateway -------------------------------
(***************************************************************************)
(* How a page gets a WebSocket in a deployment that asks for keys: POST    *)
(* /ws/ticket is authenticated, rate limited and answered with a ticket    *)
(* (backend/app/api/v1/limits.py, realtime.py), and a handshake presents   *)
(* the ticket.  Requests and handshakes run concurrently, in several       *)
(* processes where Redis is used.                                          *)
(***************************************************************************)
EXTENDS RateLimiter, TicketStore

CONSTANTS
    Handshakes,  \* WebSocket handshakes
    None         \* no ticket, or one that was made up; no subject

ASSUME NoneAssumption == None \notin Requests /\ None \notin Subjects

VARIABLES
    issuedAt,    \* when a request was answered with a ticket; -1 if it was not
    handshake,   \* what became of a handshake
    presented,   \* the ticket it presented
    identity     \* the subject it was admitted as

gatewayVars == <<issuedAt, handshake, presented, identity>>
vars == <<now, subject, faults, limiter, counters, expires, checking, readAt, countedAt,
          retry_after, local, store, tickets, issuedAt, handshake, presented, identity>>

TypeOK ==
    /\ now \in 0..MaxTime
    /\ subject \in [Requests -> Subjects]
    /\ faults \in 0..MaxFaults
    /\ LimiterTypeOK
    /\ TicketTypeOK
    /\ issuedAt \in [Requests -> -1..MaxTime]
    /\ handshake \in [Handshakes -> {"new", "admitted", "refused"}]
    /\ presented \in [Handshakes -> Requests \cup {None}]
    /\ identity \in [Handshakes -> Subjects \cup {None}]

Init ==
    /\ now = 0
    /\ subject \in [Requests -> Subjects]
    /\ faults = 0
    /\ LimiterInit
    /\ TicketInit
    /\ issuedAt = [r \in Requests |-> -1]
    /\ handshake = [h \in Handshakes |-> "new"]
    /\ presented = [h \in Handshakes |-> None]
    /\ identity = [h \in Handshakes |-> None]

-----------------------------------------------------------------------------
(* POST /ws/ticket *)

\* require_identity and enforce_rate_limit, for a request with the key of its
\* subject.  (One without is refused before it is counted.)
EnforceRateLimit(r) ==
    /\ Check(r)
    /\ UNCHANGED <<now, subject, ticketVars, gatewayVars>>

\* issue_ticket, once the request is allowed; or it raises, and the request is
\* answered with an error.
IssueTicket(r) ==
    /\ checking[r] = "allowed"
    /\ issuedAt[r] = -1
    /\ \/ /\ issue(r, subject[r])
          /\ issuedAt' = [issuedAt EXCEPT ![r] = now]
          /\ UNCHANGED checking
       \/ /\ issue_fails(r, subject[r])
          /\ checking' = [checking EXCEPT ![r] = "failed"]
          /\ UNCHANGED issuedAt
    /\ UNCHANGED <<now, subject, limiter, counters, expires, readAt, countedAt,
                   retry_after, local, handshake, presented, identity>>

-----------------------------------------------------------------------------
(* The handshake. *)

refuse(h) ==
    /\ handshake' = [handshake EXCEPT ![h] = "refused"]
    /\ UNCHANGED identity

\* authenticate_socket: the ticket of any request that was answered with one,
\* at any time and any number of times, or none.
AuthenticateSocket(h) ==
    /\ handshake[h] = "new"
    /\ \/ /\ UNCHANGED <<presented, ticketVars, faults>>
          /\ refuse(h)
       \/ \E r \in {q \in Requests : issuedAt[q] # -1} :
             /\ presented' = [presented EXCEPT ![h] = r]
             /\ \/ /\ redeem(r)
                   /\ IF redeemed(r) = {}
                      THEN refuse(h)
                      ELSE /\ handshake' = [handshake EXCEPT ![h] = "admitted"]
                           /\ \E s \in redeemed(r) :
                                 identity' = [identity EXCEPT ![h] = s]
                \/ /\ redeem_fails(r)
                   /\ refuse(h)
    /\ UNCHANGED <<now, subject, limiterVars, issuedAt>>

Tick ==
    /\ now < MaxTime
    /\ now' = now + 1
    /\ UNCHANGED <<subject, faults, limiterVars, ticketVars, gatewayVars>>

Next ==
    \/ \E r \in Requests : EnforceRateLimit(r) \/ IssueTicket(r)
    \/ \E h \in Handshakes : AuthenticateSocket(h)
    \/ Tick

Spec == Init /\ [][Next]_vars

-----------------------------------------------------------------------------
(* Properties. *)

\* Two handshakes are never admitted with one ticket, however they race
\* (redis_tickets.py: GETDEL and not GET followed by DEL).
TicketsAreSpentOnce ==
    \A g, h \in Handshakes :
        handshake[g] = "admitted" /\ handshake[h] = "admitted"
            /\ presented[g] = presented[h] => g = h

\* The limit, from both sides: of the requests a window counts while it lasts,
\* no more than the limit are let through, whoever counts; one let through
\* uncounted costs a failure of Redis; a request is refused only when its window
\* is full; and the answer names a moment from which the next window is open.
LimitIsKept ==
    /\ LimitPerWindow
    /\ UncountedOnlyOnFailure
    /\ RefusedOnlyOverTheLimit
    /\ RetryAfterReachesTheNextWindow

\* What is kept for callers goes away without them: counters have an expiry,
\* and the tickets in a store were issued within one lifetime of each other
\* (the one in memory drops expired ones when it issues the next).
NothingPilesUp == NoCounterStays /\ TicketsDoNotPileUp

\* Whoever is admitted is the subject a ticket was issued to, within the life
\* of the ticket, for a request that was authenticated and within the limit;
\* and no other handshake was, or is at that moment, admitted with it
\* (redis_tickets.py: GETDEL and not GET followed by DEL).
TicketsAdmitOnce ==
    [][\A h \in Handshakes :
           handshake[h] # "admitted" /\ handshake'[h] = "admitted" =>
               \E r \in Requests :
                   /\ presented'[h] = r
                   /\ \A g \in Handshakes \ {h} :
                          handshake'[g] = "admitted" => presented'[g] # r
                   /\ identity'[h] = subject[r]
                   /\ checking[r] = "allowed"
                   /\ now \in issuedAt[r]..(issuedAt[r] + Ttl - 1)]_vars

=============================================================================
