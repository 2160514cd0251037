---------------------------- MODULE GatewayProofs ----------------------------
(***************************************************************************)
(* Tickets are single-use, bound to their subject and short-lived, and the *)
(* limit holds in every window, for any number of requests, handshakes and *)
(* failures of Redis, and any length of a second and of a window.          *)
(***************************************************************************)
EXTENDS Gateway, FiniteSetTheorems, TLAPS

LEMMA TtlIsPositive == Ttl \in Nat /\ Ttl > 0
BY SecondAssumption, TtlSecondsAssumption DEF Ttl

\* The types the argument needs.
Types ==
    /\ now \in Nat
    /\ subject \in [Requests -> Subjects]
    /\ checking \in [Requests -> CheckState]
    /\ tickets \in SUBSET Ticket
    /\ issuedAt \in [Requests -> Int]
    /\ handshake \in [Handshakes -> {"new", "admitted", "refused"}]
    /\ presented \in [Handshakes -> Requests \cup {None}]
    /\ identity \in [Handshakes -> Subjects \cup {None}]

\* What the store holds, against what callers were answered.  A request that
\* has not been answered has no ticket in the store, so that it cannot revive
\* one; a ticket that admitted a handshake is gone.
StoreInv ==
    /\ \A r \in Requests :
           issuedAt[r] # -1 =>
               checking[r] = "allowed" /\ issuedAt[r] \in Nat /\ issuedAt[r] <= now
    /\ \A t \in tickets :
           /\ t.subject = subject[t.id]
           /\ t.expires <= now + Ttl
           /\ \/ checking[t.id] = "failed"
              \/ issuedAt[t.id] # -1 /\ t.expires = issuedAt[t.id] + Ttl
    /\ \A h \in Handshakes :
           handshake[h] = "admitted" =>
               /\ presented[h] \in Requests
               /\ issuedAt[presented[h]] # -1
               /\ \A t \in tickets : t.id # presented[h]

Inv == Types /\ StoreInv /\ TicketsAreSpentOnce /\ TicketsDoNotPileUp

LEMMA InvInit == Init => Inv
<1> SUFFICES ASSUME Init PROVE Inv
  OBVIOUS
<1>1. Types
  BY DEF Init, LimiterInit, TicketInit, Types, CheckState
<1>2. StoreInv
  BY DEF Init, LimiterInit, TicketInit, StoreInv
<1>3. TicketsAreSpentOnce
  BY DEF Init, TicketsAreSpentOnce
<1>4. TicketsDoNotPileUp
  BY DEF Init, TicketInit, TicketsDoNotPileUp
<1> QED
  BY <1>1, <1>2, <1>3, <1>4 DEF Inv

\* A check changes no ticket and starts before there is one.
LEMMA CheckStep ==
    ASSUME Inv, NEW r \in Requests, EnforceRateLimit(r)
    PROVE  Inv'
<1>1. /\ UNCHANGED <<now, subject, ticketVars, gatewayVars>>
      /\ checking[r] \in {"new", "count"}
      /\ \E c \in {"count", "allowed", "refused"} :
             checking' = [checking EXCEPT ![r] = c]
  <2>1. CASE CheckNothing(r)
    BY <2>1 DEF EnforceRateLimit, CheckNothing, allow
  <2>2. CASE CheckInMemory(r)
    BY <2>2 DEF EnforceRateLimit, CheckInMemory, decide
  <2>3. CASE WindowNow(r)
    BY <2>3 DEF EnforceRateLimit, WindowNow
  <2>4. CASE Count(r)
    BY <2>4 DEF EnforceRateLimit, Count, decide, allow
  <2> QED
    BY <2>1, <2>2, <2>3, <2>4 DEF EnforceRateLimit, Check
<1>2. Types'
  BY <1>1 DEF Inv, Types, ticketVars, gatewayVars, CheckState
<1>3. issuedAt[r] = -1 /\ \A t \in tickets : t.id # r
  BY <1>1 DEF Inv, StoreInv
<1>4. StoreInv'
  BY <1>1, <1>3 DEF Inv, Types, StoreInv, ticketVars, gatewayVars, Ticket
<1>5. TicketsAreSpentOnce' /\ TicketsDoNotPileUp'
  BY <1>1 DEF Inv, TicketsAreSpentOnce, TicketsDoNotPileUp, ticketVars, gatewayVars
<1> QED
  BY <1>2, <1>4, <1>5 DEF Inv

\* SET_EX adds one live ticket to live ones.
LEMMA SetStep ==
    ASSUME Inv, NEW r \in Requests, SET_EX(r, subject[r]), UNCHANGED now
    PROVE  /\ tickets' \in SUBSET Ticket
           /\ TicketsDoNotPileUp'
           /\ \A t \in tickets' :
                  \/ t \in tickets
                  \/ t = [id |-> r, subject |-> subject[r], expires |-> now + Ttl]
<1> DEFINE new == [id |-> r, subject |-> subject[r], expires |-> now + Ttl]
<1>1. new \in Ticket
  BY TtlIsPositive DEF Inv, Types, Ticket
<1>2. tickets' = kept \cup {new}
  BY DEF SET_EX
<1>3. \A t \in kept : t \in tickets /\ t \in Ticket /\ now < t.expires
  BY DEF kept, live, Inv, Types
<1>4. tickets' \in SUBSET Ticket
  BY <1>1, <1>2, <1>3
<1>5. ASSUME NEW t \in tickets', NEW u \in tickets'
      PROVE  t.expires < u.expires + Ttl
  <2>1. t.expires <= now + Ttl /\ now < u.expires
    BY <1>2, <1>3, TtlIsPositive DEF Inv, Types, StoreInv
  <2>2. t.expires \in Nat /\ u.expires \in Nat /\ now \in Nat
    BY <1>4 DEF Ticket, Inv, Types
  <2> QED
    BY <2>1, <2>2, TtlIsPositive
<1>6. TicketsDoNotPileUp'
  BY <1>5 DEF TicketsDoNotPileUp, Ttl
<1> QED
  BY <1>2, <1>3, <1>4, <1>6

LEMMA IssueStep ==
    ASSUME Inv, NEW r \in Requests, IssueTicket(r)
    PROVE  Inv'
<1> USE TtlIsPositive
<1>1. /\ checking[r] = "allowed"
      /\ issuedAt[r] = -1
      /\ UNCHANGED <<now, subject, handshake, presented, identity>>
  BY DEF IssueTicket
<1>2. \A t \in tickets : t.id # r
  BY <1>1 DEF Inv, StoreInv
<1>3. TicketsAreSpentOnce'
  BY <1>1 DEF Inv, TicketsAreSpentOnce
<1>4. CASE issue(r, subject[r]) /\ issuedAt' = [issuedAt EXCEPT ![r] = now] /\ UNCHANGED checking
  <2>1. /\ tickets' \in SUBSET Ticket
        /\ TicketsDoNotPileUp'
        /\ \A t \in tickets' :
               \/ t \in tickets
               \/ t = [id |-> r, subject |-> subject[r], expires |-> now + Ttl]
    BY <1>1, <1>4, SetStep DEF issue
  <2>2. Types'
    BY <1>1, <1>4, <2>1 DEF Inv, Types
  <2>3. StoreInv'
    BY <1>1, <1>2, <1>4, <2>1 DEF Inv, Types, StoreInv, Ticket
  <2> QED
    BY <1>3, <2>1, <2>2, <2>3 DEF Inv
<1>5. CASE /\ issue_fails(r, subject[r])
           /\ checking' = [checking EXCEPT ![r] = "failed"]
           /\ UNCHANGED issuedAt
  <2>1. /\ tickets' \in SUBSET Ticket
        /\ TicketsDoNotPileUp'
        /\ \A t \in tickets' :
               \/ t \in tickets
               \/ t = [id |-> r, subject |-> subject[r], expires |-> now + Ttl]
    <3>1. CASE SET_EX(r, subject[r])
      BY <1>1, <3>1, SetStep
    <3>2. CASE UNCHANGED tickets
      BY <3>2 DEF Inv, Types, TicketsDoNotPileUp
    <3> QED
      BY <1>5, <3>1, <3>2 DEF issue_fails
  <2>2. Types'
    BY <1>1, <1>5, <2>1 DEF Inv, Types, CheckState
  <2>3. StoreInv'
    BY <1>1, <1>2, <1>5, <2>1 DEF Inv, Types, StoreInv, Ticket
  <2> QED
    BY <1>3, <2>1, <2>2, <2>3 DEF Inv
<1> QED
  BY <1>4, <1>5 DEF IssueTicket

LEMMA SocketStep ==
    ASSUME Inv, NEW h \in Handshakes, AuthenticateSocket(h)
    PROVE  Inv'
<1>1. /\ handshake[h] = "new"
      /\ UNCHANGED <<now, subject, checking, issuedAt>>
  BY DEF AuthenticateSocket, limiterVars
<1>2. ASSUME handshake' = [handshake EXCEPT ![h] = "refused"], UNCHANGED identity,
             tickets' \subseteq tickets,
             presented' = presented \/ \E r \in Requests :
                 presented' = [presented EXCEPT ![h] = r]
      PROVE  Inv'
  <2>1. Types'
    BY <1>1, <1>2 DEF Inv, Types
  <2>2. StoreInv'
    BY <1>1, <1>2 DEF Inv, Types, StoreInv
  <2>3. TicketsAreSpentOnce' /\ TicketsDoNotPileUp'
    BY <1>1, <1>2 DEF Inv, Types, TicketsAreSpentOnce, TicketsDoNotPileUp
  <2> QED
    BY <2>1, <2>2, <2>3 DEF Inv
<1>3. ASSUME NEW r \in Requests, issuedAt[r] # -1,
             presented' = [presented EXCEPT ![h] = r],
             tickets' = {t \in tickets : t.id # r},
             handshake' = [handshake EXCEPT ![h] = "admitted"],
             NEW s \in redeemed(r), identity' = [identity EXCEPT ![h] = s]
      PROVE  Inv'
  <2>1. PICK t \in tickets : t.id = r /\ t.subject = s
    BY DEF redeemed
  <2>2. s \in Subjects
    BY <2>1 DEF Inv, Types, Ticket
  <2>3. Types'
    BY <1>1, <1>3, <2>2 DEF Inv, Types
  <2>4. StoreInv'
    BY <1>1, <1>3 DEF Inv, Types, StoreInv
  <2>5. \A g \in Handshakes : handshake[g] = "admitted" => presented[g] # r
    BY <2>1 DEF Inv, StoreInv
  <2>6. TicketsAreSpentOnce'
    BY <1>1, <1>3, <2>5 DEF Inv, Types, TicketsAreSpentOnce
  <2>7. TicketsDoNotPileUp'
    BY <1>3 DEF Inv, TicketsDoNotPileUp
  <2> QED
    BY <2>3, <2>4, <2>6, <2>7 DEF Inv
<1>4. CASE UNCHANGED <<presented, ticketVars, faults>> /\ refuse(h)
  BY <1>2, <1>4 DEF refuse, ticketVars
<1>5. ASSUME NEW r \in {q \in Requests : issuedAt[q] # -1},
             presented' = [presented EXCEPT ![h] = r], redeem(r),
             IF redeemed(r) = {} THEN refuse(h)
             ELSE /\ handshake' = [handshake EXCEPT ![h] = "admitted"]
                  /\ \E s \in redeemed(r) : identity' = [identity EXCEPT ![h] = s]
      PROVE  Inv'
  <2>1. tickets' = {t \in tickets : t.id # r}
    BY <1>5 DEF redeem, GETDEL
  <2>2. CASE redeemed(r) = {}
    BY <1>2, <1>5, <2>1, <2>2 DEF refuse
  <2>3. CASE redeemed(r) # {}
    BY <1>3, <1>5, <2>1, <2>3
  <2> QED
    BY <2>2, <2>3
<1>6. ASSUME NEW r \in {q \in Requests : issuedAt[q] # -1},
             presented' = [presented EXCEPT ![h] = r], redeem_fails(r), refuse(h)
      PROVE  Inv'
  <2>1. tickets' \subseteq tickets
    BY <1>6 DEF redeem_fails, GETDEL
  <2> QED
    BY <1>2, <1>6, <2>1 DEF refuse
<1> QED
  BY <1>4, <1>5, <1>6 DEF AuthenticateSocket

LEMMA InvNext == Inv /\ [Next]_vars => Inv'
<1> SUFFICES ASSUME Inv, [Next]_vars PROVE Inv'
  OBVIOUS
<1>1. ASSUME NEW r \in Requests, EnforceRateLimit(r) PROVE Inv'
  BY <1>1, CheckStep
<1>2. ASSUME NEW r \in Requests, IssueTicket(r) PROVE Inv'
  BY <1>2, IssueStep
<1>3. ASSUME NEW h \in Handshakes, AuthenticateSocket(h) PROVE Inv'
  BY <1>3, SocketStep
<1>4. CASE Tick
  <2>1. now' = now + 1 /\ UNCHANGED <<subject, checking, tickets, gatewayVars>>
    BY <1>4 DEF Tick, limiterVars, ticketVars
  <2>2. Types'
    BY <2>1 DEF Inv, Types, gatewayVars
  <2>3. StoreInv'
    BY <2>1, TtlIsPositive DEF Inv, Types, StoreInv, gatewayVars, Ticket
  <2>4. TicketsAreSpentOnce' /\ TicketsDoNotPileUp'
    BY <2>1 DEF Inv, TicketsAreSpentOnce, TicketsDoNotPileUp, gatewayVars
  <2> QED
    BY <2>2, <2>3, <2>4 DEF Inv
<1>5. CASE UNCHANGED vars
  BY <1>5 DEF Inv, Types, StoreInv, TicketsAreSpentOnce, TicketsDoNotPileUp, vars
<1> QED
  BY <1>1, <1>2, <1>3, <1>4, <1>5 DEF Next

\* No ticket admits two handshakes, whatever races and fails between GETDEL
\* and SET EX (auth/redis_tickets.py, auth/tickets.py).
THEOREM TicketsAreSingleUse == Spec => []TicketsAreSpentOnce
<1>1. Inv => TicketsAreSpentOnce
  BY DEF Inv
<1> QED
  BY <1>1, InvInit, InvNext, PTL DEF Spec

\* A store never holds tickets from more than one lifetime (_prune, EX).
THEOREM StoreIsBounded == Spec => []TicketsDoNotPileUp
<1>1. Inv => TicketsDoNotPileUp
  BY DEF Inv
<1> QED
  BY <1>1, InvInit, InvNext, PTL DEF Spec

\* A handshake is admitted as the subject whose authenticated and allowed
\* request minted the ticket, within the ticket's life, and it alone
\* (authenticate_socket; the redeem of both stores).
THEOREM TicketsAdmitTheirSubjectOnce == Spec => TicketsAdmitOnce
<1> DEFINE Admission(h) ==
        \E r \in Requests :
            /\ presented'[h] = r
            /\ \A g \in Handshakes \ {h} : handshake'[g] = "admitted" => presented'[g] # r
            /\ identity'[h] = subject[r]
            /\ checking[r] = "allowed"
            /\ now \in issuedAt[r]..(issuedAt[r] + Ttl - 1)
           Step == \A h \in Handshakes :
            handshake[h] # "admitted" /\ handshake'[h] = "admitted" => Admission(h)
<1>1. ASSUME Inv, [Next]_vars PROVE [Step]_vars
  <2> SUFFICES ASSUME Next, NEW h \in Handshakes,
                      handshake[h] # "admitted", handshake'[h] = "admitted"
               PROVE  Admission(h)
    BY <1>1
  <2>1. AuthenticateSocket(h)
    <3>1. ASSUME NEW r \in Requests, EnforceRateLimit(r) PROVE FALSE
      BY <3>1 DEF EnforceRateLimit, gatewayVars
    <3>2. ASSUME NEW r \in Requests, IssueTicket(r) PROVE FALSE
      BY <3>2 DEF IssueTicket
    <3>3. ASSUME Tick PROVE FALSE
      BY <3>3 DEF Tick, gatewayVars
    <3>4. ASSUME NEW g \in Handshakes, AuthenticateSocket(g), g # h PROVE FALSE
      BY <1>1, <3>4 DEF AuthenticateSocket, refuse, Inv, Types
    <3> QED
      BY <3>1, <3>2, <3>3, <3>4 DEF Next
  <2>2. PICK r \in Requests :
            /\ issuedAt[r] # -1
            /\ presented' = [presented EXCEPT ![h] = r]
            /\ \E s \in redeemed(r) : identity' = [identity EXCEPT ![h] = s]
    BY <1>1, <2>1 DEF AuthenticateSocket, refuse, Inv, Types
  <2>3. PICK t \in tickets : t.id = r /\ live(t) /\ identity'[h] = t.subject
    BY <1>1, <2>2 DEF redeemed, Inv, Types
  <2>4. t.subject = subject[r] /\ checking[r] = "allowed"
        /\ t.expires = issuedAt[r] + Ttl
    BY <1>1, <2>2, <2>3 DEF Inv, StoreInv
  <2>5. now \in issuedAt[r]..(issuedAt[r] + Ttl - 1)
    BY <1>1, <2>2, <2>3, <2>4, TtlIsPositive DEF Inv, Types, StoreInv, live
  <2>6. presented'[h] = r
    BY <1>1, <2>2 DEF Inv, Types
  <2>7. \A g \in Handshakes \ {h} : handshake'[g] = "admitted" => presented'[g] # r
    <3>1. TicketsAreSpentOnce'
      BY <1>1, InvNext DEF Inv
    <3> QED
      BY <2>6, <3>1 DEF TicketsAreSpentOnce
  <2> QED
    BY <2>3, <2>4, <2>5, <2>6, <2>7
<1>2. TicketsAdmitOnce <=> [][Step]_vars
  BY DEF TicketsAdmitOnce
<1> QED
  BY <1>1, <1>2, InvInit, InvNext, PTL DEF Spec

-----------------------------------------------------------------------------
(* Division by a window of any length. *)

\* \div and % by a positive number.
LEMMA DivMod ==
    ASSUME NEW a \in Nat, NEW w \in Nat \ {0}
    PROVE  /\ a \div w \in Nat
           /\ a % w \in 0..(w - 1)
           /\ a = w * (a \div w) + (a % w)
OBVIOUS

\* Multiples are ordered as their factors.
LEMMA Multiples ==
    ASSUME NEW a \in Int, NEW b \in Int, NEW w \in Nat \ {0}, a < b
    PROVE  w * (a + 1) <= w * b
OBVIOUS

\* A quotient is the greatest factor that fits.
LEMMA Quotients ==
    ASSUME NEW w \in Nat \ {0}, NEW p \in Int, NEW q \in Int,
           NEW x \in 0..(w - 1), NEW y \in 0..(w - 1),
           w * p + x <= w * q + y
    PROVE  p <= q
<1> SUFFICES ASSUME q < p PROVE FALSE
  OBVIOUS
<1>1. w * (q + 1) <= w * p
  BY Multiples
<1> QED
  BY <1>1

LEMMA WindowIsPositive == Window \in Nat \ {0}
BY SecondAssumption, WindowSecondsAssumption DEF Window

\* A window contains the times it is derived from.
LEMMA WindowContains ==
    ASSUME NEW t \in Nat
    PROVE  /\ window(t) \in Nat
           /\ Window * window(t) <= t
           /\ t < Window * window(t) + Window
<1> HIDE DEF Window
<1> QED
  BY DivMod, WindowIsPositive DEF window

\* Later times have later windows.
LEMMA WindowsAreOrdered ==
    ASSUME NEW a \in Nat, NEW b \in Nat, a <= b
    PROVE  window(a) <= window(b)
<1>1. /\ a \div Window \in Nat /\ b \div Window \in Nat
      /\ a % Window \in 0..(Window - 1) /\ b % Window \in 0..(Window - 1)
      /\ Window * (a \div Window) + (a % Window) <= Window * (b \div Window) + (b % Window)
  BY DivMod, WindowIsPositive
<1> QED
  BY <1>1, Quotients, WindowIsPositive DEF window

\* Every time a check can read has a window the counters know.
LEMMA WindowsAreKnown ==
    ASSUME NEW t \in 0..(MaxTime + MaxSkew)
    PROVE  window(t) \in Windows
<1>1. MaxTime + MaxSkew \in Nat /\ t \in Nat
  BY MaxTimeAssumption, MaxSkewAssumption
<1>2. window(t) \in Nat /\ window(MaxTime + MaxSkew) \in Nat
  BY <1>1, WindowContains
<1>3. window(t) <= window(MaxTime + MaxSkew)
  BY <1>1, WindowsAreOrdered
<1> QED
  BY <1>2, <1>3 DEF Windows

\* What a refused caller is told: enough whole seconds to reach the next
\* window, less than a second too many, at most a whole window.
LEMMA SecondsLeft ==
    ASSUME NEW t \in Nat
    PROVE  /\ seconds_left(t) \in 0..WindowSeconds
           /\ t + seconds_left(t) * Second \in
                  (window(t) + 1) * Window..((window(t) + 1) * Window + Second - 1)
<1> DEFINE rest == t % Window
<1> DEFINE left == Window - rest
<1> DEFINE up == left + Second - 1
<1>1. /\ rest \in 0..(Window - 1)
      /\ t = Window * window(t) + rest
      /\ window(t) \in Nat
  BY DivMod, WindowIsPositive DEF window
<1> HIDE DEF rest
<1>2. left \in 1..Window /\ t + left = Window * window(t) + Window
  BY <1>1, WindowIsPositive
<1>3. up \in Nat
  BY <1>2, SecondAssumption, WindowIsPositive
<1> HIDE DEF left
<1> HIDE DEF up
<1>4. /\ up \div Second \in Nat
      /\ up % Second \in 0..(Second - 1)
      /\ up = Second * (up \div Second) + (up % Second)
  BY <1>3, DivMod, SecondAssumption
<1>5. seconds_left(t) = up \div Second
  BY DEF seconds_left, left, rest, up
<1>6. Second * seconds_left(t) \in left..(left + Second - 1)
  BY <1>2, <1>4, <1>5, SecondAssumption, WindowIsPositive DEF up
<1>7. Second * seconds_left(t) <= Second * WindowSeconds + (Second - 1)
  BY <1>2, <1>6, SecondAssumption, WindowSecondsAssumption, WindowIsPositive DEF Window
<1>8. seconds_left(t) <= WindowSeconds
  <2>1. seconds_left(t) \in Int /\ Second \in Nat \ {0} /\ WindowSeconds \in Int
    BY <1>4, <1>5, SecondAssumption, WindowSecondsAssumption
  <2>2. Second * seconds_left(t) + 0 <= Second * WindowSeconds + (Second - 1)
    BY <1>7, <2>1
  <2>3. 0 \in 0..(Second - 1) /\ Second - 1 \in 0..(Second - 1)
    BY <2>1
  <2> QED
    BY <2>1, <2>2, <2>3, Quotients
<1>9. (window(t) + 1) * Window = Window * window(t) + Window
  BY <1>1, WindowIsPositive
<1>10. seconds_left(t) * Second = Second * seconds_left(t) /\ seconds_left(t) \in Nat
  BY <1>4, <1>5, SecondAssumption
<1> QED
  BY <1>1, <1>2, <1>6, <1>8, <1>9, <1>10, SecondAssumption, WindowSecondsAssumption, WindowIsPositive

-----------------------------------------------------------------------------
(* Types. *)

\* The key a check counts under is one the counters have.
LEMMA KeysAreKnown ==
    ASSUME NEW r \in Requests, NEW t \in 0..(MaxTime + MaxSkew), TypeOK
    PROVE  counter_key(r, t) \in Subjects \X Windows
BY WindowsAreKnown DEF counter_key, TypeOK

\* The parts of the state a check changes keep their types.
LEMMA CheckKeepsTypes ==
    ASSUME TypeOK, NEW r \in Requests, Check(r)
    PROVE  LimiterTypeOK' /\ faults' \in 0..MaxFaults
<1> USE MaxTimeAssumption, MaxSkewAssumption, MaxFaultsAssumption, LimitAssumption,
        WindowSecondsAssumption
<1>1. /\ now \in Nat /\ now \in 0..(MaxTime + MaxSkew)
      /\ LimiterTypeOK /\ faults \in 0..MaxFaults
  BY DEF TypeOK
<1>2. \A t \in 0..(MaxTime + MaxSkew) : seconds_left(t) \in 0..WindowSeconds
  BY SecondsLeft
<1>3. CASE CheckNothing(r)
  BY <1>1, <1>3 DEF CheckNothing, allow, LimiterTypeOK, CheckState
<1>4. CASE CheckInMemory(r)
  <2> DEFINE key == counter_key(r, now)
  <2>1. key \in Subjects \X Windows
    BY <1>1, KeysAreKnown
  <2>2. counters' = [k \in DOMAIN counters |-> IF k = key THEN counters[key] + 1 ELSE pruned(k)]
    BY <1>4 DEF CheckInMemory
  <2>3. counters' \in [Subjects \X Windows -> Nat]
    <3> HIDE DEF key
    <3>1. \A k \in Subjects \X Windows : pruned(k) \in Nat
      BY <1>1 DEF pruned, LimiterTypeOK
    <3> QED
      BY <1>1, <2>1, <2>2, <3>1 DEF LimiterTypeOK
  <2>4. decide(r, counters[key] + 1, now) /\ readAt' = [readAt EXCEPT ![r] = now]
        /\ UNCHANGED <<limiter, expires, local, faults>>
    BY <1>4 DEF CheckInMemory
  <2>5. /\ checking' \in [Requests -> CheckState]
        /\ countedAt' \in [Requests -> -1..MaxTime]
        /\ retry_after' \in [Requests -> 0..WindowSeconds]
    BY <1>1, <1>2, <2>4 DEF decide, LimiterTypeOK, CheckState, TypeOK
  <2> QED
    BY <1>1, <2>3, <2>4, <2>5 DEF LimiterTypeOK
<1>5. CASE WindowNow(r)
  <2>1. UNCHANGED <<limiter, counters, expires, countedAt, retry_after>>
        /\ checking' = [checking EXCEPT ![r] = "count"]
    BY <1>5 DEF WindowNow
  <2>2. /\ readAt' \in [Requests -> 0..(MaxTime + MaxSkew)]
        /\ local' \in SUBSET Windows
        /\ faults' \in 0..MaxFaults
    <3>1. CASE readAt' = [readAt EXCEPT ![r] = now] /\ UNCHANGED <<local, faults>>
      BY <1>1, <3>1 DEF LimiterTypeOK
    <3>2. CASE RedisFails /\ \E off \in -MaxSkew..MaxSkew :
                  /\ now + off >= 0
                  /\ readAt' = [readAt EXCEPT ![r] = now + off]
                  /\ local' = local \cup {window(now + off)}
      <4>1. PICK off \in -MaxSkew..MaxSkew :
                  /\ now + off >= 0
                  /\ readAt' = [readAt EXCEPT ![r] = now + off]
                  /\ local' = local \cup {window(now + off)}
        BY <3>2
      <4>2. now + off \in 0..(MaxTime + MaxSkew)
        BY <4>1 DEF TypeOK
      <4>3. window(now + off) \in Windows
        BY <4>2, WindowsAreKnown
      <4> QED
        BY <1>1, <3>2, <4>1, <4>2, <4>3 DEF LimiterTypeOK, RedisFails
    <3> QED
      BY <1>5, <3>1, <3>2 DEF WindowNow
  <2> QED
    BY <1>1, <2>1, <2>2 DEF LimiterTypeOK, CheckState
<1>6. CASE Count(r)
  <2> DEFINE key == counter_key(r, readAt[r])
  <2>1. readAt[r] \in 0..(MaxTime + MaxSkew)
    BY <1>1 DEF LimiterTypeOK
  <2>2. key \in Subjects \X Windows
    BY <2>1, KeysAreKnown
  <2>3. stored(key) \in Nat
    BY <1>1, <2>2 DEF stored, LimiterTypeOK
  <2>4. UNCHANGED <<limiter, readAt, local>>
    BY <1>6 DEF Count
  <2>5. ASSUME INCR_EXPIRE(key)
        PROVE  counters' \in [Subjects \X Windows -> Nat] /\ expires' \in [Subjects \X Windows -> Nat]
    <3> HIDE DEF key
    <3>1. now + Window \in Nat
      BY <1>1, WindowIsPositive
    <3> QED
      BY <1>1, <2>2, <2>3, <2>5, <3>1 DEF INCR_EXPIRE, LimiterTypeOK
  <2>6. CASE INCR_EXPIRE(key) /\ decide(r, stored(key) + 1, readAt[r]) /\ UNCHANGED faults
    <3>1. /\ checking' \in [Requests -> CheckState]
          /\ countedAt' \in [Requests -> -1..MaxTime]
          /\ retry_after' \in [Requests -> 0..WindowSeconds]
      BY <1>1, <1>2, <2>1, <2>6 DEF decide, LimiterTypeOK, CheckState, TypeOK
    <3> QED
      BY <1>1, <2>4, <2>5, <2>6, <3>1 DEF LimiterTypeOK
  <2>7. CASE /\ RedisFails
             /\ INCR_EXPIRE(key) \/ UNCHANGED <<counters, expires>>
             /\ allow(r)
             /\ UNCHANGED countedAt
    <3>1. counters' \in [Subjects \X Windows -> Nat] /\ expires' \in [Subjects \X Windows -> Nat]
      BY <1>1, <2>5, <2>7 DEF LimiterTypeOK
    <3> HIDE DEF key
    <3> QED
      BY <1>1, <2>4, <2>7, <3>1 DEF LimiterTypeOK, RedisFails, allow, CheckState
  <2> QED
    BY <1>6, <2>6, <2>7 DEF Count
<1> QED
  BY <1>3, <1>4, <1>5, <1>6 DEF Check

\* Every step keeps the types.
LEMMA TypeNext == TypeOK /\ [Next]_vars => TypeOK'
<1> SUFFICES ASSUME TypeOK, [Next]_vars PROVE TypeOK'
  OBVIOUS
<1> USE MaxTimeAssumption, MaxFaultsAssumption
<1>1. ASSUME NEW r \in Requests, EnforceRateLimit(r) PROVE TypeOK'
  BY <1>1, CheckKeepsTypes DEF EnforceRateLimit, TypeOK, TicketTypeOK, ticketVars, gatewayVars
<1>2. ASSUME NEW r \in Requests, SET_EX(r, subject[r]) PROVE tickets' \in SUBSET Ticket
  BY <1>2, TtlIsPositive DEF SET_EX, kept, TypeOK, TicketTypeOK, Ticket
<1>3. ASSUME NEW r \in Requests, IssueTicket(r) PROVE TypeOK'
  <2>1. UNCHANGED <<now, subject, limiter, counters, expires, readAt, countedAt,
                    retry_after, local, handshake, presented, identity>>
    BY <1>3 DEF IssueTicket
  <2>2. CASE issue(r, subject[r]) /\ issuedAt' = [issuedAt EXCEPT ![r] = now] /\ UNCHANGED checking
    BY <1>2, <2>1, <2>2 DEF issue, TypeOK, TicketTypeOK, LimiterTypeOK
  <2>3. CASE /\ issue_fails(r, subject[r])
             /\ checking' = [checking EXCEPT ![r] = "failed"]
             /\ UNCHANGED issuedAt
    <3>1. tickets' \in SUBSET Ticket
      BY <1>2, <2>3 DEF issue_fails, TypeOK, TicketTypeOK
    <3> QED
      BY <2>1, <2>3, <3>1 DEF issue_fails, RedisFails, TypeOK, TicketTypeOK, LimiterTypeOK, CheckState
  <2> QED
    BY <1>3, <2>2, <2>3 DEF IssueTicket
<1>4. ASSUME NEW h \in Handshakes, AuthenticateSocket(h) PROVE TypeOK'
  <2>1. UNCHANGED <<now, subject, limiterVars, issuedAt>>
    BY <1>4 DEF AuthenticateSocket
  <2>2. LimiterTypeOK'
    BY <2>1 DEF limiterVars, TypeOK, LimiterTypeOK
  <2>3. ASSUME refuse(h), tickets' \subseteq tickets, UNCHANGED store,
               faults' \in 0..MaxFaults,
               presented' \in [Handshakes -> Requests \cup {None}]
        PROVE  TypeOK'
    BY <2>1, <2>2, <2>3 DEF refuse, TypeOK, TicketTypeOK
  <2>4. CASE UNCHANGED <<presented, ticketVars, faults>> /\ refuse(h)
    BY <2>3, <2>4 DEF ticketVars, TypeOK
  <2>5. CASE \E r \in {q \in Requests : issuedAt[q] # -1} :
             /\ presented' = [presented EXCEPT ![h] = r]
             /\ \/ /\ redeem(r)
                   /\ IF redeemed(r) = {}
                      THEN refuse(h)
                      ELSE /\ handshake' = [handshake EXCEPT ![h] = "admitted"]
                           /\ \E s \in redeemed(r) :
                                 identity' = [identity EXCEPT ![h] = s]
                \/ /\ redeem_fails(r)
                   /\ refuse(h)
    <3>1. PICK r \in Requests :
             /\ presented' = [presented EXCEPT ![h] = r]
             /\ \/ /\ redeem(r)
                   /\ IF redeemed(r) = {}
                      THEN refuse(h)
                      ELSE /\ handshake' = [handshake EXCEPT ![h] = "admitted"]
                           /\ \E s \in redeemed(r) :
                                 identity' = [identity EXCEPT ![h] = s]
                \/ /\ redeem_fails(r)
                   /\ refuse(h)
      BY <2>5
    <3>2. presented' \in [Handshakes -> Requests \cup {None}]
      BY <3>1 DEF TypeOK
    <3>3. tickets' \subseteq tickets /\ UNCHANGED store /\ faults' \in 0..MaxFaults
      BY <3>1 DEF redeem, redeem_fails, GETDEL, RedisFails, TypeOK
    <3>4. CASE refuse(h)
      BY <2>3, <3>2, <3>3, <3>4
    <3>5. CASE /\ handshake' = [handshake EXCEPT ![h] = "admitted"]
               /\ \E s \in redeemed(r) : identity' = [identity EXCEPT ![h] = s]
      <4>1. PICK s \in redeemed(r) : identity' = [identity EXCEPT ![h] = s]
        BY <3>5
      <4>2. s \in Subjects
        BY <4>1 DEF redeemed, TypeOK, TicketTypeOK, Ticket
      <4> QED
        BY <2>1, <2>2, <3>2, <3>3, <3>5, <4>1, <4>2 DEF TypeOK, TicketTypeOK
    <3> QED
      BY <3>1, <3>4, <3>5
  <2> QED
    BY <1>4, <2>4, <2>5 DEF AuthenticateSocket
<1>5. CASE Tick
  BY <1>5 DEF Tick, TypeOK, LimiterTypeOK, TicketTypeOK, limiterVars, ticketVars, gatewayVars
<1>6. CASE UNCHANGED vars
  BY <1>6 DEF vars, TypeOK, LimiterTypeOK, TicketTypeOK
<1> QED
  BY <1>1, <1>3, <1>4, <1>5, <1>6 DEF Next

LEMMA TypeInit == Init => TypeOK
<1> SUFFICES ASSUME Init PROVE TypeOK
  OBVIOUS
<1>1. MaxTime \in Nat /\ MaxSkew \in Nat /\ MaxFaults \in Nat /\ WindowSeconds \in Nat
  BY MaxTimeAssumption, MaxSkewAssumption, MaxFaultsAssumption, WindowSecondsAssumption
<1>2. LimiterTypeOK
  BY <1>1 DEF Init, LimiterInit, LimiterTypeOK, CheckState
<1> QED
  BY <1>1, <1>2 DEF Init, TicketInit, TypeOK, TicketTypeOK

\* The gateway's state keeps its types: keys of counters exist for every clock
\* a check may read, and a refused caller never waits more than a window
\* (ratelimit/limiters.py, redis_limiter.py).
THEOREM GatewayTypeCorrect == Spec => []TypeOK
BY TypeInit, TypeNext, PTL DEF Spec

-----------------------------------------------------------------------------
(* The limit. *)

\* The requests of s whose check in window w is over, counted or not.
Settled(s, w) ==
    {q \in Requests : /\ subject[q] = s
                      /\ checking[q] \in {"allowed", "refused", "failed"}
                      /\ window(readAt[q]) = w}

\* Those of them that were counted in time and let through.
Admitted(s, w) == {r \in CountedIn(s, w) : checking[r] \in {"allowed", "failed"}}

\* Finitely many requests have been made, and none is counted before its check
\* is over.
StartedInv ==
    /\ IsFiniteSet({r \in Requests : checking[r] # "new"})
    /\ \A r \in Requests :
           countedAt[r] # -1 => checking[r] \in {"allowed", "refused", "failed"}

\* A counter of a window that is not over has not lost a request: Redis keeps
\* it at least until the window is over, unless some process has derived the
\* window from its own clock.
CounterInv ==
    /\ \A r \in Requests :
           checking[r] = "count" /\ window(readAt[r]) \notin local => readAt[r] <= now
    /\ limiter = "redis" =>
           \A s \in Subjects, w \in Windows \ local :
               expires[<<s, w>>] # 0 => Window * w + Window <= expires[<<s, w>>]
    /\ limiter # "redis" => \A k \in Subjects \X Windows : expires[k] = 0
    /\ \A s \in Subjects, w \in Windows \ local :
           window(now) <= w => Cardinality(CountedIn(s, w)) <= counters[<<s, w>>]

\* A counter has counted no one but the requests of its subject and window.
UpperInv ==
    \A s \in Subjects, w \in Windows : counters[<<s, w>>] <= Cardinality(Settled(s, w))

\* Counters that Redis keeps have an expiry; those in memory are of no window
\* that is still to come.
KeptInv ==
    /\ NoCounterStays
    /\ limiter = "memory" => \A k \in Subjects \X Windows : counters[k] > 0 => k[2] <= window(now)

LimitInv ==
    /\ TypeOK
    /\ StartedInv
    /\ CounterInv
    /\ UpperInv
    /\ KeptInv
    /\ LimitPerWindow
    /\ RefusedOnlyOverTheLimit
    /\ RetryAfterReachesTheNextWindow

LEMMA LimitInit == Init => LimitInv
<1> SUFFICES ASSUME Init PROVE LimitInv
  OBVIOUS
<1>1. TypeOK
  BY TypeInit
<1>2. /\ now = 0 /\ counters = [k \in Subjects \X Windows |-> 0]
      /\ expires = [k \in Subjects \X Windows |-> 0]
      /\ checking = [r \in Requests |-> "new"]
      /\ countedAt = [r \in Requests |-> -1]
  BY DEF Init, LimiterInit
<1>3. \A s, w : CountedIn(s, w) = {}
  BY <1>2 DEF CountedIn
<1>4. \A s, w : Settled(s, w) = {}
  BY <1>2 DEF Settled
<1>5. StartedInv
  <2>1. {r \in Requests : checking[r] # "new"} = {}
    BY <1>2
  <2> QED
    BY <1>2, <2>1, FS_EmptySet DEF StartedInv
<1>a. Cardinality({}) = 0
  BY FS_EmptySet
<1>b. \A x \in Subjects, y \in Windows : counters[<<x, y>>] = 0 /\ expires[<<x, y>>] = 0
  BY <1>2
<1>6. CounterInv
  <2>1. \A r \in Requests : checking[r] # "count"
    BY <1>2
  <2>2. \A s \in Subjects, w \in Windows : Cardinality(CountedIn(s, w)) <= counters[<<s, w>>]
    <3> SUFFICES ASSUME NEW s \in Subjects, NEW w \in Windows
                 PROVE  Cardinality(CountedIn(s, w)) <= counters[<<s, w>>]
      OBVIOUS
    <3> QED
      BY <1>a, <1>b, <1>3
  <2>3. \A k \in Subjects \X Windows : expires[k] = 0
    BY <1>2
  <2> QED
    BY <1>b, <2>1, <2>2, <2>3 DEF CounterInv
<1>7. UpperInv
  <2> SUFFICES ASSUME NEW s \in Subjects, NEW w \in Windows
               PROVE  counters[<<s, w>>] <= Cardinality(Settled(s, w))
    BY DEF UpperInv
  <2> QED
    BY <1>a, <1>b, <1>4
<1>8. KeptInv
  BY <1>2 DEF KeptInv, NoCounterStays
<1>9. LimitPerWindow
  <2>1. \A s, w : {r \in CountedIn(s, w) : checking[r] \in {"allowed", "failed"}} = {}
    BY <1>3
  <2> QED
    BY <2>1, FS_EmptySet, LimitAssumption DEF LimitPerWindow
<1>10. RefusedOnlyOverTheLimit /\ RetryAfterReachesTheNextWindow
  BY <1>2 DEF RefusedOnlyOverTheLimit, RetryAfterReachesTheNextWindow
<1> QED
  BY <1>1, <1>5, <1>6, <1>7, <1>8, <1>9, <1>10 DEF LimitInv

\* The sets the limit is about are finite.
LEMMA CountsAreFinite ==
    ASSUME StartedInv, NEW s, NEW w
    PROVE  /\ IsFiniteSet(CountedIn(s, w)) /\ Cardinality(CountedIn(s, w)) \in Nat
           /\ IsFiniteSet(Settled(s, w)) /\ Cardinality(Settled(s, w)) \in Nat
           /\ IsFiniteSet(Admitted(s, w)) /\ Cardinality(Admitted(s, w)) \in Nat
           /\ Cardinality(Admitted(s, w)) <= Cardinality(CountedIn(s, w))
<1> DEFINE started == {r \in Requests : checking[r] # "new"}
<1>1. /\ CountedIn(s, w) \in SUBSET started
      /\ Settled(s, w) \in SUBSET started
      /\ Admitted(s, w) \in SUBSET CountedIn(s, w)
  BY DEF StartedInv, CountedIn, Settled, Admitted
<1>2. IsFiniteSet(started)
  BY DEF StartedInv
<1> HIDE DEF started
<1>3. IsFiniteSet(CountedIn(s, w)) /\ IsFiniteSet(Settled(s, w))
  BY <1>1, <1>2, FS_Subset
<1>4. IsFiniteSet(Admitted(s, w)) /\ Cardinality(Admitted(s, w)) <= Cardinality(CountedIn(s, w))
  BY <1>1, <1>3, FS_Subset
<1> QED
  BY <1>3, <1>4, FS_CardinalityType

\* A set that loses nothing does not get smaller, and one more member is one
\* more.
LEMMA Grows ==
    ASSUME NEW S, NEW T, NEW x, IsFiniteSet(S), T \subseteq S \cup {x}
    PROVE  /\ IsFiniteSet(T)
           /\ Cardinality(T) <= Cardinality(S) + 1
           /\ T \subseteq S => Cardinality(T) <= Cardinality(S)
           /\ S \subseteq T => Cardinality(S) <= Cardinality(T)
           /\ S \cup {x} = T /\ x \notin S => Cardinality(T) = Cardinality(S) + 1
<1>1. /\ IsFiniteSet(S \cup {x})
      /\ Cardinality(S \cup {x}) = IF x \in S THEN Cardinality(S) ELSE Cardinality(S) + 1
  BY FS_AddElement
<1>2. IsFiniteSet(T) /\ Cardinality(T) <= Cardinality(S \cup {x})
  BY <1>1, FS_Subset
<1>3. Cardinality(S) \in Nat /\ Cardinality(T) \in Nat /\ Cardinality(S \cup {x}) \in Nat
  BY <1>1, <1>2, FS_CardinalityType
<1>4. T \subseteq S => Cardinality(T) <= Cardinality(S)
  BY FS_Subset
<1>5. S \subseteq T => Cardinality(S) <= Cardinality(T)
  BY <1>2, FS_Subset
<1>6. Cardinality(T) <= Cardinality(S) + 1
  BY <1>1, <1>2, <1>3
<1>7. S \cup {x} = T /\ x \notin S => Cardinality(T) = Cardinality(S) + 1
  BY <1>1
<1> QED
  BY <1>2, <1>4, <1>5, <1>6, <1>7

\* A request is counted: as number c + 1 under its key, where c is what the
\* counter holds, and all it has counted if the window is not over.
LEMMA CountedStep ==
    ASSUME LimitInv, TypeOK',
           NEW r \in Requests, NEW t \in 0..(MaxTime + MaxSkew), NEW c \in Nat,
           checking[r] \in {"new", "count"},
           decide(r, c + 1, t),
           readAt'[r] = t, \A q \in Requests \ {r} : readAt'[q] = readAt[q],
           UNCHANGED <<now, subject, local>>,
           counters'[counter_key(r, t)] = c + 1,
           c <= counters[counter_key(r, t)],
           window(t) \notin local /\ window(now) <= window(t) => c = counters[counter_key(r, t)],
           \A k \in Subjects \X Windows : k # counter_key(r, t) =>
               /\ counters'[k] <= counters[k]
               /\ window(now) <= k[2] => counters'[k] = counters[k]
    PROVE  /\ StartedInv'
           /\ \A s \in Subjects, w \in Windows \ local :
                  window(now) <= w => Cardinality(CountedIn(s, w)') <= counters'[<<s, w>>]
           /\ UpperInv'
           /\ LimitPerWindow'
           /\ RefusedOnlyOverTheLimit'
           /\ RetryAfterReachesTheNextWindow'
<1>a. subject[r] \in Subjects
  BY DEF LimitInv, TypeOK
<1>b. PICK s0 \in Subjects : s0 = subject[r]
  BY <1>a
<1>c. PICK w0 \in Windows : w0 = window(t)
  BY WindowsAreKnown
<1>1. /\ s0 \in Subjects /\ w0 \in Windows /\ counter_key(r, t) = <<s0, w0>>
      /\ counters[<<s0, w0>>] \in Nat
  BY <1>b, <1>c DEF LimitInv, TypeOK, LimiterTypeOK, counter_key
<1>2. /\ countedAt'[r] = now
      /\ checking'[r] = IF over(c + 1) THEN "refused" ELSE "allowed"
      /\ retry_after'[r] = IF over(c + 1) THEN seconds_left(t) ELSE 0
      /\ \A q \in Requests \ {r} : /\ countedAt'[q] = countedAt[q]
                                   /\ checking'[q] = checking[q]
                                   /\ retry_after'[q] = retry_after[q]
  BY DEF decide, LimitInv, TypeOK, LimiterTypeOK
<1>3. countedAt[r] = -1 /\ now \in Nat
  BY DEF LimitInv, StartedInv, TypeOK
<1>4. checking'[r] \in {"allowed", "refused"}
  BY <1>2
<1>5. StartedInv /\ StartedInv'
  <2>1. {q \in Requests : checking'[q] # "new"} = {q \in Requests : checking[q] # "new"} \cup {r}
    BY <1>2, <1>4
  <2>2. IsFiniteSet({q \in Requests : checking'[q] # "new"})
    <3>1. IsFiniteSet({q \in Requests : checking[q] # "new"})
      BY DEF LimitInv, StartedInv
    <3> QED
      BY <2>1, <3>1, FS_AddElement
  <2> QED
    BY <1>2, <1>4, <2>2 DEF LimitInv, StartedInv
<1>6. \A s, w :
         /\ CountedIn(s, w)' = IF s = s0 /\ w = w0 /\ window(now) = w
                               THEN CountedIn(s, w) \cup {r} ELSE CountedIn(s, w)
         /\ r \notin CountedIn(s, w)
         /\ Settled(s, w)' = IF s = s0 /\ w = w0 THEN Settled(s, w) \cup {r} ELSE Settled(s, w)
         /\ r \notin Settled(s, w)
  BY <1>b, <1>c, <1>2, <1>3, <1>4 DEF CountedIn, Settled
<1>7. \A s \in Subjects, w \in Windows \ local :
          window(now) <= w => Cardinality(CountedIn(s, w)') <= counters'[<<s, w>>]
  <2> SUFFICES ASSUME NEW s \in Subjects, NEW w \in Windows \ local, window(now) <= w
               PROVE  Cardinality(CountedIn(s, w)') <= counters'[<<s, w>>]
    OBVIOUS
  <2>1. Cardinality(CountedIn(s, w)) <= counters[<<s, w>>]
    BY DEF LimitInv, CounterInv
  <2>2. IsFiniteSet(CountedIn(s, w)) /\ Cardinality(CountedIn(s, w)) \in Nat
    BY <1>5, CountsAreFinite
  <2>3. CASE s = s0 /\ w = w0
    <3>1. CountedIn(s, w)' \subseteq CountedIn(s, w) \cup {r}
      BY <1>6
    <3>2. Cardinality(CountedIn(s, w)') <= Cardinality(CountedIn(s, w)) + 1
      BY <2>2, <3>1, Grows
    <3>3. IsFiniteSet(CountedIn(s, w)') /\ Cardinality(CountedIn(s, w)') \in Nat
      BY <2>2, <3>1, Grows, FS_CardinalityType
    <3>4. counters'[<<s, w>>] = c + 1 /\ c = counters[<<s, w>>]
      BY <1>1, <1>c, <2>3
    <3> QED
      BY <2>1, <2>2, <3>2, <3>3, <3>4
  <2>4. CASE ~(s = s0 /\ w = w0)
    <3>1. CountedIn(s, w)' = CountedIn(s, w)
      BY <1>6, <2>4
    <3>2. <<s, w>> \in Subjects \X Windows /\ <<s, w>> # counter_key(r, t) /\ <<s, w>>[2] = w
      BY <1>1, <2>4
    <3>3. counters'[<<s, w>>] = counters[<<s, w>>]
      BY <3>2
    <3> QED
      BY <2>1, <3>1, <3>3
  <2> QED
    BY <2>3, <2>4
<1>8. \A s \in Subjects, w \in Windows :
          /\ counters[<<s, w>>] \in Nat /\ counters'[<<s, w>>] \in Nat
          /\ counters[<<s, w>>] <= Cardinality(Settled(s, w))
          /\ counters'[<<s, w>>] <= Cardinality(Settled(s, w)')
          /\ IsFiniteSet(Settled(s, w)')
          /\ Cardinality(Settled(s, w)) <= Cardinality(Settled(s, w)')
  <2> SUFFICES ASSUME NEW s \in Subjects, NEW w \in Windows
               PROVE  /\ counters[<<s, w>>] \in Nat /\ counters'[<<s, w>>] \in Nat
                      /\ counters[<<s, w>>] <= Cardinality(Settled(s, w))
                      /\ counters'[<<s, w>>] <= Cardinality(Settled(s, w)')
                      /\ IsFiniteSet(Settled(s, w)')
                      /\ Cardinality(Settled(s, w)) <= Cardinality(Settled(s, w)')
    OBVIOUS
  <2>1. <<s, w>> \in Subjects \X Windows
    OBVIOUS
  <2>2. counters[<<s, w>>] \in Nat /\ counters'[<<s, w>>] \in Nat
    BY <2>1 DEF LimitInv, TypeOK, LimiterTypeOK
  <2>3. counters[<<s, w>>] <= Cardinality(Settled(s, w))
    BY DEF LimitInv, UpperInv
  <2>4. IsFiniteSet(Settled(s, w)) /\ Cardinality(Settled(s, w)) \in Nat
    BY <1>5, CountsAreFinite
  <2>5. CASE s = s0 /\ w = w0
    <3>1. Settled(s, w)' = Settled(s, w) \cup {r} /\ r \notin Settled(s, w)
      BY <1>6, <2>5
    <3>2. IsFiniteSet(Settled(s, w)') /\ Cardinality(Settled(s, w)') = Cardinality(Settled(s, w)) + 1
      BY <2>4, <3>1, FS_AddElement
    <3>3. counters'[<<s, w>>] = c + 1 /\ c <= counters[<<s, w>>]
      BY <1>1, <2>5
    <3> QED
      BY <2>2, <2>3, <2>4, <3>2, <3>3
  <2>6. CASE ~(s = s0 /\ w = w0)
    <3>1. Settled(s, w)' = Settled(s, w)
      BY <1>6, <2>6
    <3>2. counters'[<<s, w>>] <= counters[<<s, w>>]
      BY <1>1, <2>1, <2>6
    <3> QED
      BY <2>2, <2>3, <2>4, <3>1, <3>2
  <2> QED
    BY <2>5, <2>6
<1>9. UpperInv'
  BY <1>8 DEF UpperInv
<1>10. LimitPerWindow'
  <2> SUFFICES ASSUME NEW s \in Subjects, NEW w \in Windows \ local
               PROVE  Cardinality(Admitted(s, w)') <= Limit
    BY DEF LimitPerWindow, Admitted
  <2>1. Cardinality(Admitted(s, w)) <= Limit
    BY DEF LimitInv, LimitPerWindow, Admitted
  <2>2. /\ IsFiniteSet(Admitted(s, w)) /\ Cardinality(Admitted(s, w)) \in Nat
        /\ Cardinality(CountedIn(s, w)) \in Nat
        /\ Cardinality(Admitted(s, w)) <= Cardinality(CountedIn(s, w))
    BY <1>5, CountsAreFinite
  <2>3. CASE s = s0 /\ w = w0 /\ window(now) = w /\ checking'[r] = "allowed"
    <3>0. CountedIn(s, w)' = CountedIn(s, w) \cup {r} /\ CountedIn(s, w) \subseteq Requests
      BY <1>6, <2>3 DEF CountedIn
    <3>1. Admitted(s, w)' \subseteq Admitted(s, w) \cup {r}
      BY <1>2, <3>0 DEF Admitted
    <3>2. Cardinality(Admitted(s, w)') <= Cardinality(Admitted(s, w)) + 1
      BY <2>2, <3>1, Grows
    <3>3. IsFiniteSet(Admitted(s, w)') /\ Cardinality(Admitted(s, w)') \in Nat
      BY <2>2, <3>1, Grows, FS_CardinalityType
    <3>4. window(now) \in Nat
      BY <1>3, WindowContains
    <3>5. c = counters[<<s, w>>] /\ Cardinality(CountedIn(s, w)) <= counters[<<s, w>>]
      BY <1>1, <1>c, <2>3, <3>4 DEF LimitInv, CounterInv
    <3>6. c + 1 <= Limit
      BY <1>2, <2>3, LimitAssumption DEF over
    <3> QED
      BY <2>2, <3>2, <3>3, <3>5, <3>6, LimitAssumption
  <2>4. CASE ~(s = s0 /\ w = w0 /\ window(now) = w /\ checking'[r] = "allowed")
    <3>1. Admitted(s, w)' = Admitted(s, w)
      BY <1>2, <1>4, <1>6, <2>4 DEF Admitted, CountedIn
    <3> QED
      BY <2>1, <3>1
  <2> QED
    BY <2>3, <2>4
<1>11. RefusedOnlyOverTheLimit'
  <2> SUFFICES ASSUME NEW q \in Requests, checking'[q] = "refused",
                      NEW s \in Subjects, s = subject[q],
                      NEW w \in Windows, w = window(readAt'[q])
               PROVE  Cardinality(Settled(s, w)') > Limit
    <3>1. \A q \in Requests : subject[q] \in Subjects /\ window(readAt'[q]) \in Windows
      BY WindowsAreKnown DEF LimitInv, TypeOK, LimiterTypeOK
    <3> QED
      BY <3>1 DEF RefusedOnlyOverTheLimit, Settled
  <2>1. Cardinality(Settled(s, w)) \in Nat /\ Cardinality(Settled(s, w)') \in Nat
    BY <1>5, <1>8, CountsAreFinite, FS_CardinalityType
  <2>2. CASE q = r
    <3>1. c + 1 > Limit
      BY <1>2, <2>2, LimitAssumption DEF over
    <3>2. s = s0 /\ w = w0
      BY <1>b, <1>c, <2>2
    <3>3. c + 1 <= Cardinality(Settled(s, w)')
      BY <1>1, <1>8, <3>2
    <3> QED
      BY <2>1, <3>1, <3>3, LimitAssumption
  <2>3. CASE q # r
    <3>1. checking[q] = "refused" /\ w = window(readAt[q])
      BY <1>2, <2>3
    <3>2. Cardinality(Settled(s, w)) > Limit
      BY <3>1 DEF LimitInv, RefusedOnlyOverTheLimit, Settled
    <3>3. Cardinality(Settled(s, w)) <= Cardinality(Settled(s, w)')
      BY <1>8
    <3> QED
      BY <2>1, <3>2, <3>3, LimitAssumption
  <2> QED
    BY <2>2, <2>3
<1>12. RetryAfterReachesTheNextWindow'
  <2>1. t \in Nat
    BY MaxTimeAssumption, MaxSkewAssumption
  <2>2. t + seconds_left(t) * Second \in
            (window(t) + 1) * Window..((window(t) + 1) * Window + Second - 1)
    BY <2>1, SecondsLeft
  <2>3. ASSUME NEW q \in Requests, checking'[q] = "refused"
        PROVE  readAt'[q] + retry_after'[q] * Second \in
                  (window(readAt'[q]) + 1) * Window..((window(readAt'[q]) + 1) * Window + Second - 1)
    <3>1. CASE q = r
      BY <1>2, <2>2, <2>3, <3>1
    <3>2. CASE q # r
      <4>1. checking[q] = "refused" /\ readAt'[q] = readAt[q] /\ retry_after'[q] = retry_after[q]
        BY <1>2, <2>3, <3>2
      <4> QED
        BY <4>1 DEF LimitInv, RetryAfterReachesTheNextWindow
    <3> QED
      BY <3>1, <3>2
  <2> QED
    BY <2>3 DEF RetryAfterReachesTheNextWindow, window, Window
<1> QED
  BY <1>5, <1>7, <1>9, <1>10, <1>11, <1>12

\* A step in which nothing is counted: r reads the clock, is allowed without
\* an answer of the counter, or fails after it was allowed.  A counter grows by
\* no one but r.
LEMMA UncountedStep ==
    ASSUME LimitInv, TypeOK', NEW r \in Requests,
           UNCHANGED <<now, subject, countedAt>>, local \subseteq local',
           \A q \in Requests \ {r} : /\ checking'[q] = checking[q]
                                     /\ readAt'[q] = readAt[q]
                                     /\ retry_after'[q] = retry_after[q],
           \/ checking[r] = "new" /\ checking'[r] = "count"
           \/ /\ checking[r] \in {"new", "count"} /\ checking'[r] = "allowed"
              /\ readAt'[r] = readAt[r]
           \/ /\ checking[r] = "allowed" /\ checking'[r] = "failed"
              /\ readAt'[r] = readAt[r],
           \A k \in Subjects \X Windows :
               /\ \/ counters'[k] <= counters[k]
                  \/ /\ counters'[k] <= counters[k] + 1 /\ k = counter_key(r, readAt[r])
                     /\ checking[r] = "count" /\ checking'[r] = "allowed"
               /\ k[2] \notin local' /\ window(now) <= k[2] => counters[k] <= counters'[k]
    PROVE  /\ StartedInv'
           /\ \A s \in Subjects, w \in Windows \ local' :
                  window(now) <= w => Cardinality(CountedIn(s, w)') <= counters'[<<s, w>>]
           /\ UpperInv'
           /\ LimitPerWindow'
           /\ RefusedOnlyOverTheLimit'
           /\ RetryAfterReachesTheNextWindow'
<1>1. checking'[r] \in {"count", "allowed", "failed"} /\ checking[r] # "refused"
  OBVIOUS
<1>2. StartedInv /\ StartedInv'
  <2>1. {q \in Requests : checking'[q] # "new"} = {q \in Requests : checking[q] # "new"} \cup {r}
    BY <1>1
  <2>2. IsFiniteSet({q \in Requests : checking'[q] # "new"})
    <3>1. IsFiniteSet({q \in Requests : checking[q] # "new"})
      BY DEF LimitInv, StartedInv
    <3> QED
      BY <2>1, <3>1, FS_AddElement
  <2>3. \A q \in Requests : countedAt'[q] # -1 => checking'[q] \in {"allowed", "refused", "failed"}
    BY DEF LimitInv, StartedInv
  <2> QED
    BY <2>2, <2>3 DEF LimitInv, StartedInv
<1>3. \A s, w :
         /\ CountedIn(s, w)' = CountedIn(s, w)
         /\ Admitted(s, w)' = Admitted(s, w)
         /\ Settled(s, w)' = IF /\ s = subject[r] /\ w = window(readAt[r])
                                /\ checking'[r] = "allowed"
                             THEN Settled(s, w) \cup {r} ELSE Settled(s, w)
         /\ checking[r] # "allowed" => r \notin Settled(s, w)
  <2>1. \A q \in Requests : countedAt[q] # -1 => readAt'[q] = readAt[q]
    BY <1>2 DEF StartedInv
  <2>2. \A s, w : CountedIn(s, w)' = CountedIn(s, w)
    BY <2>1 DEF CountedIn
  <2>3. \A q \in Requests : countedAt[q] # -1 =>
            (checking'[q] \in {"allowed", "failed"} <=> checking[q] \in {"allowed", "failed"})
    BY <1>2 DEF StartedInv
  <2>4. \A s, w : \A q \in CountedIn(s, w) : q \in Requests /\ countedAt[q] # -1
    BY DEF CountedIn
  <2>5. \A s, w : Admitted(s, w)' = Admitted(s, w)
    BY <2>2, <2>3, <2>4 DEF Admitted
  <2>6. ASSUME NEW s, NEW w
        PROVE  /\ Settled(s, w)' = IF /\ s = subject[r] /\ w = window(readAt[r])
                                      /\ checking'[r] = "allowed"
                                   THEN Settled(s, w) \cup {r} ELSE Settled(s, w)
               /\ checking[r] # "allowed" => r \notin Settled(s, w)
    <3>1. CASE checking[r] = "new" /\ checking'[r] = "count"
      BY <3>1 DEF Settled
    <3>2. CASE /\ checking[r] \in {"new", "count"} /\ checking'[r] = "allowed"
               /\ readAt'[r] = readAt[r]
      BY <3>2 DEF Settled
    <3>3. CASE /\ checking[r] = "allowed" /\ checking'[r] = "failed"
               /\ readAt'[r] = readAt[r]
      BY <3>3 DEF Settled
    <3> QED
      BY <3>1, <3>2, <3>3
  <2> QED
    BY <2>2, <2>5, <2>6
<1>4. ASSUME NEW s \in Subjects, NEW w \in Windows
      PROVE  /\ counters[<<s, w>>] \in Nat /\ counters'[<<s, w>>] \in Nat
             /\ Cardinality(CountedIn(s, w)) \in Nat
             /\ Cardinality(Settled(s, w)) \in Nat /\ Cardinality(Settled(s, w)') \in Nat
             /\ Cardinality(Settled(s, w)) <= Cardinality(Settled(s, w)')
             /\ counters'[<<s, w>>] <= Cardinality(Settled(s, w)')
  <2>1. <<s, w>> \in Subjects \X Windows
    OBVIOUS
  <2>2. counters[<<s, w>>] \in Nat /\ counters'[<<s, w>>] \in Nat
    BY <2>1 DEF LimitInv, TypeOK, LimiterTypeOK
  <2>3. counters[<<s, w>>] <= Cardinality(Settled(s, w))
    BY DEF LimitInv, UpperInv
  <2>4. /\ IsFiniteSet(Settled(s, w)) /\ Cardinality(Settled(s, w)) \in Nat
        /\ Cardinality(CountedIn(s, w)) \in Nat
    BY <1>2, CountsAreFinite
  <2>5. Settled(s, w)' \subseteq Settled(s, w) \cup {r} /\ Settled(s, w) \subseteq Settled(s, w)'
    BY <1>3
  <2>6. /\ Cardinality(Settled(s, w)') \in Nat
        /\ Cardinality(Settled(s, w)) <= Cardinality(Settled(s, w)')
    BY <2>4, <2>5, Grows, FS_CardinalityType
  <2>7. CASE counters'[<<s, w>>] <= counters[<<s, w>>]
    BY <2>2, <2>3, <2>4, <2>6, <2>7
  <2>8. CASE /\ counters'[<<s, w>>] <= counters[<<s, w>>] + 1
             /\ <<s, w>> = counter_key(r, readAt[r])
             /\ checking[r] = "count" /\ checking'[r] = "allowed"
    <3>1. s = subject[r] /\ w = window(readAt[r])
      BY <2>8 DEF counter_key
    <3>2. Settled(s, w)' = Settled(s, w) \cup {r} /\ r \notin Settled(s, w)
      BY <1>3, <2>8, <3>1
    <3>3. Cardinality(Settled(s, w)') = Cardinality(Settled(s, w)) + 1
      BY <2>4, <3>2, FS_AddElement
    <3> QED
      BY <2>2, <2>3, <2>4, <2>6, <2>8, <3>3
  <2>9. \/ counters'[<<s, w>>] <= counters[<<s, w>>]
        \/ /\ counters'[<<s, w>>] <= counters[<<s, w>>] + 1
           /\ <<s, w>> = counter_key(r, readAt[r])
           /\ checking[r] = "count" /\ checking'[r] = "allowed"
    BY <2>1
  <2> QED
    BY <2>2, <2>4, <2>6, <2>7, <2>8, <2>9
<1>5. \A s \in Subjects, w \in Windows \ local' :
          window(now) <= w => Cardinality(CountedIn(s, w)') <= counters'[<<s, w>>]
  <2> SUFFICES ASSUME NEW s \in Subjects, NEW w \in Windows \ local', window(now) <= w
               PROVE  Cardinality(CountedIn(s, w)') <= counters'[<<s, w>>]
    OBVIOUS
  <2>1. Cardinality(CountedIn(s, w)) <= counters[<<s, w>>]
    BY DEF LimitInv, CounterInv
  <2>2. <<s, w>> \in Subjects \X Windows /\ <<s, w>>[2] = w
    OBVIOUS
  <2>3. counters[<<s, w>>] <= counters'[<<s, w>>]
    BY <2>2
  <2>4. CountedIn(s, w)' = CountedIn(s, w)
    BY <1>3
  <2> QED
    BY <1>4, <2>1, <2>3, <2>4
<1>6. UpperInv'
  BY <1>4 DEF UpperInv
<1>7. LimitPerWindow'
  <2> SUFFICES ASSUME NEW s \in Subjects, NEW w \in Windows \ local'
               PROVE  Cardinality(Admitted(s, w)') <= Limit
    BY DEF LimitPerWindow, Admitted
  <2>1. Cardinality(Admitted(s, w)) <= Limit
    BY DEF LimitInv, LimitPerWindow, Admitted
  <2> QED
    BY <1>3, <2>1
<1>8. RefusedOnlyOverTheLimit'
  <2> SUFFICES ASSUME NEW q \in Requests, checking'[q] = "refused",
                      NEW s \in Subjects, s = subject[q],
                      NEW w \in Windows, w = window(readAt'[q])
               PROVE  Cardinality(Settled(s, w)') > Limit
    <3>1. \A q \in Requests : subject[q] \in Subjects /\ window(readAt'[q]) \in Windows
      BY WindowsAreKnown DEF LimitInv, TypeOK, LimiterTypeOK
    <3> QED
      BY <3>1 DEF RefusedOnlyOverTheLimit, Settled
  <2>1. checking[q] = "refused" /\ w = window(readAt[q])
    BY <1>1
  <2>2. Cardinality(Settled(s, w)) > Limit
    BY <2>1 DEF LimitInv, RefusedOnlyOverTheLimit, Settled
  <2>3. /\ Cardinality(Settled(s, w)) \in Nat /\ Cardinality(Settled(s, w)') \in Nat
        /\ Cardinality(Settled(s, w)) <= Cardinality(Settled(s, w)')
    BY <1>4
  <2> QED
    BY <2>2, <2>3, LimitAssumption
<1>9. RetryAfterReachesTheNextWindow'
  <2>1. \A q \in Requests : checking'[q] = "refused" =>
            checking[q] = "refused" /\ readAt'[q] = readAt[q] /\ retry_after'[q] = retry_after[q]
    BY <1>1
  <2> QED
    BY <2>1 DEF LimitInv, RetryAfterReachesTheNextWindow
<1> QED
  BY <1>2, <1>5, <1>6, <1>7, <1>8, <1>9

\* INCR and EXPIRE under the key of r: what is counted on is all that was
\* counted if the window is not over, and the counter outlives its window if
\* the window was derived from the server's clock.
LEMMA IncrStep ==
    ASSUME LimitInv, TypeOK', NEW r \in Requests, limiter = "redis", checking[r] = "count",
           INCR_EXPIRE(counter_key(r, readAt[r])),
           UNCHANGED <<now, limiter, local>>
    PROVE  /\ stored(counter_key(r, readAt[r])) \in Nat
           /\ stored(counter_key(r, readAt[r])) <= counters[counter_key(r, readAt[r])]
           /\ window(readAt[r]) \notin local /\ window(now) <= window(readAt[r]) =>
                  stored(counter_key(r, readAt[r])) = counters[counter_key(r, readAt[r])]
           /\ counters'[counter_key(r, readAt[r])] = stored(counter_key(r, readAt[r])) + 1
           /\ \A k \in Subjects \X Windows :
                  k # counter_key(r, readAt[r]) => counters'[k] = counters[k]
           /\ \A s \in Subjects, w \in Windows \ local :
                  expires'[<<s, w>>] # 0 => Window * w + Window <= expires'[<<s, w>>]
           /\ NoCounterStays'
<1>a. subject[r] \in Subjects /\ readAt[r] \in 0..(MaxTime + MaxSkew) /\ window(readAt[r]) \in Windows
  BY WindowsAreKnown DEF LimitInv, TypeOK, LimiterTypeOK
<1>b. PICK s0 \in Subjects : s0 = subject[r]
  BY <1>a
<1>c. PICK w0 \in Windows : w0 = window(readAt[r])
  BY <1>a
<1>1. counter_key(r, readAt[r]) = <<s0, w0>> /\ <<s0, w0>> \in Subjects \X Windows
  BY <1>b, <1>c DEF counter_key
<1>2. /\ now \in Nat /\ readAt[r] \in Nat /\ w0 \in Nat
      /\ counters \in [Subjects \X Windows -> Nat] /\ expires \in [Subjects \X Windows -> Nat]
      /\ Window \in Nat \ {0}
  BY <1>a, <1>c, WindowContains, WindowIsPositive, MaxTimeAssumption, MaxSkewAssumption
     DEF LimitInv, TypeOK, LimiterTypeOK
<1>3. /\ window(now) \in Nat /\ now < Window * window(now) + Window
      /\ Window * w0 <= readAt[r]
  BY <1>c, <1>2, WindowContains
<1> DEFINE used == stored(<<s0, w0>>)
<1>4. used \in Nat /\ used <= counters[<<s0, w0>>] /\ used \in {0, counters[<<s0, w0>>]}
  BY <1>1, <1>2 DEF stored
<1>5. w0 \notin local /\ window(now) <= w0 => used = counters[<<s0, w0>>]
  <2> SUFFICES ASSUME w0 \notin local, window(now) <= w0,
                      expires[<<s0, w0>>] # 0, now >= expires[<<s0, w0>>]
               PROVE  FALSE
    BY DEF stored
  <2>1. Window * w0 + Window <= expires[<<s0, w0>>]
    BY DEF LimitInv, CounterInv
  <2>2. Window * window(now) <= Window * w0
    BY <1>2, <1>3, Multiples
  <2>3. expires[<<s0, w0>>] \in Nat /\ Window * w0 \in Nat /\ Window * window(now) \in Nat
    BY <1>1, <1>2, <1>3
  <2> QED
    BY <1>2, <1>3, <2>1, <2>2, <2>3
<1>6. /\ counters' = [counters EXCEPT ![<<s0, w0>>] = used + 1]
      /\ expires' = [expires EXCEPT ![<<s0, w0>>] =
                        IF used = 0 \/ @ = 0 THEN now + Window ELSE @]
  BY <1>1 DEF INCR_EXPIRE
<1> HIDE DEF used
<1>7. ASSUME NEW s \in Subjects, NEW w \in Windows \ local, expires'[<<s, w>>] # 0
      PROVE  Window * w + Window <= expires'[<<s, w>>]
  <2>1. <<s, w>> \in Subjects \X Windows
    OBVIOUS
  <2>2. CASE expires'[<<s, w>>] = expires[<<s, w>>]
    BY <1>7, <2>2 DEF LimitInv, CounterInv
  <2>3. CASE s = s0 /\ w = w0 /\ expires'[<<s, w>>] = now + Window
    <3>1. readAt[r] <= now
      BY <1>c, <2>3 DEF LimitInv, CounterInv
    <3>2. Window * w \in Nat /\ Window * w <= readAt[r]
      BY <1>2, <1>3, <2>3
    <3> QED
      BY <1>2, <2>3, <3>1, <3>2
  <2> QED
    BY <1>2, <1>6, <2>1, <2>2, <2>3
<1>8. NoCounterStays'
  <2> SUFFICES ASSUME NEW k \in Subjects \X Windows, counters'[k] > 0
               PROVE  expires'[k] \in 1..(now + Window)
    BY <1>2, <1>6 DEF NoCounterStays
  <2>0. \A l \in Subjects \X Windows : counters[l] > 0 => expires[l] \in 1..(now + Window)
    BY <1>2 DEF LimitInv, KeptInv, NoCounterStays
  <2>1. CASE k # <<s0, w0>>
    <3>1. counters'[k] = counters[k] /\ expires'[k] = expires[k]
      BY <1>2, <1>6, <2>1
    <3> QED
      BY <2>0, <3>1
  <2>2. CASE k = <<s0, w0>>
    <3>1. expires'[k] = IF used = 0 \/ expires[k] = 0 THEN now + Window ELSE expires[k]
      BY <1>2, <1>6, <2>2
    <3>2. CASE used = 0 \/ expires[k] = 0
      BY <1>2, <3>1, <3>2
    <3>3. CASE used # 0 /\ expires[k] # 0
      <4>1. counters[k] > 0
        BY <1>2, <1>4, <2>2, <3>3
      <4> QED
        BY <2>0, <3>1, <3>3, <4>1
    <3> QED
      BY <3>2, <3>3
  <2> QED
    BY <2>1, <2>2
<1>9. \A k \in Subjects \X Windows : k # <<s0, w0>> => counters'[k] = counters[k]
  BY <1>2, <1>6
<1>10. counters'[<<s0, w0>>] = used + 1
  BY <1>1, <1>2, <1>6
<1> QED
  BY <1>1, <1>c, <1>4, <1>5, <1>7, <1>8, <1>9, <1>10 DEF used

\* A check keeps the limit.
LEMMA CheckLimit ==
    ASSUME LimitInv, TypeOK', NEW r \in Requests, EnforceRateLimit(r)
    PROVE  LimitInv'
<1>0. UNCHANGED <<now, subject>> /\ Check(r) /\ UNCHANGED limiter
  BY DEF EnforceRateLimit, Check, CheckNothing, CheckInMemory, WindowNow, Count
<1>1. /\ now \in 0..(MaxTime + MaxSkew) /\ now \in Nat
      /\ readAt \in [Requests -> 0..(MaxTime + MaxSkew)]
      /\ checking \in [Requests -> CheckState]
      /\ counters \in [Subjects \X Windows -> Nat]
      /\ subject \in [Requests -> Subjects]
      /\ local \in SUBSET Windows
  BY MaxTimeAssumption, MaxSkewAssumption DEF LimitInv, TypeOK, LimiterTypeOK
<1>2. CASE CheckNothing(r)
  <2>1. /\ checking' = [checking EXCEPT ![r] = "allowed"]
        /\ UNCHANGED <<retry_after, limiter, counters, expires, readAt, countedAt, local>>
        /\ limiter = "none" /\ checking[r] = "new"
    BY <1>2 DEF CheckNothing, allow
  <2>2. \A k \in Subjects \X Windows : counters'[k] <= counters[k] /\ counters[k] <= counters'[k]
    BY <1>1, <2>1
  <2>3. /\ StartedInv' /\ UpperInv' /\ LimitPerWindow'
        /\ RefusedOnlyOverTheLimit' /\ RetryAfterReachesTheNextWindow'
        /\ \A s \in Subjects, w \in Windows \ local' :
               window(now) <= w => Cardinality(CountedIn(s, w)') <= counters'[<<s, w>>]
    BY <1>0, <1>1, <2>1, <2>2, UncountedStep
  <2>4. CounterInv'
    BY <1>0, <1>1, <2>1, <2>3 DEF LimitInv, CounterInv
  <2>5. KeptInv'
    BY <1>0, <2>1 DEF LimitInv, KeptInv, NoCounterStays
  <2> QED
    BY <2>3, <2>4, <2>5 DEF LimitInv
<1>3. CASE CheckInMemory(r)
  <2> DEFINE key == counter_key(r, now)
  <2>1. /\ limiter = "memory" /\ checking[r] = "new"
        /\ counters' = [k \in DOMAIN counters |-> IF k = key THEN counters[key] + 1 ELSE pruned(k)]
        /\ decide(r, counters[key] + 1, now)
        /\ readAt' = [readAt EXCEPT ![r] = now]
        /\ UNCHANGED <<limiter, expires, local>>
    BY <1>3 DEF CheckInMemory
  <2>2. key \in Subjects \X Windows /\ key[2] = window(now) /\ counters[key] \in Nat
    BY <1>1, WindowsAreKnown DEF counter_key
  <2>3. window(now) \in Nat /\ \A k \in Subjects \X Windows : k[2] \in Int
    BY <1>1, WindowContains DEF Windows
  <2>4. /\ counters'[key] = counters[key] + 1
        /\ \A k \in Subjects \X Windows : k # key =>
              counters'[k] = IF k[2] < window(now) THEN 0 ELSE counters[k]
    BY <1>1, <2>1, <2>2 DEF pruned
  <2>5. /\ readAt'[r] = now /\ \A q \in Requests \ {r} : readAt'[q] = readAt[q]
    BY <1>1, <2>1
  <2>6. \A k \in Subjects \X Windows : k # key =>
            /\ counters'[k] <= counters[k]
            /\ window(now) <= k[2] => counters'[k] = counters[k]
    BY <1>1, <2>3, <2>4
  <2>7. /\ StartedInv' /\ UpperInv' /\ LimitPerWindow'
        /\ RefusedOnlyOverTheLimit' /\ RetryAfterReachesTheNextWindow'
        /\ \A s \in Subjects, w \in Windows \ local :
               window(now) <= w => Cardinality(CountedIn(s, w)') <= counters'[<<s, w>>]
    <3> DEFINE c == counters[key]
    <3>1. /\ c \in Nat /\ decide(r, c + 1, now) /\ counters'[counter_key(r, now)] = c + 1
          /\ c <= counters[counter_key(r, now)] /\ c = counters[counter_key(r, now)]
      BY <2>1, <2>2, <2>4
    <3> HIDE DEF c
    <3>2. \A k \in Subjects \X Windows : k # counter_key(r, now) =>
            /\ counters'[k] <= counters[k]
            /\ window(now) <= k[2] => counters'[k] = counters[k]
      BY <2>6
    <3> HIDE DEF key
    <3>3. UNCHANGED <<now, subject, local>> /\ checking[r] \in {"new", "count"}
      BY <1>0, <2>1
    <3>4. PICK t \in 0..(MaxTime + MaxSkew) : t = now
      BY <1>1
    <3>5. PICK d \in Nat : d = c
      BY <3>1
    <3> QED
      BY <2>5, <3>1, <3>2, <3>3, <3>4, <3>5, CountedStep
  <2>8. CounterInv'
    <3>1. \A q \in Requests : checking'[q] = "count" => checking[q] = "count" /\ readAt'[q] = readAt[q]
      BY <1>1, <2>1, <2>5 DEF decide
    <3>2. \A k \in Subjects \X Windows : expires'[k] = 0
      BY <2>1 DEF LimitInv, CounterInv
    <3> QED
      BY <1>0, <2>1, <2>7, <3>1, <3>2 DEF LimitInv, CounterInv
  <2>9. KeptInv'
    <3>1. \A k \in Subjects \X Windows : counters'[k] > 0 => k[2] = window(now)
      <4> SUFFICES ASSUME NEW k \in Subjects \X Windows, counters'[k] > 0, k # key
                   PROVE  k[2] = window(now)
        BY <2>2
      <4>1. counters[k] > 0 /\ ~(k[2] < window(now))
        BY <1>1, <2>3, <2>4
      <4>2. k[2] <= window(now)
        BY <2>1, <4>1 DEF LimitInv, KeptInv
      <4> QED
        BY <2>3, <4>1, <4>2
    <3>2. DOMAIN counters' = Subjects \X Windows
      BY <1>1, <2>1
    <3> QED
      BY <1>0, <2>1, <2>3, <3>1, <3>2 DEF KeptInv, NoCounterStays
  <2> QED
    BY <1>0, <2>1, <2>7, <2>8, <2>9 DEF LimitInv
<1>4. CASE WindowNow(r)
  <2>1. /\ limiter = "redis" /\ checking[r] = "new"
        /\ checking' = [checking EXCEPT ![r] = "count"]
        /\ UNCHANGED <<limiter, counters, expires, countedAt, retry_after>>
    BY <1>4 DEF WindowNow
  <2>2. \A q \in Requests \ {r} : readAt'[q] = readAt[q]
    BY <1>1, <1>4 DEF WindowNow
  <2>3. /\ local \subseteq local'
        /\ readAt'[r] = now \/ window(readAt'[r]) \in local'
    BY <1>1, <1>4 DEF WindowNow
  <2>4. \A k \in Subjects \X Windows : counters'[k] <= counters[k] /\ counters[k] <= counters'[k]
    BY <1>1, <2>1
  <2>5. /\ StartedInv' /\ UpperInv' /\ LimitPerWindow'
        /\ RefusedOnlyOverTheLimit' /\ RetryAfterReachesTheNextWindow'
        /\ \A s \in Subjects, w \in Windows \ local' :
               window(now) <= w => Cardinality(CountedIn(s, w)') <= counters'[<<s, w>>]
    BY <1>0, <1>1, <2>1, <2>2, <2>3, <2>4, UncountedStep
  <2>6. ASSUME NEW q \in Requests, checking'[q] = "count", window(readAt'[q]) \notin local'
        PROVE  readAt'[q] <= now
    <3>1. CASE q = r
      BY <1>1, <2>3, <2>6, <3>1
    <3>2. CASE q # r
      BY <1>1, <2>1, <2>2, <2>3, <2>6, <3>2 DEF LimitInv, CounterInv
    <3> QED
      BY <3>1, <3>2
  <2>7. CounterInv'
    <3>1. limiter' = "redis" /\ now' = now /\ expires' = expires
      BY <1>0, <2>1
    <3>2. \A s \in Subjects, w \in Windows \ local' :
               expires'[<<s, w>>] # 0 => Window * w + Window <= expires'[<<s, w>>]
      BY <2>1, <2>3, <3>1 DEF LimitInv, CounterInv
    <3> QED
      BY <2>5, <2>6, <3>1, <3>2 DEF CounterInv
  <2>8. KeptInv'
    BY <1>0, <2>1 DEF LimitInv, KeptInv, NoCounterStays
  <2> QED
    BY <2>5, <2>7, <2>8 DEF LimitInv
<1>5. CASE Count(r)
  <2> DEFINE key == counter_key(r, readAt[r])
  <2>1. limiter = "redis" /\ checking[r] = "count" /\ UNCHANGED <<limiter, readAt, local>>
    BY <1>5 DEF Count
  <2>2. ASSUME INCR_EXPIRE(key)
        PROVE  /\ stored(key) \in Nat
               /\ stored(key) <= counters[key]
               /\ window(readAt[r]) \notin local /\ window(now) <= window(readAt[r]) =>
                      stored(key) = counters[key]
               /\ counters'[key] = stored(key) + 1
               /\ \A k \in Subjects \X Windows : k # key => counters'[k] = counters[k]
               /\ \A s \in Subjects, w \in Windows \ local :
                      expires'[<<s, w>>] # 0 => Window * w + Window <= expires'[<<s, w>>]
               /\ NoCounterStays'
    BY <1>0, <2>1, <2>2, IncrStep
  <2>3. key \in Subjects \X Windows /\ key[2] = window(readAt[r]) /\ counters[key] \in Nat
    BY <1>1, WindowsAreKnown DEF counter_key
  <2>4. \A k \in Subjects \X Windows : counters[k] \in Nat
    BY <1>1
  <2>5. ASSUME checking'[r] \in {"allowed", "refused"},
               \A q \in Requests \ {r} : checking'[q] = checking[q],
               INCR_EXPIRE(key) \/ UNCHANGED <<counters, expires>>,
               \A s \in Subjects, w \in Windows \ local :
                   window(now) <= w => Cardinality(CountedIn(s, w)') <= counters'[<<s, w>>]
        PROVE  CounterInv' /\ KeptInv'
    <3>1. /\ NoCounterStays'
          /\ \A s \in Subjects, w \in Windows \ local :
                 expires'[<<s, w>>] # 0 => Window * w + Window <= expires'[<<s, w>>]
      <4>1. CASE INCR_EXPIRE(key)
        BY <2>2, <4>1
      <4>2. CASE UNCHANGED <<counters, expires>>
        BY <1>0, <2>1, <4>2 DEF LimitInv, CounterInv, KeptInv, NoCounterStays
      <4> QED
        BY <2>5, <4>1, <4>2
    <3>2. \A q \in Requests : checking'[q] = "count" => checking[q] = "count"
      BY <2>5
    <3>3. CounterInv'
      BY <1>0, <2>1, <2>5, <3>1, <3>2 DEF LimitInv, CounterInv
    <3> QED
      BY <1>0, <2>1, <3>1, <3>3 DEF KeptInv
  <2>6. CASE INCR_EXPIRE(key) /\ decide(r, stored(key) + 1, readAt[r])
    <3> DEFINE c == stored(key)
    <3>1. /\ c \in Nat /\ decide(r, c + 1, readAt[r])
          /\ counters'[counter_key(r, readAt[r])] = c + 1
          /\ c <= counters[counter_key(r, readAt[r])]
          /\ window(readAt[r]) \notin local /\ window(now) <= window(readAt[r]) =>
                 c = counters[counter_key(r, readAt[r])]
      BY <2>2, <2>6
    <3>2. \A k \in Subjects \X Windows : k # counter_key(r, readAt[r]) =>
            /\ counters'[k] <= counters[k]
            /\ window(now) <= k[2] => counters'[k] = counters[k]
      BY <2>2, <2>4, <2>6
    <3> HIDE DEF key, c
    <3>3. UNCHANGED <<now, subject, local, readAt>> /\ checking[r] \in {"new", "count"}
      BY <1>0, <2>1
    <3>4. PICK t \in 0..(MaxTime + MaxSkew) : t = readAt[r]
      BY <1>1
    <3>5. PICK d \in Nat : d = c
      BY <3>1
    <3>6. /\ StartedInv' /\ UpperInv' /\ LimitPerWindow'
          /\ RefusedOnlyOverTheLimit' /\ RetryAfterReachesTheNextWindow'
          /\ \A s \in Subjects, w \in Windows \ local :
                 window(now) <= w => Cardinality(CountedIn(s, w)') <= counters'[<<s, w>>]
      BY <3>1, <3>2, <3>3, <3>4, <3>5, CountedStep
    <3>7. /\ checking'[r] \in {"allowed", "refused"}
          /\ \A q \in Requests \ {r} : checking'[q] = checking[q]
      BY <1>1, <3>1 DEF decide
    <3>8. CounterInv' /\ KeptInv'
      BY <2>5, <2>6, <3>6, <3>7
    <3> QED
      BY <3>6, <3>8 DEF LimitInv
  <2>7. CASE /\ INCR_EXPIRE(key) \/ UNCHANGED <<counters, expires>>
             /\ allow(r) /\ UNCHANGED countedAt
    <3>1. /\ checking' = [checking EXCEPT ![r] = "allowed"] /\ UNCHANGED retry_after
      BY <2>7 DEF allow
    <3>2. \A k \in Subjects \X Windows :
               /\ \/ counters'[k] <= counters[k]
                  \/ counters'[k] <= counters[k] + 1 /\ k = counter_key(r, readAt[r])
               /\ k[2] \notin local' /\ window(now) <= k[2] => counters[k] <= counters'[k]
      <4>1. CASE INCR_EXPIRE(key)
        <5> SUFFICES ASSUME NEW k \in Subjects \X Windows
                     PROVE  /\ \/ counters'[k] <= counters[k]
                               \/ counters'[k] <= counters[k] + 1 /\ k = key
                            /\ k[2] \notin local' /\ window(now) <= k[2] =>
                                   counters[k] <= counters'[k]
          OBVIOUS
        <5>1. CASE k = key
          BY <2>1, <2>2, <2>3, <4>1, <5>1
        <5>2. CASE k # key
          BY <2>2, <2>4, <4>1, <5>2
        <5> QED
          BY <5>1, <5>2
      <4>2. CASE UNCHANGED <<counters, expires>>
        BY <2>4, <4>2
      <4> QED
        BY <2>7, <4>1, <4>2
    <3>3. /\ checking'[r] = "allowed" /\ readAt'[r] = readAt[r]
          /\ local \subseteq local' /\ UNCHANGED <<now, subject, countedAt>>
          /\ \A q \in Requests \ {r} : /\ checking'[q] = checking[q]
                                       /\ readAt'[q] = readAt[q]
                                       /\ retry_after'[q] = retry_after[q]
      BY <1>0, <1>1, <2>1, <2>7, <3>1
    <3> HIDE DEF key
    <3>4. /\ StartedInv' /\ UpperInv' /\ LimitPerWindow'
          /\ RefusedOnlyOverTheLimit' /\ RetryAfterReachesTheNextWindow'
          /\ \A s \in Subjects, w \in Windows \ local' :
                 window(now) <= w => Cardinality(CountedIn(s, w)') <= counters'[<<s, w>>]
      BY <2>1, <3>2, <3>3, UncountedStep
    <3>5. CounterInv' /\ KeptInv'
      BY <2>1, <2>5, <2>7, <3>3, <3>4
    <3> QED
      BY <3>4, <3>5 DEF LimitInv
  <2> QED
    BY <1>5, <2>6, <2>7 DEF Count
<1> QED
  BY <1>0, <1>2, <1>3, <1>4, <1>5 DEF Check

\* Where the limiter's state is left alone, time may pass.
LEMMA TimeLimit ==
    ASSUME LimitInv, TypeOK', UNCHANGED <<subject, limiterVars>>, now' \in {now, now + 1}
    PROVE  LimitInv'
<1>1. UNCHANGED <<subject, limiter, counters, expires, checking, readAt,
                  countedAt, retry_after, local>>
  BY DEF limiterVars
<1>2. now \in Nat /\ now' \in Nat /\ now <= now' /\ Window \in Nat
  BY WindowIsPositive DEF LimitInv, TypeOK
<1>3. window(now) <= window(now') /\ window(now) \in Nat /\ window(now') \in Nat
  BY <1>2, WindowsAreOrdered, WindowContains
<1>4. StartedInv' /\ UpperInv'
  BY <1>1 DEF LimitInv, StartedInv, UpperInv, Settled
<1>5. LimitPerWindow' /\ RefusedOnlyOverTheLimit' /\ RetryAfterReachesTheNextWindow'
  <2>1. LimitPerWindow'
    BY <1>1 DEF LimitInv, LimitPerWindow, CountedIn
  <2>2. RefusedOnlyOverTheLimit'
    BY <1>1 DEF LimitInv, RefusedOnlyOverTheLimit
  <2>3. RetryAfterReachesTheNextWindow'
    BY <1>1 DEF LimitInv, RetryAfterReachesTheNextWindow
  <2> QED
    BY <2>1, <2>2, <2>3
<1>6. CounterInv'
  <2>1. \A r \in Requests :
           checking'[r] = "count" /\ window(readAt'[r]) \notin local' => readAt'[r] <= now'
    <3> SUFFICES ASSUME NEW r \in Requests, checking[r] = "count", window(readAt[r]) \notin local
                 PROVE  readAt[r] <= now'
      BY <1>1
    <3>1. readAt[r] <= now /\ readAt[r] \in Nat
      BY MaxTimeAssumption, MaxSkewAssumption DEF LimitInv, CounterInv, TypeOK, LimiterTypeOK
    <3> QED
      BY <1>2, <3>1
  <2>2. \A s, w : CountedIn(s, w)' = CountedIn(s, w)
    BY <1>1 DEF CountedIn
  <2>3. \A w \in Windows : window(now') <= w => window(now) <= w
    BY <1>3 DEF Windows
  <2>4. \A s \in Subjects, w \in Windows \ local' :
           window(now') <= w => Cardinality(CountedIn(s, w)') <= counters'[<<s, w>>]
    BY <1>1, <2>2, <2>3 DEF LimitInv, CounterInv
  <2> QED
    BY <1>1, <2>1, <2>4 DEF LimitInv, CounterInv
<1>7. KeptInv'
  <2>1. \A k \in Subjects \X Windows : k[2] \in Int
    BY DEF Windows
  <2>2. \A k \in DOMAIN counters : expires[k] \in 1..(now + Window) => expires[k] \in 1..(now' + Window)
    BY <1>2
  <2> QED
    BY <1>1, <1>3, <2>1, <2>2 DEF LimitInv, KeptInv, NoCounterStays
<1> QED
  BY <1>4, <1>5, <1>6, <1>7 DEF LimitInv

\* Every step keeps the limit.
LEMMA LimitNext == LimitInv /\ [Next]_vars => LimitInv'
<1> SUFFICES ASSUME LimitInv, [Next]_vars PROVE LimitInv'
  OBVIOUS
<1>0. TypeOK'
  BY TypeNext DEF LimitInv
<1>1. ASSUME NEW r \in Requests, EnforceRateLimit(r) PROVE LimitInv'
  BY <1>0, <1>1, CheckLimit
<1>2. ASSUME NEW r \in Requests, IssueTicket(r) PROVE LimitInv'
  <2>1. /\ checking[r] = "allowed"
        /\ UNCHANGED <<now, subject, limiter, counters, expires, readAt, countedAt,
                       retry_after, local>>
        /\ \/ UNCHANGED checking
           \/ checking' = [checking EXCEPT ![r] = "failed"]
    BY <1>2 DEF IssueTicket
  <2>2. CASE UNCHANGED checking
    BY <1>0, <2>1, <2>2, TimeLimit DEF limiterVars
  <2>3. CASE checking' = [checking EXCEPT ![r] = "failed"]
    <3>1. /\ checking'[r] = "failed" /\ readAt'[r] = readAt[r] /\ local \subseteq local'
          /\ \A q \in Requests \ {r} : /\ checking'[q] = checking[q]
                                       /\ readAt'[q] = readAt[q]
                                       /\ retry_after'[q] = retry_after[q]
      BY <2>1, <2>3 DEF LimitInv, TypeOK, LimiterTypeOK
    <3>2. \A k \in Subjects \X Windows : counters'[k] <= counters[k] /\ counters[k] <= counters'[k]
      BY <2>1 DEF LimitInv, TypeOK, LimiterTypeOK
    <3>3. /\ StartedInv' /\ UpperInv' /\ LimitPerWindow'
          /\ RefusedOnlyOverTheLimit' /\ RetryAfterReachesTheNextWindow'
          /\ \A s \in Subjects, w \in Windows \ local' :
                 window(now) <= w => Cardinality(CountedIn(s, w)') <= counters'[<<s, w>>]
      BY <1>0, <2>1, <3>1, <3>2, UncountedStep
    <3>4. CounterInv' /\ KeptInv'
      BY <2>1, <3>1, <3>3 DEF LimitInv, CounterInv, KeptInv, NoCounterStays
    <3> QED
      BY <1>0, <3>3, <3>4 DEF LimitInv
  <2> QED
    BY <2>1, <2>2, <2>3
<1>3. ASSUME NEW h \in Handshakes, AuthenticateSocket(h) PROVE LimitInv'
  BY <1>0, <1>3, TimeLimit DEF AuthenticateSocket
<1>4. CASE Tick
  BY <1>0, <1>4, TimeLimit DEF Tick
<1>5. CASE UNCHANGED vars
  BY <1>0, <1>5, TimeLimit DEF vars, limiterVars
<1> QED
  BY <1>1, <1>2, <1>3, <1>4, <1>5 DEF Next

-----------------------------------------------------------------------------
(* What is let through uncounted. *)

\* The requests UncountedOnlyOnFailure counts.
Uncounted == {r \in Requests : checking[r] \in {"allowed", "failed"} /\ countedAt[r] = -1}

LEMMA UncountedInit == Init => UncountedOnlyOnFailure
<1> SUFFICES ASSUME Init PROVE UncountedOnlyOnFailure
  OBVIOUS
<1>1. Uncounted = {} /\ faults = 0
  BY DEF Init, LimiterInit, Uncounted
<1> QED
  BY <1>1, FS_EmptySet DEF UncountedOnlyOnFailure, Uncounted

\* At most one request joins them in a step, and then Redis has failed; no
\* failure is forgotten.
LEMMA UncountedJoins ==
    ASSUME LimitInv, limiter # "none", [Next]_vars
    PROVE  /\ limiter' = limiter
           /\ faults' \in Nat /\ faults <= faults'
           /\ \/ Uncounted' \subseteq Uncounted
              \/ /\ \E r \in Requests : Uncounted' \subseteq Uncounted \cup {r}
                 /\ faults' = faults + 1
<1> USE DEF LimitInv, TypeOK, LimiterTypeOK, Uncounted
<1>0. faults \in Nat
  BY MaxFaultsAssumption
<1>1. ASSUME NEW r \in Requests, EnforceRateLimit(r)
      PROVE  /\ limiter' = limiter
             /\ faults' \in {faults, faults + 1}
             /\ \/ Uncounted' \subseteq Uncounted
                \/ Uncounted' \subseteq Uncounted \cup {r} /\ faults' = faults + 1
  <2>1. CASE CheckInMemory(r)
    <3>1. /\ countedAt' = [countedAt EXCEPT ![r] = now] /\ now # -1
          /\ \A q \in Requests \ {r} : checking'[q] = checking[q]
          /\ UNCHANGED <<limiter, faults>>
      BY <2>1 DEF CheckInMemory, decide
    <3> QED
      BY <3>1
  <2>2. CASE WindowNow(r)
    <3>1. /\ checking' = [checking EXCEPT ![r] = "count"]
          /\ UNCHANGED <<limiter, countedAt>>
          /\ faults' \in {faults, faults + 1}
      BY <2>2 DEF WindowNow, RedisFails
    <3> QED
      BY <3>1
  <2>3. CASE Count(r)
    <3> DEFINE key == counter_key(r, readAt[r])
    <3>1. CASE decide(r, stored(key) + 1, readAt[r]) /\ UNCHANGED faults
      <4>1. /\ countedAt' = [countedAt EXCEPT ![r] = now] /\ now # -1
            /\ \A q \in Requests \ {r} : checking'[q] = checking[q]
        BY <3>1 DEF decide
      <4> QED
        BY <2>3, <3>1, <4>1 DEF Count
    <3>2. CASE RedisFails /\ allow(r) /\ UNCHANGED countedAt
      <4>1. /\ \A q \in Requests \ {r} : checking'[q] = checking[q]
            /\ faults' = faults + 1
        BY <3>2 DEF allow, RedisFails
      <4> QED
        BY <2>3, <3>2, <4>1 DEF Count
    <3> QED
      BY <2>3, <3>1, <3>2 DEF Count
  <2> QED
    BY <1>1, <2>1, <2>2, <2>3 DEF EnforceRateLimit, Check, CheckNothing
<1>2. ASSUME NEW r \in Requests, IssueTicket(r)
      PROVE  /\ limiter' = limiter
             /\ faults' \in {faults, faults + 1}
             /\ Uncounted' \subseteq Uncounted
  <2>1. /\ checking[r] = "allowed" /\ UNCHANGED <<limiter, countedAt>>
        /\ \A q \in Requests \ {r} : checking'[q] = checking[q]
        /\ faults' \in {faults, faults + 1}
    BY <1>2 DEF IssueTicket, issue, issue_fails, RedisFails
  <2> QED
    BY <2>1
<1>3. ASSUME NEW h \in Handshakes, AuthenticateSocket(h)
      PROVE  /\ UNCHANGED <<limiter, checking, countedAt>>
             /\ faults' \in {faults, faults + 1}
  BY <1>3 DEF AuthenticateSocket, limiterVars, redeem, redeem_fails, RedisFails
<1>4. CASE Tick
  BY <1>0, <1>4 DEF Tick, limiterVars
<1>5. CASE UNCHANGED vars
  BY <1>0, <1>5 DEF vars
<1> QED
  BY <1>0, <1>1, <1>2, <1>3, <1>4, <1>5 DEF Next

LEMMA UncountedNext ==
    LimitInv /\ UncountedOnlyOnFailure /\ [Next]_vars => UncountedOnlyOnFailure'
<1> SUFFICES ASSUME LimitInv, UncountedOnlyOnFailure, [Next]_vars, limiter' # "none"
             PROVE  Cardinality(Uncounted') <= faults'
  BY DEF UncountedOnlyOnFailure, Uncounted
<1>1. CASE limiter = "none"
  <2>1. UNCHANGED limiter
    BY <1>1 DEF Next, EnforceRateLimit, Check, CheckNothing, CheckInMemory, WindowNow, Count,
                IssueTicket, AuthenticateSocket, Tick, vars, limiterVars
  <2> QED
    BY <1>1, <2>1
<1>2. CASE limiter # "none"
  <2>1. IsFiniteSet(Uncounted) /\ Cardinality(Uncounted) \in Nat
    <3>1. Uncounted \subseteq {r \in Requests : checking[r] # "new"}
      BY DEF Uncounted
    <3> QED
      BY <3>1, FS_Subset, FS_CardinalityType DEF LimitInv, StartedInv
  <2>2. Cardinality(Uncounted) <= faults /\ faults \in Nat
    BY <1>2, MaxFaultsAssumption DEF UncountedOnlyOnFailure, Uncounted, LimitInv, TypeOK
  <2>3. CASE Uncounted' \subseteq Uncounted
    <3>1. IsFiniteSet(Uncounted') /\ Cardinality(Uncounted') <= Cardinality(Uncounted)
      BY <2>1, <2>3, FS_Subset
    <3> QED
      BY <1>2, <2>1, <2>2, <3>1, UncountedJoins, FS_CardinalityType
  <2>4. ASSUME NEW r \in Requests, Uncounted' \subseteq Uncounted \cup {r}, faults' = faults + 1
        PROVE  Cardinality(Uncounted') <= faults'
    <3>1. IsFiniteSet(Uncounted') /\ Cardinality(Uncounted') <= Cardinality(Uncounted) + 1
      BY <2>1, <2>4, Grows
    <3> QED
      BY <2>1, <2>2, <2>4, <3>1, FS_CardinalityType
  <2> QED
    BY <1>2, <2>3, <2>4, UncountedJoins
<1> QED
  BY <1>1, <1>2

\* The limit holds from both sides for any number of requests, processes and
\* failures of Redis (RedisRateLimiter.check, InMemoryRateLimiter.check): of the
\* requests counted in a window while it lasts and read from the server's clock
\* no more than the limit are let through; those let through uncounted because
\* the pipeline failed are no more than the failures; nobody is refused unless
\* the window is full; and Retry-After reaches the next window.
THEOREM LimitHolds == Spec => []LimitIsKept
<1>1. LimitInv /\ UncountedOnlyOnFailure => LimitIsKept
  BY DEF LimitInv, LimitIsKept
<1> QED
  BY <1>1, LimitInit, LimitNext, UncountedInit, UncountedNext, PTL DEF Spec

\* Neither counters nor tickets accumulate: every counter Redis holds has an
\* expiry (EXPIRE NX in the pipeline of RedisRateLimiter.check), a check in
\* memory leaves no earlier window (_prune), and stores hold the tickets of one lifetime.
THEOREM NothingAccumulates == Spec => []NothingPilesUp
<1>1. LimitInv /\ Inv => NothingPilesUp
  BY DEF LimitInv, KeptInv, Inv, NothingPilesUp
<1> QED
  BY <1>1, LimitInit, LimitNext, InvInit, InvNext, PTL DEF Spec

=============================================================================
