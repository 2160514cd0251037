--------------------------- MODULE RealtimeSession ---------------------------
(***************************************************************************)
(* A page talking to the WebSocket endpoint: the hook                      *)
(* frontend/src/realtime/useRealtime.ts, and of                            *)
(* frontend/src/conversation/useConversation.ts the part that asks and is  *)
(* called back (send, appendDelta, completeStream, failStream), composed   *)
(* with RealtimeServer over an unreliable transport.                       *)
(*                                                                         *)
(* JavaScript runs one callback at a time, so an action is a callback: an  *)
(* event of a socket, a timer, the end of an await, the user's send.       *)
(* Refs and React state are kept apart where the code keeps them apart.    *)
(***************************************************************************)
EXTENDS RealtimeServer

CONSTANTS
    MAX_ATTEMPTS,  \* reconnections in a row
    MaxDrops,      \* bound on connections the network drops
    Kinds,         \* the kinds of question the user asks
    NoSocket       \* socketRef.current = null

ASSUME MaxAttemptsAssumption == MAX_ATTEMPTS \in Nat
ASSUME MaxDropsAssumption == MaxDrops \in Nat
ASSUME KindsAssumption == Kinds \subseteq AskKind
ASSUME NoSocketAssumption == NoSocket \notin Sockets

VARIABLES
    state,      \* the RealtimeState the hook reports
    socketRef,  \* socketRef.current
    browser,    \* readyState of each socket: "none", "connecting", "open", "closed"
    attempts,   \* attemptsRef.current
    pause,      \* what connect waits for: "no", "ticket", "backoff"
    awaiting,   \* awaitingRef.current
    timers,     \* answer timers armed, by question, oldest first; the last one
                \* is answerTimer.current if current is TRUE
    current,    \* answerTimer.current is not null
    asked,      \* questions streamed so far
    told,       \* what useConversation knows of each question
    shown,      \* the questions whose frames were rendered in its turn
    early,      \* questions timed out by a timer that was not theirs
    late,       \* some question has timed out
    reachable,  \* the server's host can be reached
    drops       \* connections dropped so far

clientVars == <<state, socketRef, browser, attempts, pause, awaiting, timers,
                current, asked, told, shown, early, late>>
networkVars == <<reachable, drops>>
vars == <<handler, registry, others, link, toServer, toClient, answering, left,
          available, protects, state, socketRef, browser, attempts, pause, awaiting,
          timers, current, asked, told, shown, early, late, reachable, drops>>

RealtimeState == {"connecting", "open", "reconnecting", "unavailable"}

TypeOK ==
    /\ ServerTypeOK
    /\ state \in RealtimeState
    /\ socketRef \in Sockets \cup {NoSocket}
    /\ browser \in [Sockets -> {"none", "connecting", "open", "closed"}]
    /\ attempts \in 0..(MAX_ATTEMPTS + 1)
    /\ pause \in {"no", "ticket", "backoff"}
    /\ awaiting \in BOOLEAN
    /\ timers \in Seq(Question)
    /\ current \in BOOLEAN
    /\ asked \in 0..MaxQuestions
    /\ told \in [Question -> {"unasked", "waiting", "answered", "failed"}]
    /\ shown \in [Question -> SUBSET Question]
    /\ early \in SUBSET Question
    /\ late \in BOOLEAN
    /\ reachable \in BOOLEAN
    /\ drops \in 0..MaxDrops

Init ==
    /\ ServerInit
    /\ state = "connecting"
    /\ socketRef = NoSocket
    /\ browser = [s \in Sockets |-> "none"]
    /\ attempts = 0
    /\ pause = "backoff"   \* the effect's connect(), with no delay
    /\ awaiting = FALSE
    /\ timers = <<>>
    /\ current = FALSE
    /\ asked = 0
    /\ told = [q \in Question |-> "unasked"]
    /\ shown = [q \in Question |-> {}]
    /\ early = {}
    /\ late = FALSE
    /\ reachable = TRUE
    /\ drops = 0

-----------------------------------------------------------------------------
(* The callbacks of useConversation, for the question that is streaming. *)

\* useConversation.sending: a question was handed over and not called back.
sending == asked > 0 /\ told[asked] = "waiting"

completeStream(q) ==
    /\ told' = IF sending THEN [told EXCEPT ![asked] = "answered"] ELSE told
    /\ shown' = IF sending THEN [shown EXCEPT ![asked] = @ \cup {q}] ELSE shown

appendDelta(q) ==
    shown' = IF sending THEN [shown EXCEPT ![asked] = @ \cup {q}] ELSE shown

failStream ==
    told' = IF sending THEN [told EXCEPT ![asked] = "failed"] ELSE told

-----------------------------------------------------------------------------
(* connect *)

\* Connections nobody uses any more.
Unused(s) ==
    /\ browser[s] \in {"none", "closed"}
    /\ handler[s] \in {"none", "gone"}

\* new WebSocket(target): the handshake is on its way, or already lost.
create(s) ==
    /\ Unused(s)
    /\ socketRef' = s
    /\ browser' = [browser EXCEPT ![s] = "connecting"]
    /\ link' = [link EXCEPT ![s] = IF reachable THEN "up" ELSE "down"]
    /\ handler' = [handler EXCEPT ![s] = IF reachable THEN "accept" ELSE "gone"]
    /\ toServer' = [toServer EXCEPT ![s] = <<>>]
    /\ toClient' = [toClient EXCEPT ![s] = <<>>]
    /\ pause' = "no"

\* connect, called by the effect or by the reconnect timer, up to its await.
\* getTicket is given when the user has entered an API key; ConversationScreen
\* opens no socket to a deployment that asks for one before there is a key.
Connect ==
    /\ pause = "backoff"
    /\ \/ /\ protects
          /\ pause' = "ticket"
          /\ UNCHANGED <<socketRef, browser, link, handler, toServer, toClient>>
       \/ /\ ~protects
          /\ \E s \in Sockets : create(s)
    /\ UNCHANGED <<state, attempts, awaiting, timers, current, asked, told,
                   shown, early, late, registry, others, answering, left, settings,
                   networkVars>>

\* connect, from its await: no ticket, or a socket with it.
Ticket ==
    /\ pause = "ticket"
    /\ \/ /\ pause' = "no"
          /\ state' = "unavailable"
          /\ UNCHANGED <<socketRef, browser, link, handler, toServer, toClient>>
       \/ /\ reachable
          /\ \E s \in Sockets : create(s)
          /\ UNCHANGED state
    /\ UNCHANGED <<attempts, awaiting, timers, current, asked, told, shown,
                   early, late, registry, others, answering, left, settings,
                   networkVars>>

-----------------------------------------------------------------------------
(* The events of a socket. *)

Consume(s) == toClient' = [toClient EXCEPT ![s] = Tail(@)]

OnOpen(s) ==
    /\ browser[s] = "connecting"
    /\ toClient[s] # <<>>
    /\ Head(toClient[s]).type = "open"
    /\ Consume(s)
    /\ browser' = [browser EXCEPT ![s] = "open"]
    /\ attempts' = 0
    /\ state' = "open"
    /\ UNCHANGED <<socketRef, pause, awaiting, timers, current, asked, told,
                   shown, early, late, handler, registry, others, link, toServer,
                   answering, left, settings, networkVars>>

OnMessage(s) ==
    /\ browser[s] = "open"
    /\ toClient[s] # <<>>
    /\ Head(toClient[s]).type \in {"ready", "delta", "complete", "error"}
    /\ Consume(s)
    /\ LET f == Head(toClient[s]) IN
       CASE f.type = "ready" -> UNCHANGED <<awaiting, told, shown>>
         [] f.type = "delta" ->
                /\ IF awaiting THEN appendDelta(f.q) ELSE UNCHANGED shown
                /\ UNCHANGED <<awaiting, told>>
         [] f.type = "complete" ->
                /\ IF awaiting THEN completeStream(f.q) ELSE UNCHANGED <<told, shown>>
                /\ awaiting' = FALSE
         [] f.type = "error" ->
                /\ awaiting' = FALSE
                /\ failStream
                /\ UNCHANGED shown
    /\ UNCHANGED <<state, socketRef, browser, attempts, pause, timers, current,
                   asked, early, late, handler, registry, others, link, toServer,
                   answering, left, settings, networkVars>>

\* settle: stop waiting, and clear the timer answerTimer.current names.
settle ==
    /\ awaiting' = FALSE
    /\ timers' = IF current THEN SubSeq(timers, 1, Len(timers) - 1) ELSE timers
    /\ current' = FALSE

\* MUTANT: a question in flight when the socket dies is dropped silently.
Report_nothing ==
    UNCHANGED told

\* A question in flight when the socket dies is reported.
Report == IF awaiting THEN failStream ELSE UNCHANGED told

\* MUTANT: a failed reconnection is not counted.
attempts_uncounted == attempts

\* attemptsRef.current after one more failure.
attempts_counted == attempts + 1

\* MUTANT: every failed connection is tried again.
MayReconnect_always == TRUE

\* The reconnection budget.
MayReconnect == attempts_counted <= MAX_ATTEMPTS

\* The close event: a close frame was read, or the transport is gone (and
\* with it the frames still on their way).
OnClose(s) ==
    /\ browser[s] \in {"connecting", "open"}
    /\ \/ link[s] = "down"
       \/ toClient[s] # <<>> /\ Head(toClient[s]).type = "close"
    /\ browser' = [browser EXCEPT ![s] = "closed"]
    /\ link' = [link EXCEPT ![s] = "down"]
    /\ toClient' = [toClient EXCEPT ![s] = <<>>]
    /\ socketRef' = NoSocket
    /\ settle
    /\ Report
    /\ attempts' = attempts_counted
    /\ IF MayReconnect
       THEN state' = "reconnecting" /\ pause' = "backoff"
       ELSE state' = "unavailable" /\ UNCHANGED pause
    /\ UNCHANGED <<asked, shown, early, late, handler, registry, others,
                   toServer, answering, left, settings, networkVars>>

-----------------------------------------------------------------------------
(* Asking. *)

\* useConversation.send with a live socket: ask refuses, and the question goes
\* over HTTP, unless nothing is awaited and the socket is open.
Ask(kind) ==
    /\ ~sending
    /\ asked < MaxQuestions
    /\ state = "open"
    /\ ~awaiting
    /\ socketRef # NoSocket
    /\ browser[socketRef] = "open"
    /\ asked' = asked + 1
    /\ toServer' = IF link[socketRef] = "up"
                   THEN [toServer EXCEPT ![socketRef] =
                           Append(@, [kind |-> kind, q |-> asked + 1])]
                   ELSE toServer
    /\ awaiting' = TRUE
    /\ timers' = Append(timers, asked + 1)
    /\ current' = TRUE
    /\ told' = [told EXCEPT ![asked + 1] = "waiting"]
    /\ UNCHANGED <<state, socketRef, browser, attempts, pause, shown, early,
                   late, handler, registry, others, link, toClient, answering, left,
                   settings, networkVars>>

\* An answer timer fires.  All run for ANSWER_TIMEOUT_MS, so they fire in the
\* order they were armed.  settle clears the timer answerTimer.current names,
\* which is the one that fires only if no other was armed since.
OnAnswerTimeout ==
    /\ timers # <<>>
    /\ IF awaiting
       THEN /\ awaiting' = FALSE
            /\ timers' = IF current /\ Len(timers) > 1
                         THEN SubSeq(timers, 2, Len(timers) - 1)
                         ELSE Tail(timers)
            /\ current' = FALSE
            /\ failStream
            /\ early' = IF Head(timers) = asked THEN early ELSE early \cup {asked}
            /\ late' = TRUE
       ELSE /\ timers' = Tail(timers)
            /\ current' = (current /\ Len(timers) > 1)
            /\ UNCHANGED <<awaiting, told, early, late>>
    /\ UNCHANGED <<state, socketRef, browser, attempts, pause, asked, shown,
                   serverVars, networkVars>>

-----------------------------------------------------------------------------
(* The network. *)

\* A transport breaks.
Drop(s) ==
    /\ drops < MaxDrops
    /\ link[s] = "up"
    /\ link' = [link EXCEPT ![s] = "down"]
    /\ drops' = drops + 1
    /\ UNCHANGED <<handler, registry, others, toServer, toClient, answering, left,
                   settings, clientVars, reachable>>

\* The host goes away for good, and every transport with it.
Outage ==
    /\ reachable
    /\ reachable' = FALSE
    /\ link' = [s \in Sockets |-> IF link[s] = "up" THEN "down" ELSE link[s]]
    /\ UNCHANGED <<handler, registry, others, toServer, toClient, answering, left,
                   settings, clientVars, drops>>

Server(s) == Handle(s) /\ UNCHANGED <<clientVars, networkVars>>

Others == (OtherJoins \/ OtherLeaves) /\ UNCHANGED <<clientVars, networkVars>>

Page(s) == OnOpen(s) \/ OnMessage(s) \/ OnClose(s)

Next ==
    \/ Connect
    \/ Ticket
    \/ OnAnswerTimeout
    \/ \E kind \in Kinds : Ask(kind)
    \/ \E s \in Sockets : Page(s) \/ Server(s) \/ Drop(s)
    \/ Others
    \/ Outage

Spec == Init /\ [][Next]_vars

\* The event loops run what is ready: the page's callbacks and timers, and the
\* server's tasks (whose awaits return, by an answer, an error or a timeout).
Fairness ==
    /\ WF_vars(Connect)
    /\ WF_vars(Ticket)
    /\ WF_vars(OnAnswerTimeout)
    /\ \A s \in Sockets : WF_vars(Page(s)) /\ WF_vars(Server(s))

FairSpec == Spec /\ Fairness

-----------------------------------------------------------------------------
(* Properties. *)

\* As long as no question has timed out, what a turn renders is the answer to
\* its own question: the frames of one question never reach the next one.
OwnAnswerUnlessTimedOut ==
    ~late => \A q \in Question : shown[q] \subseteq {q}

\* useRealtime.ts:21: "a late frame from a previous attempt can never append
\* itself to the next answer".
LateFramesNeverReachTheNextAnswer ==
    \A q \in Question : shown[q] \subseteq {q}

\* Answers are well formed on the wire, and on the page each reaches the turn
\* of its own question, unless a question timed out with its answer on the way.
\* A question is reported before its time only by the timer an earlier one has
\* left armed (onmessage settles the question and not its timer), so never the
\* first.
AnswersReachTheirQuestion ==
    /\ AnswersAreWellFormed
    /\ OwnAnswerUnlessTimedOut
    /\ 1 \notin early

\* A question the page waits for has a timer of its own behind it, and the
\* page waits for no question the hook has given up: nothing hangs silently.
WaitingIsTimed ==
    /\ sending <=> awaiting
    /\ awaiting => current /\ timers # <<>> /\ timers[Len(timers)] = asked

\* Every streamed question is answered or reported.
EveryQuestionIsSettled ==
    \A q \in Question : told[q] = "waiting" ~> told[q] \in {"answered", "failed"}

\* A connection that is gone is given back: none stays in the registry.
NoRegistrationLeaks ==
    \A s \in Sockets : link[s] = "down" ~> (s \notin registry \/ link[s] = "up")

\* Whatever drops: every streamed question is answered or reported, and every
\* connection that is gone gives its slot back.
NothingIsLeftBehind == EveryQuestionIsSettled /\ NoRegistrationLeaks

\* When the host is gone the hook gives up.
GivesUpInAnOutage == ~reachable ~> [](state = "unavailable")

=============================================================================
