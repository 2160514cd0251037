-------------------------- MODULE ConversationPage --------------------------
(***************************************************************************)
(* The page: useConversation, with useConversationIndex, useApiKey and     *)
(* useReadiness around it, over HTTP calls and sockets that answer when    *)
(* they like.  A step is one event of the page: a handler with the effects *)
(* that the render after it runs.                                          *)
(*                                                                         *)
(* When useRealtime opens a socket (at first, after a close, in an effect  *)
(* that runs again) is the subject of RealtimeSession; here it may open    *)
(* one whenever it is enabled, and a socket it has let go of still         *)
(* delivers its frames and its close event.  An answer may time out        *)
(* whenever one is awaited.                                                *)
(***************************************************************************)
EXTENDS Integers, Sequences, SequencesExt

CONSTANTS
    Conversation,   \* conversation ids
    None,           \* null
    Status,         \* the HTTP statuses of refused calls; 0 when unreachable
    MAX_ENTRIES,    \* MAX_ENTRIES of the index
    StoredIndex,    \* the index earlier sessions left in localStorage
    MaxQuestions,   \* bound: questions sent
    MaxSockets,     \* bound: sockets alive at once
    MaxMoves        \* bound: what else a user, or the server's settings, change

IndexedConversation == [id : Conversation, title : {"untitled", "named"}]

ASSUME PageAssumption ==
    /\ None \notin Conversation /\ None \notin Nat
    /\ Status \subseteq Nat
    /\ MAX_ENTRIES \in Nat \ {0}
    /\ StoredIndex \in Seq(IndexedConversation) /\ Len(StoredIndex) <= MAX_ENTRIES
    /\ \A i, j \in DOMAIN StoredIndex : StoredIndex[i].id = StoredIndex[j].id => i = j
    /\ MaxQuestions \in Nat /\ MaxSockets \in Nat /\ MaxMoves \in Nat

VARIABLES
    conversationId,
    storedId,       \* localStorage: nexaassist.conversation_id
    turns,          \* what the screen shows
    sending,
    loading,
    failure,
    authRequired,
    streamingId,    \* the turn being streamed into
    nextId,         \* the counter of nextTurnId
    calls,          \* HTTP calls that have not been answered
    entries,        \* the index, which is also what localStorage holds of it
    apiKey,         \* a key is configured
    authEnforced,   \* what readiness said: does the server ask for one?
    sockets,        \* the sockets that have not closed: the questions of each
    socketRef,
    awaiting,       \* awaitingRef: a question was asked and not yet settled
    asked,          \* questions sent
    moves,          \* moves made
    crossed         \* a conversation was left while a question was under way

conversationVars ==
    <<conversationId, storedId, turns, sending, loading, failure, authRequired, streamingId>>
socketVars == <<sockets, socketRef, awaiting>>
keyVars == <<apiKey, authEnforced>>
vars == <<conversationVars, nextId, calls, entries, socketVars, keyVars, asked, moves, crossed>>

Id == Conversation \cup {None}

FailureKind == {"offline", "unauthenticated", "rate_limited", "server", "request"}

\* Turn.  of is the conversation it was asked in or read from; the code has no
\* such field, it is there to state what belongs where.
Turn ==
    [id : Nat, role : {"customer", "assistant"}, status : {"sent", "pending", "failed"},
     text : {"empty", "part", "full"}, streaming : BOOLEAN, of : Id]

\* An HTTP call, with what its closure captured.
Call ==
    [kind : {"history"}, id : Conversation] \cup [kind : {"start"}]
    \cup [kind : {"send"}, pendingId : Nat, conversation_id : Id]

TypeOK ==
    /\ conversationId \in Id /\ storedId \in Id
    /\ turns \in Seq(Turn)
    /\ sending \in BOOLEAN /\ loading \in BOOLEAN /\ authRequired \in BOOLEAN
    /\ failure \in FailureKind \cup {None}
    /\ streamingId \in 0..nextId \cup {None}
    /\ nextId \in 0..(2 * MaxQuestions)
    /\ calls \subseteq Call
    /\ entries \in Seq(IndexedConversation)
    /\ apiKey \in BOOLEAN /\ authEnforced \in {"unknown", "open", "protected"}
    /\ DOMAIN sockets \subseteq 1..MaxSockets
    /\ \A s \in DOMAIN sockets : sockets[s] \in Seq(Id)
    /\ socketRef \in 1..MaxSockets \cup {None}
    /\ awaiting \in BOOLEAN /\ crossed \in BOOLEAN

-----------------------------------------------------------------------------
(* Failed calls. *)

\* failureFrom, of an ApiError: the first test that holds.
failureFrom(status) ==
    IF status = 0 THEN "offline"
    ELSE IF status = 401 THEN "unauthenticated"
    ELSE IF status = 429 THEN "rate_limited"
    ELSE IF status >= 500 THEN "server" ELSE "request"

ShowFailure(status) ==
    /\ authRequired' = (status = 401)
    /\ failure' = failureFrom(status)

ClearFailure == failure' = None /\ authRequired' = FALSE

-----------------------------------------------------------------------------
(* useConversationIndex. *)

Listed(id) == \E i \in DOMAIN entries : entries[i].id = id

\* The list remember writes: an entry before others, up to the cap.
listing(next, rest) ==
    LET updated == <<next>> \o rest
    IN  SubSeq(updated, 1, IF Len(updated) < MAX_ENTRIES THEN Len(updated) ELSE MAX_ENTRIES)

\* remember: the entry goes to the front, under the title it has.  The list has
\* a conversation once, so the filter takes out one entry at most.
remembered(id) ==
    LET existing == CHOOSE i \in DOMAIN entries : entries[i].id = id
    IN  IF Listed(id) THEN listing(entries[existing], RemoveAt(entries, existing))
        ELSE listing([id |-> id, title |-> "untitled"], entries)

\* App's effect on a new conversationId.
RememberNew ==
    entries' = IF conversationId' # None /\ conversationId' # conversationId
               THEN remembered(conversationId') ELSE entries

\* nameIfUnnamed: the first question names it, and no later one.
named(id) ==
    [i \in DOMAIN entries |->
        IF entries[i].id = id THEN [entries[i] EXCEPT !.title = "named"] ELSE entries[i]]

-----------------------------------------------------------------------------

\* A browser in which conversations may have been started before.
Init ==
    /\ conversationId = None
    /\ storedId \in {None} \cup {StoredIndex[i].id : i \in DOMAIN StoredIndex}
    /\ turns = <<>>
    /\ sending = FALSE
    /\ loading = (storedId # None)
    /\ failure = None
    /\ authRequired = FALSE
    /\ streamingId = None
    /\ nextId = 0
    /\ calls = {[kind |-> "history", id |-> c] : c \in {storedId} \ {None}}
    /\ entries = StoredIndex
    /\ apiKey = FALSE
    /\ authEnforced = "unknown"
    /\ sockets = <<>>
    /\ socketRef = None
    /\ awaiting = FALSE
    /\ asked = 0
    /\ moves = 0
    /\ crossed = FALSE

Move == moves < MaxMoves /\ moves' = moves + 1

\* A question the page has asked and not been answered.
UnderWay == awaiting \/ \E call \in calls : call.kind = "send"

\* What a step that changes the conversation on screen does to the ghost.
Cross == crossed' = (crossed \/ (conversationId' # conversationId /\ UnderWay))

-----------------------------------------------------------------------------
(* Opening, saving and leaving a conversation. *)

\* loadHistory, up to its await: from the sidebar, or the notice's retry.
LoadHistory(id) ==
    /\ Move
    /\ Listed(id) \/ (id = conversationId /\ failure # None /\ ~authRequired)
    /\ loading' = TRUE
    /\ calls' = calls \cup {[kind |-> "history", id |-> id]}
    /\ UNCHANGED <<conversationId, storedId, turns, sending, failure, authRequired,
                   streamingId, nextId, entries, socketVars, keyVars, asked, crossed>>

\* MUTANT: a turn that was read has no status.
server_turn_unset(c) ==
    [id |-> 0, role |-> "customer", status |-> None, text |-> "full",
     streaming |-> FALSE, of |-> c]

\* toTurn
server_turn(c) ==
    [id |-> 0, role |-> "customer", status |-> "sent", text |-> "full",
     streaming |-> FALSE, of |-> c]

\* loadHistory, when the history is there: nothing or something was said in it.
HistoryLoaded(call) ==
    /\ call.kind = "history"
    /\ \E history \in {<<>>, <<server_turn(call.id)>>} : turns' = history
    /\ conversationId' = call.id
    /\ ClearFailure
    /\ UNCHANGED storedId

\* loadHistory, when it is refused; a 404 forgets the stored id.
HistoryRefused(call, status) ==
    /\ call.kind = "history"
    /\ IF status = 404
       THEN /\ storedId' = None
            /\ conversationId' = None
            /\ turns' = <<>>
            /\ UNCHANGED <<failure, authRequired>>
       ELSE /\ ShowFailure(status)
            /\ UNCHANGED <<storedId, conversationId, turns>>

\* start, up to its await: offered while the screen has no conversation.
Start ==
    /\ Move
    /\ conversationId = None
    /\ ~loading
    /\ loading' = TRUE
    /\ calls' = calls \cup {[kind |-> "start"]}
    /\ UNCHANGED <<conversationId, storedId, turns, sending, failure, authRequired,
                   streamingId, nextId, entries, socketVars, keyVars, asked, crossed>>

\* start, when the server opened conversation c, which nobody had before: it
\* clears the screen.
Started(call, c) ==
    /\ call.kind = "start"
    /\ ~Listed(c) /\ c \notin {conversationId, storedId}
    /\ [kind |-> "history", id |-> c] \notin calls
    /\ storedId' = c
    /\ conversationId' = c
    /\ turns' = <<>>
    /\ ClearFailure

StartRefused(call, status) ==
    /\ call.kind = "start"
    /\ ShowFailure(status)
    /\ UNCHANGED <<storedId, conversationId, turns>>

\* The answer to a call that was to bring a conversation; saveConversation
\* remembers what start returned, as App's effect has by then.
Opened(call) ==
    /\ call \in calls
    /\ \/ HistoryLoaded(call)
       \/ \E c \in Conversation : Started(call, c)
       \/ \E status \in Status : HistoryRefused(call, status) \/ StartRefused(call, status)
    /\ calls' = calls \ {call}
    /\ loading' = FALSE
    /\ RememberNew
    /\ Cross
    /\ UNCHANGED <<sending, streamingId, nextId, socketVars, keyVars, asked, moves>>

\* MUTANT: the turns stay when a new conversation is asked for.
Reset_keeping ==
    /\ Move
    /\ streamingId' = None
    /\ storedId' = None
    /\ conversationId' = None
    /\ ClearFailure
    /\ crossed' = (crossed \/ UnderWay)
    /\ UNCHANGED <<turns, sending, loading, nextId, calls, entries, socketVars, keyVars, asked>>

\* reset, from the sidebar's new conversation.
Reset ==
    /\ Move
    /\ streamingId' = None
    /\ storedId' = None
    /\ conversationId' = None
    /\ turns' = <<>>
    /\ ClearFailure
    /\ crossed' = (crossed \/ UnderWay)
    /\ UNCHANGED <<sending, loading, nextId, calls, entries, socketVars, keyVars, asked>>

\* The page is loaded again: what is left is what localStorage holds.
Reload ==
    /\ Move
    /\ conversationId' = None /\ turns' = <<>>
    /\ sending' = FALSE /\ streamingId' = None /\ awaiting' = FALSE
    /\ ClearFailure
    /\ loading' = (storedId # None)
    /\ calls' = {[kind |-> "history", id |-> c] : c \in {storedId} \ {None}}
    /\ sockets' = <<>> /\ socketRef' = None
    /\ authEnforced' = "unknown"
    /\ crossed' = FALSE
    /\ UNCHANGED <<storedId, nextId, entries, apiKey, asked>>

-----------------------------------------------------------------------------
(* Asking. *)

local_turn(id, role, text, streaming) ==
    [id |-> id, role |-> role, status |-> "pending", text |-> text,
     streaming |-> streaming, of |-> conversationId]

\* ask: whether the socket takes the question.
Askable == ~awaiting /\ socketRef # None

\* handleSend and send, up to the await: the socket is tried first, and takes
\* the question unless it is still connecting.
Send(stream) ==
    /\ ~sending
    /\ stream => Askable
    /\ asked < MaxQuestions
    /\ entries' = IF conversationId # None THEN named(conversationId) ELSE entries
    /\ sending' = TRUE
    /\ ClearFailure
    /\ nextId' = nextId + (IF stream THEN 2 ELSE 1)
    /\ IF stream
       THEN /\ awaiting' = TRUE
            /\ sockets' = [sockets EXCEPT ![socketRef] = Append(@, conversationId)]
            /\ streamingId' = nextId + 2
            /\ turns' = turns \o << local_turn(nextId + 1, "customer", "full", FALSE),
                                    local_turn(nextId + 2, "assistant", "empty", TRUE) >>
            /\ UNCHANGED calls
       ELSE /\ turns' = Append(turns, local_turn(nextId + 1, "customer", "full", FALSE))
            /\ calls' = calls \cup {[kind |-> "send", pendingId |-> nextId + 1,
                                     conversation_id |-> conversationId]}
            /\ UNCHANGED <<awaiting, sockets, streamingId>>
    /\ asked' = asked + 1
    /\ UNCHANGED <<conversationId, storedId, loading, socketRef, keyVars, moves, crossed>>

\* The turns with these ids get this status.
settled(ids, status) ==
    [i \in DOMAIN turns |-> IF turns[i].id \in ids THEN [turns[i] EXCEPT !.status = status]
                            ELSE turns[i]]

\* send, when the reply is there.  The server repeats the conversation it was
\* given, which is the one send captured, so that stays as it is.
Replied(call) ==
    /\ call.kind = "send"
    /\ nextId' = nextId + 1
    /\ turns' = Append(settled({call.pendingId}, "sent"),
                       [id |-> nextId + 1, role |-> "assistant", status |-> "sent",
                        text |-> "full", streaming |-> FALSE, of |-> call.conversation_id])
    /\ UNCHANGED <<failure, authRequired>>

SendRefused(call, status) ==
    /\ call.kind = "send"
    /\ turns' = settled({call.pendingId}, "failed")
    /\ ShowFailure(status)
    /\ UNCHANGED nextId

Answered(call) ==
    /\ call \in calls
    /\ Replied(call) \/ \E status \in Status : SendRefused(call, status)
    /\ calls' = calls \ {call}
    /\ sending' = FALSE
    /\ UNCHANGED <<conversationId, storedId, loading, streamingId, entries, socketVars,
                   keyVars, asked, moves, crossed>>

-----------------------------------------------------------------------------
(* The socket. *)

Enabled == authEnforced = "open" \/ (authEnforced = "protected" /\ apiKey)

\* connect, up to the open event.
OpenSocket ==
    /\ Enabled
    /\ \E s \in (1..MaxSockets) \ DOMAIN sockets :
       /\ sockets' = [x \in DOMAIN sockets \cup {s} |-> IF x = s THEN <<>> ELSE sockets[x]]
       /\ socketRef' = s
    /\ UNCHANGED <<conversationVars, nextId, calls, entries, awaiting, keyVars, asked, moves, crossed>>

\* MUTANT: what is pending goes, and the question with it.
failed_turns_dropped == SelectSeq(turns, LAMBDA turn : turn.status # "pending")

\* The turns failStream leaves: no empty placeholder, which is one turn at most
\* (local turns have ids of their own), and nothing pending.
failed_turns ==
    LET failed == [i \in DOMAIN turns |->
                      IF turns[i].status = "pending" THEN [turns[i] EXCEPT !.status = "failed"]
                      ELSE turns[i]]
        placeholder == {i \in DOMAIN turns : turns[i].id = streamingId /\ turns[i].text = "empty"}
    IN  IF placeholder = {} THEN failed ELSE RemoveAt(failed, CHOOSE i \in placeholder : TRUE)

failStream ==
    /\ streamingId' = None
    /\ sending' = FALSE
    /\ failure' = "server"
    /\ turns' = failed_turns
    /\ UNCHANGED <<conversationId, storedId, loading, authRequired>>

\* appendDelta, for a delta that came while an answer is awaited.
Delta(s) ==
    /\ sockets[s] # <<>>
    /\ awaiting
    /\ turns' = [i \in DOMAIN turns |->
                    IF turns[i].id = streamingId THEN [turns[i] EXCEPT !.text = "part"]
                    ELSE turns[i]]
    /\ UNCHANGED <<conversationId, storedId, sending, loading, failure, authRequired,
                   streamingId, nextId, calls, entries, socketVars, keyVars, asked, moves, crossed>>

\* completeStream, for the answer to a question asked in conversation c.
completeStream(c) ==
    /\ streamingId' = None
    /\ sending' = FALSE
    /\ IF streamingId = None
       THEN UNCHANGED <<turns, conversationId, storedId>>
       ELSE /\ turns' = [i \in DOMAIN turns |->
                 IF turns[i].id = streamingId
                 THEN [turns[i] EXCEPT !.text = "full", !.status = "sent", !.streaming = FALSE]
                 ELSE IF turns[i].status = "pending" THEN [turns[i] EXCEPT !.status = "sent"]
                 ELSE turns[i]]
            /\ IF c # None /\ c # conversationId
               THEN conversationId' = c /\ storedId' = c
               ELSE UNCHANGED <<conversationId, storedId>>
    /\ UNCHANGED <<loading, failure, authRequired>>

\* A complete frame counts only while an answer is awaited.
Complete(s) ==
    /\ sockets[s] # <<>>
    /\ sockets' = [sockets EXCEPT ![s] = Tail(@)]
    /\ IF awaiting
       THEN awaiting' = FALSE /\ completeStream(Head(sockets[s])) /\ RememberNew /\ Cross
       ELSE UNCHANGED <<awaiting, conversationVars, entries, crossed>>
    /\ UNCHANGED <<nextId, calls, socketRef, keyVars, asked, moves>>

\* An error frame counts always.
Error(s) ==
    /\ sockets[s] # <<>>
    /\ sockets' = [sockets EXCEPT ![s] = Tail(@)]
    /\ awaiting' = FALSE
    /\ failStream
    /\ UNCHANGED <<nextId, calls, entries, socketRef, keyVars, asked, moves, crossed>>

\* MUTANT: the cleanup of the effect takes the timer with it.
Timeout_connected ==
    /\ awaiting /\ socketRef # None
    /\ awaiting' = FALSE
    /\ failStream
    /\ UNCHANGED <<nextId, calls, entries, sockets, socketRef, keyVars, asked, moves, crossed>>

\* The answer timer.
Timeout ==
    /\ awaiting
    /\ awaiting' = FALSE
    /\ failStream
    /\ UNCHANGED <<nextId, calls, entries, sockets, socketRef, keyVars, asked, moves, crossed>>

\* MUTANT: a socket that closes leaves the question to whoever asked it.
OnClose_silent(s) ==
    /\ sockets' = [x \in DOMAIN sockets \ {s} |-> sockets[x]]
    /\ socketRef' = None
    /\ awaiting' = FALSE
    /\ UNCHANGED <<conversationVars, nextId, calls, entries, keyVars, asked, moves, crossed>>

\* onclose, of any socket: whichever socketRef holds by now is let go, and a
\* question that is awaited, on whichever socket, is reported.
OnClose(s) ==
    /\ sockets' = [x \in DOMAIN sockets \ {s} |-> sockets[x]]
    /\ socketRef' = None
    /\ awaiting' = FALSE
    /\ IF awaiting THEN failStream ELSE UNCHANGED conversationVars
    /\ UNCHANGED <<nextId, calls, entries, keyVars, asked, moves, crossed>>

\* The effect of useRealtime when enabled has changed: the cleanup lets go of
\* the socket, whose close event is still to come.
RunEffect == socketRef' = IF Enabled' # Enabled THEN None ELSE socketRef

\* useReadiness: an answer about the server's protection.
CheckReadiness ==
    /\ Move
    /\ \E answer \in {"open", "protected"} : authEnforced' = answer
    /\ UNCHANGED <<conversationVars, nextId, calls, entries, sockets, awaiting, apiKey, asked,
                   crossed>>
    /\ RunEffect

\* useApiKey: saved or cleared, in this tab or another.
ChangeKey ==
    /\ Move
    /\ apiKey' = ~apiKey
    /\ UNCHANGED <<conversationVars, nextId, calls, entries, sockets, awaiting, authEnforced,
                   asked, crossed>>
    /\ RunEffect

-----------------------------------------------------------------------------

Frame(s) == Delta(s) \/ Complete(s) \/ Error(s) \/ OnClose(s)

Next ==
    \/ \E id \in Conversation : LoadHistory(id)
    \/ Start \/ Reset \/ Reload
    \/ \E stream \in BOOLEAN : Send(stream)
    \/ \E call \in calls : Opened(call) \/ Answered(call)
    \/ OpenSocket
    \/ \E s \in DOMAIN sockets : Frame(s)
    \/ Timeout
    \/ CheckReadiness \/ ChangeKey

Spec == Init /\ [][Next]_vars

\* A browser settles every fetch, by an answer or a failure, and runs the timer
\* of a question; nothing is assumed of the socket or of the user.  Calls being
\* finitely many, it is enough that some call is settled while there is one.
Fairness ==
    /\ WF_vars(\E call \in calls : Opened(call) \/ Answered(call))
    /\ WF_vars(Timeout)

FairSpec == Spec /\ Fairness

-----------------------------------------------------------------------------
(* Properties. *)

\* Nothing on screen waits for nobody: while the composer is off, an answer is
\* awaited or a call is out; a pending turn has its call, or is settled with
\* the stream; and the turn a stream writes to is held only while its answer
\* is awaited, so frames, a closing socket or the timer settle it - however
\* many sockets are alive, and whatever was opened, reset or reloaded since.
WaitingIsBacked ==
    /\ sending => UnderWay
    /\ streamingId # None => awaiting
    /\ \A i \in DOMAIN turns :
        /\ turns[i].status = "pending" =>
              \/ streamingId # None
              \/ \E call \in calls : call.kind = "send" /\ call.pendingId = turns[i].id
        /\ turns[i].streaming /\ turns[i].status = "pending" => turns[i].id = streamingId

\* The index lists a conversation once, keeps to its cap, and holds the one on
\* screen however conversations were opened, saved and evicted.
IndexListsTheScreen ==
    /\ \A i, j \in DOMAIN entries : entries[i].id = entries[j].id => i = j
    /\ Len(entries) <= MAX_ENTRIES
    /\ conversationId # None => Listed(conversationId)

\* The screen shows turns of the conversation it names, unless a conversation
\* was left while a question was under way (an answer, or the conversation
\* itself, may then come back); and that conversation is in the index.  In
\* particular nothing asked before a conversation is saved is on screen after
\* it, though SaveConversation.tsx:111 promises that "the ones already on screen
\* stay in this session": start calls setTurns([]) (useConversation.ts:176).
ScreenShowsOneConversation ==
    /\ crossed \/ \A i \in DOMAIN turns : turns[i].of = conversationId
    /\ IndexListsTheScreen

\* A question is not taken back: unless the screen is emptied or filled anew, a
\* customer's turn stays, whatever fails, and never becomes pending again; nor
\* is a conversation renamed while it is listed.  What empties the screen is a
\* reset, a reload, a conversation that is opened or gone, and also a save.
Emptied == turns' = <<>> \/ \E c \in Conversation : turns' = <<server_turn(c)>>

NothingIsTakenBack ==
    [][ /\ Emptied \/ \A i \in DOMAIN turns : turns[i].role = "customer" =>
            \E j \in DOMAIN turns' :
                /\ turns'[j].id = turns[i].id
                /\ turns'[j].status = "pending" => turns[i].status = "pending"
        /\ \A i \in DOMAIN entries, j \in DOMAIN entries' :
            entries[i].id = entries'[j].id /\ entries[i].title = "named"
                => entries'[j].title = "named" ]_vars

\* Nothing on screen is pending, and the composer takes a question.
AtRest == ~sending /\ \A i \in DOMAIN turns : turns[i].status # "pending"

\* Every question is settled, or leaves the screen: whatever the sockets do, the
\* page comes to rest.
EveryQuestionSettles == ~AtRest ~> AtRest

=============================================================================
