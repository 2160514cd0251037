-------------------------- MODULE AssistantPipeline --------------------------
(***************************************************************************)
(* Requests to the assistant sharing one database: AssistantService.respond*)
(* (backend/app/services/assistant.py) with ConversationService.append,    *)
(* HandoffService.consider and ReviewQueue.enqueue.                        *)
(*                                                                         *)
(* Every request has a session, and so a transaction, of its own (READ     *)
(* COMMITTED).  A step of a request is the code between two awaits that    *)
(* others can notice.  A statement that failed leaves the session unusable *)
(* until it is rolled back, which happens only when the request is over.   *)
(***************************************************************************)
EXTENDS ReplyDecision

CONSTANTS
    Requests,        \* calls of respond, over HTTP or a WebSocket
    Conversations,   \* conversations that exist, visible to their requests
    NoConversation,  \* conversation_id is None
    Hidden,          \* an id without a row, or of another owner's row
    NoValue,         \* nothing yet
    MaxTurns,        \* bound on the positions in a conversation
    MaxFaults        \* bound on database failures

Role == {"customer", "assistant"}

Row == [position : Nat, role : Role, request : Requests,
        text : Text \cup {"question"}, cited : BOOLEAN]

\* proposed is the reply policy approved, text the one that is sent.
Routed == [intent : IntentCategory, proposed : Text, text : Text,
           cited : BOOLEAN, reasons : Seq(EscalationReason)]

ASSUME TargetAssumption ==
    NoConversation \notin Conversations /\ Hidden \notin Conversations
ASSUME NoValueAssumption == NoValue \notin Row /\ NoValue \notin Routed
ASSUME MaxTurnsAssumption == MaxTurns \in Nat
ASSUME MaxFaultsAssumption == MaxFaults \in Nat

VARIABLES
    messages,   \* the committed rows of conversation_messages
    inserting,  \* the row a request has flushed and not committed
    reviews,    \* the committed rows of review_items
    pc,         \* the await a request is at
    target,     \* its conversation_id
    turn,       \* whose turn it appends next
    position,   \* the result of _next_position
    analysis,   \* the result of IntentService.analyze
    routed,     \* what was decided about the reply
    session,    \* "clean", or what left it in need of a rollback
    error,      \* what the request failed with
    faults      \* database failures so far

vars == <<messages, inserting, reviews, pc, target, turn, position, analysis,
          routed, session, error, faults>>

Review == [request : Requests, reason : EscalationReason, proposed : Text]

PC == {"new", "get", "next_position", "flush", "commit", "analyze", "route",
       "enqueue", "replied", "failed"}

TypeOK ==
    /\ messages \in [Conversations -> SUBSET Row]
    /\ inserting \in [Requests -> Row \cup {NoValue}]
    /\ reviews \in SUBSET Review
    /\ pc \in [Requests -> PC]
    /\ target \in [Requests -> Conversations \cup {NoConversation, Hidden}]
    /\ turn \in [Requests -> Role]
    /\ position \in [Requests -> 0..MaxTurns]
    /\ analysis \in [Requests -> IntentAnalysis \cup {NoValue}]
    /\ routed \in [Requests -> Routed \cup {NoValue}]
    /\ session \in [Requests -> {"clean", "broken_by_tool", "broken_by_queue"}]
    /\ error \in [Requests -> {"none", "app", "integrity", "sql", "pending_rollback"}]
    /\ faults \in 0..MaxFaults

Init ==
    /\ messages = [c \in Conversations |-> {}]
    /\ inserting = [r \in Requests |-> NoValue]
    /\ reviews = {}
    /\ pc = [r \in Requests |-> "new"]
    /\ target = [r \in Requests |-> NoConversation]
    /\ turn = [r \in Requests |-> "customer"]
    /\ position = [r \in Requests |-> 0]
    /\ analysis = [r \in Requests |-> NoValue]
    /\ routed = [r \in Requests |-> NoValue]
    /\ session = [r \in Requests |-> "clean"]
    /\ error = [r \in Requests |-> "none"]
    /\ faults = 0

-----------------------------------------------------------------------------
(* How a request ends, and what breaks. *)

\* MUTANT: the transaction of a failed request is left open.
Fail_without_rollback(r, kind) ==
    /\ pc' = [pc EXCEPT ![r] = "failed"]
    /\ error' = [error EXCEPT ![r] = kind]
    /\ UNCHANGED inserting

\* An exception leaves respond; get_db_session rolls back and closes.
Fail(r, kind) ==
    /\ pc' = [pc EXCEPT ![r] = "failed"]
    /\ error' = [error EXCEPT ![r] = kind]
    /\ inserting' = [inserting EXCEPT ![r] = NoValue]

\* The database fails while a statement is awaited, the statement having had
\* no effect, and nothing catches the exception.  (At "enqueue" that is an
\* exception which is not a SQLAlchemyError: a refused connection.)
Fault(r) ==
    /\ faults < MaxFaults
    /\ pc[r] \in {"get", "next_position", "flush", "commit", "enqueue"}
    /\ faults' = faults + 1
    /\ Fail(r, "sql")
    /\ UNCHANGED <<messages, reviews, target, turn, position, analysis, routed, session>>

\* A statement on a session whose transaction has failed.  (The get of an
\* append may be answered from the identity map; the SELECT after it is not.)
Refused(r) ==
    /\ session[r] # "clean"
    /\ pc[r] \in {"get", "next_position"}
    /\ Fail(r, "pending_rollback")
    /\ UNCHANGED <<messages, reviews, target, turn, position, analysis, routed,
                   session, faults>>

-----------------------------------------------------------------------------
(* ConversationService.append. *)

\* get: a conversation that is not there or not visible is not found.
Get(r) ==
    /\ pc[r] = "get"
    /\ IF target[r] \in Conversations
       THEN pc' = [pc EXCEPT ![r] = "next_position"] /\ UNCHANGED <<inserting, error>>
       ELSE Fail(r, "app")
    /\ UNCHANGED <<messages, reviews, target, turn, position, analysis, routed,
                   session, faults>>

\* _next_position: one past the highest position there is.
IsNextPosition(p, rows) ==
    \/ p = 0 /\ rows = {}
    \/ /\ \E m \in rows : p = m.position + 1
       /\ \A m \in rows : m.position < p

\* MUTANT: the highest position itself, -1 when there is none.
NextPosition_highest(r) ==
    /\ pc[r] = "next_position"
    /\ session[r] = "clean"
    /\ \E p \in 0..MaxTurns :
          /\ IsNextPosition(p, messages[target[r]])
          /\ position' = [position EXCEPT ![r] = p - 1]
    /\ pc' = [pc EXCEPT ![r] = "flush"]
    /\ UNCHANGED <<messages, inserting, reviews, target, turn, analysis, routed,
                   session, error, faults>>

\* The SELECT sees what is committed when it runs.
NextPosition(r) ==
    /\ pc[r] = "next_position"
    /\ session[r] = "clean"
    /\ \E p \in 0..MaxTurns :
          /\ IsNextPosition(p, messages[target[r]])
          /\ position' = [position EXCEPT ![r] = p]
    /\ pc' = [pc EXCEPT ![r] = "flush"]
    /\ UNCHANGED <<messages, inserting, reviews, target, turn, analysis, routed,
                   session, error, faults>>

\* The unique constraint on (conversation_id, position): an INSERT waits for
\* the transaction that inserts the same key, and is rejected by a row.
Contended(r) ==
    \E q \in Requests \ {r} :
        /\ inserting[q] # NoValue
        /\ target[q] = target[r]
        /\ inserting[q].position = position[r]

\* MUTANT: no unique constraint.
Taken_never(r) == FALSE

Taken(r) == \E m \in messages[target[r]] : m.position = position[r]

NewRow(r) ==
    IF turn[r] = "customer"
    THEN [position |-> position[r], role |-> "customer", request |-> r,
          text |-> "question", cited |-> FALSE]
    ELSE [position |-> position[r], role |-> "assistant", request |-> r,
          text |-> routed[r].text, cited |-> routed[r].cited]

Flush(r) ==
    /\ pc[r] = "flush"
    /\ ~Contended(r)
    /\ IF Taken(r)
       THEN Fail(r, "integrity")
       ELSE /\ inserting' = [inserting EXCEPT ![r] = NewRow(r)]
            /\ pc' = [pc EXCEPT ![r] = "commit"]
            /\ UNCHANGED error
    /\ UNCHANGED <<messages, reviews, target, turn, position, analysis, routed,
                   session, faults>>

\* The turn is on record; or it is, and the answer to the COMMIT is lost.
Commit(r) ==
    /\ pc[r] = "commit"
    /\ messages' = [messages EXCEPT ![target[r]] = @ \cup {inserting[r]}]
    /\ \/ /\ inserting' = [inserting EXCEPT ![r] = NoValue]
          /\ pc' = [pc EXCEPT ![r] =
                       IF turn[r] = "customer" THEN "analyze" ELSE "replied"]
          /\ turn' = [turn EXCEPT ![r] = "assistant"]
          /\ UNCHANGED <<error, faults>>
       \/ /\ faults < MaxFaults
          /\ faults' = faults + 1
          /\ Fail(r, "sql")
          /\ UNCHANGED turn
    /\ UNCHANGED <<reviews, target, position, analysis, routed, session>>

-----------------------------------------------------------------------------
(* AssistantService.respond. *)

\* MUTANT: the question is not recorded.
Start_unrecorded(r) ==
    /\ pc[r] = "new"
    /\ \E t \in Conversations \cup {NoConversation, Hidden} :
          target' = [target EXCEPT ![r] = t]
    /\ pc' = [pc EXCEPT ![r] = "analyze"]
    /\ turn' = [turn EXCEPT ![r] = "assistant"]
    /\ UNCHANGED <<messages, inserting, reviews, position, analysis, routed,
                   session, error, faults>>

\* The request arrives.  Its question is recorded before anything else.
Start(r) ==
    /\ pc[r] = "new"
    /\ \E t \in Conversations \cup {NoConversation, Hidden} :
          /\ target' = [target EXCEPT ![r] = t]
          /\ pc' = [pc EXCEPT ![r] = IF t = NoConversation THEN "analyze" ELSE "get"]
    /\ UNCHANGED <<messages, inserting, reviews, turn, position, analysis, routed,
                   session, error, faults>>

\* The classification, or an LLMError.
Analyze(r) ==
    /\ pc[r] = "analyze"
    /\ \/ /\ \E a \in IntentAnalysis : analysis' = [analysis EXCEPT ![r] = a]
          /\ pc' = [pc EXCEPT ![r] = "route"]
          /\ UNCHANGED <<inserting, error>>
       \/ /\ Fail(r, "app")
          /\ UNCHANGED analysis
    /\ UNCHANGED <<messages, reviews, target, turn, position, routed, session, faults>>

\* Without a conversation the reply is returned; with one it is recorded first.
AfterHandoff(r) == IF target[r] = NoConversation THEN "replied" ELSE "get"

\* route, and consider up to its first await.
decided(a, given) ==
    LET enforced == enforce(a, given)
        reasons  == evaluate(a, enforced)
    IN  [intent |-> a.intent,
         proposed |-> enforced.reply,
         text |-> IF reasons = <<>> THEN enforced.reply ELSE with_notice(enforced.reply),
         cited |-> enforced.cited,
         reasons |-> reasons]

\* The handler answers.  A failing statement of one of the agent's tools is
\* swallowed by ToolExecutor; one of the knowledge base ends the request, as
\* does an LLMError there.
Route(r) ==
    /\ pc[r] = "route"
    /\ LET handler == decide(analysis[r]) IN
       \/ /\ \E given \in Responses[handler] :
                routed' = [routed EXCEPT ![r] = decided(analysis[r], given)]
          /\ pc' = [pc EXCEPT ![r] =
                       IF routed'[r].reasons = <<>> THEN AfterHandoff(r) ELSE "enqueue"]
          /\ \/ UNCHANGED <<session, faults>>
             \/ /\ handler \in {"agent", "documented_first"}
                /\ faults < MaxFaults
                /\ faults' = faults + 1
                /\ session' = [session EXCEPT ![r] = "broken_by_tool"]
          /\ UNCHANGED <<inserting, error>>
       \/ /\ handler \in {"knowledge_base", "documented_first"}
          /\ \/ Fail(r, "app") /\ UNCHANGED faults
             \/ Fail(r, "sql") /\ faults < MaxFaults /\ faults' = faults + 1
          /\ UNCHANGED <<routed, session>>
    /\ analysis' = [analysis EXCEPT ![r] = NoValue]
    /\ UNCHANGED <<messages, reviews, target, turn, position>>

Stored(r) ==
    reviews' = reviews \cup
        {[request |-> r, reason |-> Head(routed[r].reasons),
          proposed |-> routed[r].proposed]}

\* HandoffService._record with ReviewQueue.enqueue: the item is stored; or a
\* SQLAlchemyError, raised before or after the commit took effect, is
\* swallowed.
Enqueue(r) ==
    /\ pc[r] = "enqueue"
    /\ \/ /\ session[r] = "clean"
          /\ Stored(r)
          /\ UNCHANGED <<session, faults>>
       \/ /\ session[r] = "clean"
          /\ faults < MaxFaults
          /\ faults' = faults + 1
          /\ Stored(r) \/ UNCHANGED reviews
          /\ session' = [session EXCEPT ![r] = "broken_by_queue"]
       \/ /\ session[r] # "clean"
          /\ UNCHANGED <<reviews, session, faults>>
    /\ pc' = [pc EXCEPT ![r] = AfterHandoff(r)]
    /\ UNCHANGED <<messages, inserting, target, turn, position, analysis, routed, error>>

Step(r) ==
    \/ Get(r)
    \/ NextPosition(r)
    \/ Refused(r)
    \/ Flush(r)
    \/ Commit(r)
    \/ Analyze(r)
    \/ Route(r)
    \/ Enqueue(r)

Next == \E r \in Requests : Start(r) \/ Step(r) \/ Fault(r)

Spec == Init /\ [][Next]_vars

\* Awaited calls return: statements, and the provider's calls, which have a
\* deadline.  A request need not arrive and the database need not fail.
FairSpec == Spec /\ \A r \in Requests : WF_vars(Step(r))

-----------------------------------------------------------------------------
(* Properties. *)

\* 0, 1, 2, ... without a gap and without two turns at one position.
Dense(rows) ==
    /\ \A m, n \in rows : m.position = n.position => m = n
    /\ \A m \in rows : \A p \in 0..m.position : \E n \in rows : n.position = p

\* The turns of a conversation are numbered densely, whatever appends race and
\* fail (models/conversation.py:66-71: an exchange must not be replayed in the
\* wrong order).
PositionsAreDense == \A c \in Conversations : Dense(messages[c])

\* A turn on record stays as it is, and what comes later stands after it: a
\* history once read is never rewritten.
TurnsAreOnlyAppended ==
    [][\A c \in Conversations :
           /\ messages[c] \subseteq messages'[c]
           /\ \A m \in messages[c], n \in messages'[c] \ messages[c] :
                  m.position < n.position]_vars

\* Every reply on record stands after the question it answers, in the same
\* conversation, and no request is answered twice.
AnswerFollowsItsQuestion ==
    \A c \in Conversations : \A m \in messages[c] :
        m.role = "assistant" =>
            /\ \E n \in messages[c] : /\ n.role = "customer"
                                      /\ n.request = m.request
                                      /\ n.position < m.position
            /\ \A n \in messages[c] :
                   n.role = "assistant" /\ n.request = m.request => n = m

\* The turns of a conversation are in order, however requests on it race: their
\* positions are dense, and every reply stands after its question, once.
TurnsAreInOrder == PositionsAreDense /\ AnswerFollowsItsQuestion

\* What a customer was told in a conversation is what the conversation says.
ReplyIsOnRecord ==
    \A r \in Requests :
        pc[r] = "replied" /\ target[r] # NoConversation =>
            \E m \in messages[target[r]] :
                /\ m.request = r
                /\ m.role = "assistant"
                /\ m.text = routed[r].text
                /\ m.cited = routed[r].cited

\* A customer is told that a person takes over exactly when the request was
\* escalated, and then it is in the review queue, with a reason, unless the
\* database failed on the way there.
PromiseIsKept ==
    \A r \in Requests :
        pc[r] = "replied" =>
            /\ routed[r].text \in {"review", "noticed"} <=> routed[r].reasons # <<>>
            /\ routed[r].reasons # <<>> /\ session[r] = "clean" =>
                   \E item \in reviews :
                       /\ item.request = r
                       /\ item.reason = Head(routed[r].reasons)

\* No reply on record commits to a financial outcome, and sources are named
\* only for the very text they were found for.
RecordedRepliesAreAllowed ==
    \A c \in Conversations : \A m \in messages[c] :
        /\ m.text # "promise"
        /\ m.cited => m.text \in {"answer", "referral"}

\* What the customer is told is on record, as it was told; it names a person
\* exactly when one has been asked; and it says nothing policy forbids.
RepliesAreHonest == ReplyIsOnRecord /\ PromiseIsKept /\ RecordedRepliesAreAllowed

\* Every request that arrives is answered or fails.
EveryRequestEnds ==
    \A r \in Requests : pc[r] # "new" ~> pc[r] \in {"replied", "failed"}

\* docs/architecture.md:603: "A queue failure never costs the customer their
\* reply."
QueueFailureNeverCostsTheReply ==
    \A r \in Requests :
        ~(error[r] = "pending_rollback" /\ session[r] = "broken_by_queue")

=============================================================================
