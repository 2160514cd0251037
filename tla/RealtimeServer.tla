--------------------------- MODULE RealtimeServer ---------------------------
(***************************************************************************)
(* The WebSocket endpoint: backend/app/api/v1/realtime.py with the         *)
(* registry of backend/app/realtime/connection.py and the AnswerStreamer   *)
(* of backend/app/realtime/answers.py.                                     *)
(*                                                                         *)
(* Each connection is served by a task of its own; a step of a task is the *)
(* code between two awaits.  Frames travel over ordered channels, as a     *)
(* WebSocket's do.  A frame carries the number of the question it belongs  *)
(* to, which is not on the wire: it is there for the properties.           *)
(***************************************************************************)
EXTENDS Naturals, Sequences, FiniteSets

CONSTANTS
    Sockets,         \* connections; one is used again once both ends are done
    MaxQuestions,    \* bound on the questions asked, numbered from 1
    MaxConnections,  \* realtime_max_connections
    MaxPieces        \* bound on the deltas of an answer

ASSUME SocketsAssumption == IsFiniteSet(Sockets)
ASSUME MaxQuestionsAssumption == MaxQuestions \in Nat
ASSUME MaxConnectionsAssumption == MaxConnections \in Nat \ {0}
ASSUME MaxPiecesAssumption == MaxPieces \in Nat

VARIABLES
    handler,    \* where the task of a connection is
    registry,   \* the connections ConnectionRegistry holds
    others,     \* how many more it holds for other clients
    link,       \* the transport: "unused", "up" or "down"
    toServer,   \* frames on their way to the server
    toClient,   \* frames on their way to the client
    answering,  \* the question a task is answering
    left,       \* pieces it has still to send
    available,  \* SessionAnswerer.available: a database is configured
    protects    \* Authenticator.protects: a handshake needs a ticket

serverVars == <<handler, registry, others, link, toServer, toClient, answering,
                left, available, protects>>

\* What the deployment's settings fix.
settings == <<available, protects>>

Question == 1..MaxQuestions

\* What a question turns out to be at the server: a valid ask without or with
\* a conversation_id, one the envelope refuses (longer than 4000 characters),
\* one over the frame limit.
AskKind == {"ask", "ask_in_conversation", "invalid", "oversize"}

ClientFrame == [kind : AskKind, q : Question]

\* "open" is the end of the handshake, "close" a close frame.
ServerFrame ==
    [type : {"open", "ready", "delta", "complete", "error", "close"},
     q : 0..MaxQuestions]

frame(type, q) == [type |-> type, q |-> q]

\* Between registry.add and the finally of the endpoint.
Registered == {"greet", "receive", "answer", "send", "prose", "finally"}

HandlerState == {"none", "accept", "auth", "gone"} \cup Registered

ServerTypeOK ==
    /\ handler \in [Sockets -> HandlerState]
    /\ registry \in SUBSET Sockets
    /\ others \in 0..MaxConnections
    /\ link \in [Sockets -> {"unused", "up", "down"}]
    /\ toServer \in [Sockets -> Seq(ClientFrame)]
    /\ toClient \in [Sockets -> Seq(ServerFrame)]
    /\ answering \in [Sockets -> 0..MaxQuestions]
    /\ left \in [Sockets -> 0..MaxPieces]
    /\ available \in BOOLEAN
    /\ protects \in BOOLEAN

ServerInit ==
    /\ handler = [s \in Sockets |-> "none"]
    /\ registry = {}
    /\ others \in 0..MaxConnections
    /\ link = [s \in Sockets |-> "unused"]
    /\ toServer = [s \in Sockets |-> <<>>]
    /\ toClient = [s \in Sockets |-> <<>>]
    /\ answering = [s \in Sockets |-> 0]
    /\ left = [s \in Sockets |-> 0]
    /\ available \in BOOLEAN
    /\ protects \in BOOLEAN

-----------------------------------------------------------------------------
(* Sending. *)

\* Connection.send, then continue at next.  To a client that is gone the send
\* raises, and the task unwinds to its finally, or the frame is dropped and
\* nothing is noticed yet: both happen, depending on what the server's event
\* loop has seen of the disconnect.
Send(s, f, next) ==
    \/ /\ link[s] = "up"
       /\ toClient' = [toClient EXCEPT ![s] = Append(@, f)]
       /\ handler' = [handler EXCEPT ![s] = next]
    \/ /\ link[s] = "down"
       /\ handler' \in {[handler EXCEPT ![s] = next],
                        [handler EXCEPT ![s] = "finally"]}
       /\ UNCHANGED toClient

\* websocket.close: the transport goes after the frames already sent.
Close(s) ==
    toClient' = IF link[s] = "up"
                THEN [toClient EXCEPT ![s] = Append(@, frame("close", 0))]
                ELSE toClient

-----------------------------------------------------------------------------
(* The endpoint function realtime. *)

\* websocket.accept() comes first, so the client's socket opens before it is
\* known whether the connection may stay.
Accept(s) ==
    /\ handler[s] = "accept"
    /\ handler' = [handler EXCEPT ![s] = "auth"]
    /\ toClient' = IF link[s] = "up"
                   THEN [toClient EXCEPT ![s] = Append(@, frame("open", 0))]
                   ELSE toClient
    /\ UNCHANGED <<registry, others, link, toServer, answering, left, settings>>

\* MUTANT: the connection that makes the registry too large is still added.
Full_late == Cardinality(registry) + others > MaxConnections

\* registry.add, when the registry is full.
Full == Cardinality(registry) + others >= MaxConnections

\* authenticate_socket returns None: the ticket is missing, expired or spent,
\* or its store cannot be reached.
Refuse(s) ==
    /\ handler[s] = "auth"
    /\ protects
    /\ Close(s)
    /\ handler' = [handler EXCEPT ![s] = "gone"]
    /\ UNCHANGED <<registry, others, link, toServer, answering, left, settings>>

\* authenticate_socket returns an identity; registry.add follows without an
\* await in between.
Admit(s) ==
    /\ handler[s] = "auth"
    /\ IF Full
       THEN /\ Close(s)
            /\ handler' = [handler EXCEPT ![s] = "gone"]
            /\ UNCHANGED registry
       ELSE /\ registry' = registry \cup {s}
            /\ handler' = [handler EXCEPT ![s] = "greet"]
            /\ UNCHANGED toClient
    /\ UNCHANGED <<others, link, toServer, answering, left, settings>>

\* The Ready frame; recorder and answerer are bound to the caller's scope.
Greet(s) ==
    /\ handler[s] = "greet"
    /\ Send(s, frame("ready", 0), "receive")
    /\ UNCHANGED <<registry, others, link, toServer, answering, left, settings>>

\* MUTANT: a disconnect leaves the endpoint without its finally.
Disconnected_unregistered(s) ==
    /\ handler[s] = "receive"
    /\ toServer[s] = <<>>
    /\ link[s] = "down"
    /\ handler' = [handler EXCEPT ![s] = "gone"]
    /\ UNCHANGED <<registry, others, link, toServer, toClient, answering, left, settings>>

\* receive_text raises WebSocketDisconnect after the last frame received.
Disconnected(s) ==
    /\ handler[s] = "receive"
    /\ toServer[s] = <<>>
    /\ link[s] = "down"
    /\ handler' = [handler EXCEPT ![s] = "finally"]
    /\ UNCHANGED <<registry, others, link, toServer, toClient, answering, left, settings>>

\* _serve and _handle up to the next await.
Receive(s) ==
    /\ handler[s] = "receive"
    /\ toServer[s] # <<>>
    /\ toServer' = [toServer EXCEPT ![s] = Tail(@)]
    /\ LET f == Head(toServer[s]) IN
       CASE f.kind = "oversize" ->
                /\ Close(s)
                /\ handler' = [handler EXCEPT ![s] = "finally"]
                /\ UNCHANGED answering
         [] f.kind = "invalid" ->
                /\ Send(s, frame("error", f.q), "receive")
                /\ UNCHANGED answering
         [] f.kind \in {"ask", "ask_in_conversation"} /\ available ->
                /\ handler' = [handler EXCEPT ![s] = "answer"]
                /\ answering' = [answering EXCEPT ![s] = f.q]
                /\ UNCHANGED toClient
         [] f.kind = "ask_in_conversation" /\ ~available ->
                \* the customer's turn cannot be recorded without a database
                /\ Send(s, frame("error", f.q), "receive")
                /\ UNCHANGED answering
         [] OTHER ->
                /\ handler' = [handler EXCEPT ![s] = "prose"]
                /\ answering' = [answering EXCEPT ![s] = f.q]
                /\ UNCHANGED toClient
    /\ left' = [left EXCEPT ![s] = IF handler'[s] = "prose" THEN MaxPieces ELSE 0]
    /\ UNCHANGED <<registry, others, link, settings>>

\* The finally of the endpoint: unregister, close what is not closed.
Finally(s) ==
    /\ handler[s] = "finally"
    /\ registry' = registry \ {s}
    /\ IF \E i \in DOMAIN toClient[s] : toClient[s][i].type = "close"
       THEN UNCHANGED toClient
       ELSE Close(s)
    /\ handler' = [handler EXCEPT ![s] = "gone"]
    /\ answering' = [answering EXCEPT ![s] = 0]
    /\ UNCHANGED <<others, link, toServer, left, settings>>

-----------------------------------------------------------------------------
(* AnswerStreamer. *)

\* The question is done with and the loop reads on.
Done(s) == answering' = [answering EXCEPT ![s] = 0]

\* MUTANT: the except branches of _answer_grounded fall through.
Answered_falling_through(s) ==
    /\ handler[s] = "answer"
    /\ \/ /\ Send(s, frame("error", answering[s]), "send")
          /\ UNCHANGED left
       \/ /\ \E pieces \in 0..MaxPieces : left' = [left EXCEPT ![s] = pieces]
          /\ handler' = [handler EXCEPT ![s] = "send"]
          /\ UNCHANGED toClient
    /\ UNCHANGED <<registry, others, link, toServer, answering, settings>>

\* _answer_grounded: the pipeline fails (any exception), or has the whole reply.
Answered(s) ==
    /\ handler[s] = "answer"
    /\ \/ /\ Send(s, frame("error", answering[s]), "receive")
          /\ Done(s)
          /\ UNCHANGED left
       \/ /\ \E pieces \in 0..MaxPieces : left' = [left EXCEPT ![s] = pieces]
          /\ handler' = [handler EXCEPT ![s] = "send"]
          /\ UNCHANGED <<toClient, answering>>
    /\ UNCHANGED <<registry, others, link, toServer, settings>>

\* _answer_grounded: the next delta, or the completion.
SendPiece(s) ==
    /\ handler[s] = "send"
    /\ IF left[s] > 0
       THEN /\ Send(s, frame("delta", answering[s]), "send")
            /\ left' = [left EXCEPT ![s] = @ - 1]
            /\ UNCHANGED answering
       ELSE /\ Send(s, frame("complete", answering[s]), "receive")
            /\ Done(s)
            /\ UNCHANGED left
    /\ UNCHANGED <<registry, others, link, toServer, settings>>

\* _stream_prose without a conversation: a delta, the end of the stream, an
\* LLMError, or an exception that is none (which ends the connection).
StreamProse(s) ==
    /\ handler[s] = "prose"
    /\ \/ /\ left[s] > 0
          /\ Send(s, frame("delta", answering[s]), "prose")
          /\ left' = [left EXCEPT ![s] = @ - 1]
          /\ UNCHANGED answering
       \/ /\ \E end \in {"complete", "error"} :
                Send(s, frame(end, answering[s]), "receive")
          /\ Done(s)
          /\ UNCHANGED left
       \/ /\ handler' = [handler EXCEPT ![s] = "finally"]
          /\ UNCHANGED <<toClient, answering, left>>
    /\ UNCHANGED <<registry, others, link, toServer, settings>>

Handle(s) ==
    \/ Accept(s)
    \/ Refuse(s)
    \/ Admit(s)
    \/ Greet(s)
    \/ Disconnected(s)
    \/ Receive(s)
    \/ Finally(s)
    \/ Answered(s)
    \/ SendPiece(s)
    \/ StreamProse(s)

\* Other clients of the same process come and go.
OtherJoins ==
    /\ ~Full
    /\ others' = others + 1
    /\ UNCHANGED <<handler, registry, link, toServer, toClient, answering, left, settings>>

OtherLeaves ==
    /\ others > 0
    /\ others' = others - 1
    /\ UNCHANGED <<handler, registry, link, toServer, toClient, answering, left, settings>>

-----------------------------------------------------------------------------
(* Properties of the endpoint. *)

\* Every connection whose task is between add and finally is counted, no other
\* is, and the count never exceeds the ceiling.
RegistryIsExact ==
    /\ registry = {s \in Sockets : handler[s] \in Registered}
    /\ Cardinality(registry) + others <= MaxConnections

\* The frames of a connection answer its questions one after the other: the
\* frames of a question come together, deltas first, one complete or error
\* last; and nothing ends a question that is still being worked on.
AnswersAreWellFormed ==
    \A s \in Sockets :
        LET f == toClient[s]
            answer == {i \in DOMAIN f : f[i].q # 0}
        IN  /\ \A i, k \in answer :
                  i < k => \/ f[i].q < f[k].q
                           \/ f[i].q = f[k].q /\ f[i].type = "delta"
            /\ \A i \in answer :
                  f[i].type # "delta" => f[i].q # answering[s]

=============================================================================
