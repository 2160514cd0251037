--------------------------- MODULE RealtimeProofs ---------------------------
(***************************************************************************)
(* Proofs about RealtimeSession, for any number of connections, questions, *)
(* pieces and reconnections: the registry counts exactly the connections   *)
(* being served, a page never waits for a question without a timer, and an *)
(* answer is whole and reaches its own turn until a question timed out.    *)
(***************************************************************************)
EXTENDS RealtimeSession, FiniteSetTheorems, SequenceTheorems, TLAPS

-----------------------------------------------------------------------------
(* The registry. *)

RegistryInv ==
    /\ handler \in [Sockets -> HandlerState]
    /\ others \in Nat
    /\ RegistryIsExact

\* A task that stays on the same side of add and finally.
LEMMA RegistryFrame ==
    ASSUME RegistryInv, NEW s \in Sockets, NEW h \in HandlerState,
           handler' = [handler EXCEPT ![s] = h],
           handler[s] \in Registered <=> h \in Registered,
           UNCHANGED <<registry, others>>
    PROVE  RegistryInv'
BY DEF RegistryInv, RegistryIsExact

\* Connection.send moves a registered task to a registered state.
LEMMA SendRegistered ==
    ASSUME RegistryInv, NEW s \in Sockets, NEW f, NEW next \in Registered,
           Send(s, f, next), handler[s] \in Registered,
           UNCHANGED <<registry, others>>
    PROVE  RegistryInv'
<1>1. PICK h \in Registered : handler' = [handler EXCEPT ![s] = h]
  BY DEF Send, Registered
<1>2. h \in HandlerState
  BY DEF HandlerState
<1> QED BY <1>1, <1>2, RegistryFrame

LEMMA RegistryInvInit == Init => RegistryInv
<1> SUFFICES ASSUME Init PROVE RegistryInv
  OBVIOUS
<1>1. /\ handler = [s \in Sockets |-> "none"]
      /\ registry = {}
      /\ others \in 0..MaxConnections
  BY DEF Init, ServerInit
<1>2. registry = {s \in Sockets : handler[s] \in Registered}
  BY <1>1 DEF Registered
<1>3. Cardinality(registry) = 0
  BY <1>1, FS_EmptySet
<1> QED
  BY <1>1, <1>2, <1>3, MaxConnectionsAssumption
  DEF RegistryInv, RegistryIsExact, HandlerState

LEMMA RegistryInvNext == RegistryInv /\ [Next]_vars => RegistryInv'
<1> SUFFICES ASSUME RegistryInv, [Next]_vars PROVE RegistryInv'
  OBVIOUS
<1> USE MaxConnectionsAssumption
<1>0. /\ IsFiniteSet(registry) /\ Cardinality(registry) \in Nat
      /\ registry \subseteq Sockets
  BY SocketsAssumption, FS_Subset, FS_CardinalityType
  DEF RegistryInv, RegistryIsExact
<1>1. ASSUME NEW s \in Sockets, Handle(s) PROVE RegistryInv'
  <2>1. CASE Accept(s)
    BY <2>1, RegistryFrame DEF Accept, Registered, HandlerState
  <2>2. CASE Refuse(s)
    BY <2>2, RegistryFrame DEF Refuse, Registered, HandlerState
  <2>3. CASE Admit(s)
    <3>1. CASE Full
      BY <2>3, <3>1, RegistryFrame DEF Admit, Registered, HandlerState
    <3>2. CASE ~Full
      <4>1. /\ registry' = registry \cup {s}
            /\ handler' = [handler EXCEPT ![s] = "greet"]
            /\ handler[s] = "auth" /\ others' = others
        BY <2>3, <3>2 DEF Admit
      <4>2. s \notin registry
        BY <4>1 DEF RegistryInv, RegistryIsExact, Registered
      <4>3. Cardinality(registry') = Cardinality(registry) + 1
        BY <1>0, <4>1, <4>2, FS_AddElement
      <4>4. registry' = {x \in Sockets : handler'[x] \in Registered}
        BY <4>1 DEF RegistryInv, RegistryIsExact, Registered
      <4>5. Cardinality(registry') + others' <= MaxConnections
        BY <1>0, <3>2, <4>1, <4>3 DEF Full, RegistryInv
      <4> QED
        BY <4>1, <4>4, <4>5 DEF RegistryInv, RegistryIsExact, HandlerState, Registered
    <3> QED BY <3>1, <3>2
  <2>4. CASE Greet(s)
    BY <2>4, SendRegistered DEF Greet, Registered
  <2>5. CASE Disconnected(s)
    BY <2>5, RegistryFrame DEF Disconnected, Registered, HandlerState
  <2>6. CASE Receive(s)
    <3>1. handler[s] = "receive" /\ UNCHANGED <<registry, others>>
      BY <2>6 DEF Receive
    <3>2. CASE \E f : Send(s, f, "receive")
      BY <3>1, <3>2, SendRegistered DEF Registered
    <3>3. CASE \E h \in {"finally", "answer", "prose"} : handler' = [handler EXCEPT ![s] = h]
      BY <3>1, <3>3, RegistryFrame DEF Registered, HandlerState
    <3>4. \/ \E f : Send(s, f, "receive")
          \/ \E h \in {"finally", "answer", "prose"} : handler' = [handler EXCEPT ![s] = h]
      BY <2>6 DEF Receive
    <3> QED BY <3>2, <3>3, <3>4
  <2>7. CASE Finally(s)
    <3>1. /\ registry' = registry \ {s}
          /\ handler' = [handler EXCEPT ![s] = "gone"]
          /\ handler[s] = "finally" /\ others' = others
      BY <2>7 DEF Finally
    <3>2. s \in registry
      BY <3>1 DEF RegistryInv, RegistryIsExact, Registered
    <3>3. Cardinality(registry') = Cardinality(registry) - 1
      BY <1>0, <3>1, <3>2, FS_RemoveElement
    <3>4. registry' = {x \in Sockets : handler'[x] \in Registered}
      BY <3>1 DEF RegistryInv, RegistryIsExact, Registered
    <3> QED
      BY <1>0, <3>1, <3>3, <3>4 DEF RegistryInv, RegistryIsExact, HandlerState
  <2>8. CASE Answered(s)
    <3>1. CASE \E f : Send(s, f, "receive")
      BY <2>8, <3>1, SendRegistered DEF Answered, Registered
    <3>2. CASE handler' = [handler EXCEPT ![s] = "send"]
      BY <2>8, <3>2, RegistryFrame DEF Answered, Registered, HandlerState
    <3> QED BY <2>8, <3>1, <3>2 DEF Answered
  <2>9. CASE SendPiece(s)
    BY <2>9, SendRegistered DEF SendPiece, Registered
  <2>10. CASE StreamProse(s)
    <3>1. ASSUME NEW f, NEW next \in {"prose", "receive"}, Send(s, f, next)
          PROVE  RegistryInv'
      BY <2>10, <3>1, SendRegistered DEF StreamProse, Registered
    <3>2. CASE handler' = [handler EXCEPT ![s] = "finally"]
      BY <2>10, <3>2, RegistryFrame DEF StreamProse, Registered, HandlerState
    <3> QED BY <2>10, <3>1, <3>2 DEF StreamProse
  <2> QED
    BY <1>1, <2>1, <2>2, <2>3, <2>4, <2>5, <2>6, <2>7, <2>8, <2>9, <2>10 DEF Handle
<1>2. CASE Others
  <2>1. /\ UNCHANGED <<handler, registry>>
        /\ \/ others' = others + 1 /\ ~Full
           \/ others' = others - 1 /\ others > 0
    BY <1>2 DEF Others, OtherJoins, OtherLeaves
  <2> QED BY <1>0, <2>1 DEF RegistryInv, RegistryIsExact, Full
<1>3. ASSUME NEW s \in Sockets, create(s), UNCHANGED <<registry, others>>
      PROVE  RegistryInv'
  <2>1. PICK h \in {"accept", "gone"} : handler' = [handler EXCEPT ![s] = h]
    BY <1>3 DEF create
  <2>2. handler[s] \in {"none", "gone"}
    BY <1>3 DEF create, Unused
  <2> QED BY <1>3, <2>1, <2>2, RegistryFrame DEF Registered, HandlerState
<1>4. CASE UNCHANGED <<handler, registry, others>>
  BY <1>4 DEF RegistryInv, RegistryIsExact
<1>5. CASE Connect
  BY <1>3, <1>4, <1>5 DEF Connect
<1>6. CASE Ticket
  BY <1>3, <1>4, <1>6 DEF Ticket
<1>7. CASE \/ OnAnswerTimeout \/ Outage
           \/ \E kind \in Kinds : Ask(kind)
           \/ \E s \in Sockets : Page(s) \/ Drop(s)
  BY <1>4, <1>7
  DEF OnAnswerTimeout, Outage, Ask, Page, OnOpen, OnMessage, OnClose, Drop, serverVars
<1>8. CASE UNCHANGED vars
  BY <1>4, <1>8 DEF vars
<1> QED
  BY <1>1, <1>2, <1>5, <1>6, <1>7, <1>8 DEF Next, Server

\* The registry holds exactly the connections between add and finally, and
\* never more than the ceiling, whatever breaks and whoever else connects.
THEOREM RegistryCounts == Spec => []RegistryIsExact
<1>1. RegistryInv => RegistryIsExact
  BY DEF RegistryInv
<1> QED BY <1>1, RegistryInvInit, RegistryInvNext, PTL DEF Spec

-----------------------------------------------------------------------------
(* The page's wait for an answer. *)

TimerInv ==
    /\ asked \in 0..MaxQuestions
    /\ told \in [Question -> {"unasked", "waiting", "answered", "failed"}]
    /\ timers \in Seq(Question)
    /\ awaiting \in BOOLEAN
    /\ WaitingIsTimed

timerVars == <<asked, told, timers, awaiting, current>>

\* A callback that stops waiting and has settled the question, if there was one.
LEMMA WaitEnds ==
    ASSUME TimerInv, asked' = asked, awaiting' = FALSE, timers' \in Seq(Question),
           NEW end \in {"answered", "failed"},
           told' = IF sending THEN [told EXCEPT ![asked] = end] ELSE told
    PROVE  TimerInv'
<1>1. /\ asked' \in 0..MaxQuestions
      /\ told' \in [Question -> {"unasked", "waiting", "answered", "failed"}]
  BY DEF TimerInv
<1>2. ~sending'
  <2>1. CASE sending
    <3>1. asked \in Question
      BY <2>1, MaxQuestionsAssumption DEF sending, TimerInv, Question
    <3>2. told'[asked] = end
      BY <2>1, <3>1 DEF TimerInv
    <3> QED BY <3>2 DEF sending
  <2>2. CASE ~sending
    BY <2>2 DEF sending
  <2> QED BY <2>1, <2>2
<1> QED BY <1>1, <1>2 DEF TimerInv, WaitingIsTimed

\* A callback that only happens while nothing is awaited.
LEMMA NotWaiting ==
    ASSUME TimerInv, ~awaiting, UNCHANGED <<asked, told>>, awaiting' = FALSE,
           timers' \in Seq(Question)
    PROVE  TimerInv'
BY DEF TimerInv, WaitingIsTimed, sending

LEMMA TimerInvInit == Init => TimerInv
<1> SUFFICES ASSUME Init PROVE TimerInv
  OBVIOUS
<1>1. asked = 0 /\ asked \in 0..MaxQuestions
  BY MaxQuestionsAssumption DEF Init
<1>2. told \in [Question -> {"unasked", "waiting", "answered", "failed"}]
  BY DEF Init
<1>3. timers \in Seq(Question)
  BY DEF Init
<1>4. ~sending
  BY <1>1 DEF sending
<1>5. awaiting = FALSE
  BY DEF Init
<1> QED BY <1>1, <1>2, <1>3, <1>4, <1>5 DEF TimerInv, WaitingIsTimed

LEMMA TimerInvNext == TimerInv /\ [Next]_vars => TimerInv'
<1> SUFFICES ASSUME TimerInv, [Next]_vars PROVE TimerInv'
  OBVIOUS
<1>0. timers # <<>> => /\ Tail(timers) \in Seq(Question)
                       /\ SubSeq(timers, 1, Len(timers) - 1) \in Seq(Question)
                       /\ SubSeq(timers, 2, Len(timers) - 1) \in Seq(Question)
  BY DEF TimerInv
<1>1. CASE UNCHANGED timerVars
  BY <1>1 DEF TimerInv, WaitingIsTimed, sending, timerVars
<1>2. ASSUME NEW s \in Sockets, OnMessage(s) PROVE TimerInv'
  <2>1. UNCHANGED <<asked, timers, current>>
    BY <1>2 DEF OnMessage
  <2>2. CASE Head(toClient[s]).type \in {"ready", "delta"}
    BY <1>1, <1>2, <2>1, <2>2 DEF OnMessage, timerVars
  <2>3. CASE Head(toClient[s]).type = "complete"
    <3>1. CASE awaiting
      BY <1>2, <2>1, <2>3, <3>1, WaitEnds DEF OnMessage, completeStream, TimerInv
    <3>2. CASE ~awaiting
      BY <1>2, <2>1, <2>3, <3>2, NotWaiting DEF OnMessage, TimerInv
    <3> QED BY <3>1, <3>2
  <2>4. CASE Head(toClient[s]).type = "error"
    BY <1>2, <2>1, <2>4, WaitEnds DEF OnMessage, failStream, TimerInv
  <2> QED BY <1>2, <2>2, <2>3, <2>4 DEF OnMessage
<1>3. ASSUME NEW s \in Sockets, OnClose(s) PROVE TimerInv'
  <2>1. asked' = asked /\ settle /\ Report
    BY <1>3 DEF OnClose
  <2>2. awaiting' = FALSE
    BY <2>1 DEF settle
  <2>3. timers' \in Seq(Question)
    BY <2>1, <1>0 DEF settle, TimerInv
  <2>4. CASE awaiting
    BY <2>1, <2>2, <2>3, <2>4, WaitEnds DEF Report, failStream
  <2>5. CASE ~awaiting
    BY <2>1, <2>2, <2>3, <2>5, NotWaiting DEF Report
  <2> QED BY <2>4, <2>5
<1>4. CASE OnAnswerTimeout
  <2>1. asked' = asked /\ timers # <<>>
    BY <1>4 DEF OnAnswerTimeout
  <2>2. CASE awaiting
    BY <1>0, <1>4, <2>1, <2>2, WaitEnds DEF OnAnswerTimeout, failStream
  <2>3. CASE ~awaiting
    BY <1>0, <1>4, <2>1, <2>3, NotWaiting DEF OnAnswerTimeout, TimerInv
  <2> QED BY <2>2, <2>3
<1>5. ASSUME NEW kind \in Kinds, Ask(kind) PROVE TimerInv'
  <2>1. /\ asked < MaxQuestions
        /\ asked' = asked + 1
        /\ awaiting' = TRUE
        /\ current' = TRUE
        /\ timers' = Append(timers, asked + 1)
        /\ told' = [told EXCEPT ![asked + 1] = "waiting"]
    BY <1>5 DEF Ask
  <2>2. asked' \in Question /\ asked' > 0
    BY <2>1, MaxQuestionsAssumption DEF TimerInv, Question
  <2>3. timers' \in Seq(Question) /\ timers' # <<>> /\ timers'[Len(timers')] = asked'
    BY <2>1, <2>2 DEF TimerInv
  <2>4. told' \in [Question -> {"unasked", "waiting", "answered", "failed"}]
    BY <2>1, <2>2 DEF TimerInv
  <2>5. sending'
    BY <2>1, <2>2 DEF sending, TimerInv
  <2> QED
    BY <2>1, <2>2, <2>3, <2>4, <2>5 DEF TimerInv, WaitingIsTimed, Question
<1>6. ASSUME NEW s \in Sockets, Server(s) \/ Drop(s) \/ OnOpen(s)
      PROVE  TimerInv'
  BY <1>1, <1>6 DEF Server, Drop, OnOpen, clientVars, timerVars
<1>7. CASE Connect \/ Ticket \/ Others \/ Outage
  BY <1>1, <1>7 DEF Connect, Ticket, Others, Outage, clientVars, timerVars
<1>8. CASE UNCHANGED vars
  BY <1>1, <1>8 DEF vars, timerVars
<1> QED
  BY <1>2, <1>3, <1>4, <1>5, <1>6, <1>7, <1>8 DEF Next, Page

\* The page waits for exactly the question the hook waits for, with that
\* question's timer armed, whatever the server and the network do.
THEOREM NothingHangsSilently == Spec => []WaitingIsTimed
<1>1. TimerInv => WaitingIsTimed
  BY DEF TimerInv
<1> QED BY <1>1, TimerInvInit, TimerInvNext, PTL DEF Spec

-----------------------------------------------------------------------------
(* The frames of a connection: in is on its way to the server, out to the     *)
(* page, a is the question the task is answering (0 for none), and n the last  *)
(* question asked.                                                             *)

\* Questions are taken in order, and their answers are sent in that order: the
\* frames of one come together, and nothing but deltas comes before its end.
Wire(in, out, a, n) ==
    /\ a <= n
    /\ \A i \in 1..Len(in) : a < in[i].q /\ in[i].q <= n
    /\ \A i, k \in 1..Len(in) : i < k => in[i].q < in[k].q
    /\ \A i \in 1..Len(out) :
        /\ out[i].q <= n
        /\ out[i].type \in {"delta", "complete", "error"} => out[i].q # 0
        /\ a # 0 => out[i].q <= a
        /\ out[i].q # 0 /\ out[i].type # "delta" => out[i].q # a
    /\ \A i \in 1..Len(out) : \A k \in 1..Len(in) : out[i].q < in[k].q
    /\ \A i, k \in 1..Len(out) :
        i < k /\ out[i].q # 0 /\ out[k].q # 0 =>
            out[i].q < out[k].q \/ (out[i].q = out[k].q /\ out[i].type = "delta")

\* Nothing is on its way but the question that is waited for, if one is.
Only(in, out, a, n, waiting) ==
    /\ \A i \in 1..Len(in) : waiting /\ in[i].q = n
    /\ a # 0 => waiting /\ a = n
    /\ \A i \in 1..Len(out) : out[i].q # 0 => waiting /\ out[i].q = n

\* Where a task is says whether it has a question.
TaskInv ==
    \A s \in Sockets :
        /\ handler[s] \in {"answer", "send", "prose"} => answering[s] # 0
        /\ handler[s] \notin {"answer", "send", "prose", "finally"} => answering[s] = 0

WireInv == \A s \in Sockets : Wire(toServer[s], toClient[s], answering[s], asked)

\* The socket the hook listens to.
Live(s) == browser[s] \in {"connecting", "open"}

\* The hook listens to one socket at most, is then not on its way to another,
\* and has not used up its reconnections.
PageInv ==
    /\ \A s \in Sockets : Live(s) => socketRef = s /\ pause = "no" /\ attempts <= MAX_ATTEMPTS
    /\ pause # "no" => attempts <= MAX_ATTEMPTS

\* Until a question has timed out the live socket carries nothing else, and no
\* turn has rendered anything else.
LiveInv ==
    ~late => /\ \A s \in Sockets :
                    Live(s) => Only(toServer[s], toClient[s], answering[s], asked, awaiting)
             /\ OwnAnswerUnlessTimedOut

\* A timer belongs to a question that was asked.
EarlyInv ==
    /\ \A i \in 1..Len(timers) : timers[i] <= asked
    /\ 1 \notin early

SessionInv ==
    /\ TypeOK /\ RegistryInv /\ TimerInv
    /\ TaskInv /\ WireInv /\ PageInv /\ LiveInv /\ EarlyInv

-----------------------------------------------------------------------------
(* What the steps do to the frames. *)

\* Taking the first frame off a channel shifts the others.
LEMMA TailFrames ==
    ASSUME NEW S, NEW seq \in Seq(S), seq # <<>>
    PROVE  /\ Head(seq) = seq[1] /\ seq[1] \in S
           /\ Len(seq) \in Nat \ {0} /\ 1 \in 1..Len(seq)
           /\ Tail(seq) \in Seq(S) /\ Len(Tail(seq)) = Len(seq) - 1
           /\ \A i \in 1..Len(Tail(seq)) :
                i + 1 \in 1..Len(seq) /\ i + 1 > 1 /\ Tail(seq)[i] = seq[i + 1]
BY EmptySeq, HeadTailProperties

\* Appending a frame leaves the others in their places.
LEMMA AppendFrames ==
    ASSUME NEW S, NEW seq \in Seq(S), NEW f \in S
    PROVE  /\ Append(seq, f) \in Seq(S) /\ Len(Append(seq, f)) = Len(seq) + 1
           /\ Append(seq, f)[Len(seq) + 1] = f
           /\ \A i \in 1..Len(Append(seq, f)) :
                \/ i \in 1..Len(seq) /\ Append(seq, f)[i] = seq[i]
                \/ i = Len(seq) + 1 /\ Append(seq, f)[i] = f
<1>1. Len(seq) \in Nat
  BY LenProperties
<1>2. /\ Append(seq, f) \in Seq(S) /\ Len(Append(seq, f)) = Len(seq) + 1
      /\ Append(seq, f)[Len(seq) + 1] = f
      /\ \A i \in 1..Len(seq) : Append(seq, f)[i] = seq[i]
  BY AppendProperties
<1> QED  BY <1>1, <1>2

\* The fields of frames.
LEMMA FrameTypes ==
    /\ \A f \in ClientFrame : f.q \in Nat /\ f.q # 0 /\ f.q <= MaxQuestions /\ f.kind \in AskKind
    /\ \A f \in ServerFrame : f.q \in Nat /\ f.q <= MaxQuestions
BY MaxQuestionsAssumption DEF ClientFrame, ServerFrame, Question

LEMMA InFrame ==
    ASSUME NEW in \in Seq(ClientFrame), NEW i \in 1..Len(in)
    PROVE  in[i] \in ClientFrame /\ in[i].q \in Nat /\ in[i].q # 0
<1>1. in[i] \in ClientFrame
  OBVIOUS
<1> QED  BY <1>1, FrameTypes

LEMMA OutFrame ==
    ASSUME NEW out \in Seq(ServerFrame), NEW i \in 1..Len(out)
    PROVE  out[i] \in ServerFrame /\ out[i].q \in Nat
<1>1. out[i] \in ServerFrame
  OBVIOUS
<1> QED  BY <1>1, FrameTypes

\* Nothing on its way.
LEMMA WireEmpty ==
    ASSUME NEW n \in Nat, NEW w
    PROVE  Wire(<<>>, <<>>, 0, n) /\ Only(<<>>, <<>>, 0, n, w)
BY EmptySeq DEF Wire, Only

\* The frames for the page are lost.
LEMMA WireLost ==
    ASSUME NEW in \in Seq(ClientFrame), NEW out \in Seq(ServerFrame), NEW a \in Nat,
           NEW n \in Nat, Wire(in, out, a, n)
    PROVE  Wire(in, <<>>, a, n)
BY EmptySeq DEF Wire

\* The task gives its question up.
LEMMA WireGivenUp ==
    ASSUME NEW in \in Seq(ClientFrame), NEW out \in Seq(ServerFrame), NEW a \in Nat,
           NEW n \in Nat, NEW w, Wire(in, out, a, n)
    PROVE  /\ Wire(in, out, 0, n)
           /\ Only(in, out, a, n, w) => Only(in, out, 0, n, w)
<1>1. \A i \in 1..Len(in) : 0 < in[i].q
  BY InFrame
<1> QED  BY <1>1 DEF Wire, Only

\* The page reads a frame.
LEMMA WireRead ==
    ASSUME NEW in \in Seq(ClientFrame), NEW out \in Seq(ServerFrame), NEW a \in Nat,
           NEW n \in Nat, NEW w, Wire(in, out, a, n), out # <<>>
    PROVE  /\ Wire(in, Tail(out), a, n)
           /\ Only(in, out, a, n, w) => Only(in, Tail(out), a, n, w)
<1>1. /\ Tail(out) \in Seq(ServerFrame)
      /\ \A i \in 1..Len(Tail(out)) : i + 1 \in 1..Len(out) /\ Tail(out)[i] = out[i + 1]
  BY TailFrames
<1>2. \A i, k \in 1..Len(Tail(out)) : i < k => i + 1 < k + 1
  OBVIOUS
<1>3. PICK tail : tail = Tail(out)
  OBVIOUS
<1>4. Wire(in, tail, a, n)
  BY <1>1, <1>2, <1>3 DEF Wire
<1>5. Only(in, out, a, n, w) => Only(in, tail, a, n, w)
  BY <1>1, <1>3 DEF Only
<1> QED  BY <1>3, <1>4, <1>5

\* The frame read ends the only question there is: nothing is left of it.
LEMMA WireEnded ==
    ASSUME NEW in \in Seq(ClientFrame), NEW out \in Seq(ServerFrame), NEW a \in Nat,
           NEW n \in Nat, NEW w, Wire(in, out, a, n), Only(in, out, a, n, w), out # <<>>,
           Head(out).type \in {"complete", "error"}
    PROVE  w /\ Head(out).q = n /\ Only(in, Tail(out), a, n, FALSE)
<1>1. /\ Head(out) = out[1] /\ 1 \in 1..Len(out)
      /\ \A i \in 1..Len(Tail(out)) : i + 1 \in 1..Len(out) /\ i + 1 > 1 /\ Tail(out)[i] = out[i + 1]
  BY TailFrames
<1>2. out[1].q # 0 /\ out[1].type # "delta"
  BY <1>1 DEF Wire
<1>3. w /\ out[1].q = n
  BY <1>1, <1>2 DEF Only
<1>4. \A i \in 1..Len(in) : FALSE
  BY <1>1, <1>3, InFrame DEF Wire, Only
<1>5. a = 0
  BY <1>1, <1>2, <1>3 DEF Wire, Only
<1>6. ASSUME NEW i \in 1..Len(Tail(out)), Tail(out)[i].q # 0 PROVE FALSE
  <2>1. PICK k \in 1..Len(out) : k > 1 /\ k = i + 1 /\ Tail(out)[i] = out[k]
    BY <1>1
  <2>2. out[k].q # 0 /\ 1 < k
    BY <1>6, <2>1
  <2>3. out[1].q < out[k].q
    BY <1>1, <1>2, <2>2 DEF Wire
  <2>4. out[k].q <= n /\ out[k].q \in Nat
    BY OutFrame DEF Wire
  <2> QED  BY <1>3, <2>3, <2>4
<1> QED  BY <1>1, <1>3, <1>4, <1>5, <1>6 DEF Only

\* The task sends a frame that belongs to no question, or a delta of its own.
LEMMA WireSent ==
    ASSUME NEW in \in Seq(ClientFrame), NEW out \in Seq(ServerFrame), NEW a \in Nat,
           NEW n \in Nat, NEW w, Wire(in, out, a, n), NEW f \in ServerFrame,
           \/ f.q = 0 /\ f.type \notin {"delta", "complete", "error"}
           \/ f.q = a /\ a # 0 /\ f.type = "delta"
    PROVE  /\ Wire(in, Append(out, f), a, n)
           /\ Only(in, out, a, n, w) => Only(in, Append(out, f), a, n, w)
<1>1. PICK new \in Seq(ServerFrame) :
         /\ new = Append(out, f) /\ Len(new) = Len(out) + 1 /\ new[Len(out) + 1] = f
         /\ \A i \in 1..Len(new) : \/ i \in 1..Len(out) /\ new[i] = out[i]
                                   \/ i = Len(out) + 1 /\ new[i] = f
  <2>1. /\ Append(out, f) \in Seq(ServerFrame) /\ Len(Append(out, f)) = Len(out) + 1
        /\ Append(out, f)[Len(out) + 1] = f
        /\ \A i \in 1..Len(Append(out, f)) :
              \/ i \in 1..Len(out) /\ Append(out, f)[i] = out[i]
              \/ i = Len(out) + 1 /\ Append(out, f)[i] = f
    BY AppendFrames
  <2> QED  BY <2>1
<1>2. Len(out) \in Nat
  OBVIOUS
<1>3. f.q \in Nat /\ f.q <= a /\ (f.q # 0 => f.q = a /\ f.type = "delta")
  BY FrameTypes
<1>4. ASSUME NEW i \in 1..Len(new)
      PROVE  /\ new[i].q <= n
             /\ new[i].type \in {"delta", "complete", "error"} => new[i].q # 0
             /\ a # 0 => new[i].q <= a
             /\ new[i].q # 0 /\ new[i].type # "delta" => new[i].q # a
             /\ \A k \in 1..Len(in) : new[i].q < in[k].q
  <2>1. CASE i \in 1..Len(out) /\ new[i] = out[i]
    BY <2>1 DEF Wire
  <2>2. CASE new[i] = f
    <3>1. \A k \in 1..Len(in) : f.q < in[k].q
      <4> SUFFICES ASSUME NEW k \in 1..Len(in) PROVE f.q < in[k].q
        OBVIOUS
      <4>1. a < in[k].q /\ in[k].q \in Nat
        BY InFrame DEF Wire
      <4> QED  BY <1>3, <4>1
    <3> QED  BY <1>3, <2>2, <3>1 DEF Wire
  <2> QED  BY <1>1, <2>1, <2>2
<1>5. ASSUME NEW i \in 1..Len(new), NEW k \in 1..Len(new), i < k, new[i].q # 0, new[k].q # 0
      PROVE  new[i].q < new[k].q \/ (new[i].q = new[k].q /\ new[i].type = "delta")
  <2>1. CASE k \in 1..Len(out) /\ new[k] = out[k]
    <3>1. i \in 1..Len(out) /\ new[i] = out[i]
      BY <1>1, <1>2, <1>5, <2>1
    <3> QED  BY <1>5, <2>1, <3>1 DEF Wire
  <2>2. CASE k = Len(out) + 1 /\ new[k] = f
    <3>1. i \in 1..Len(out) /\ new[i] = out[i]
      BY <1>1, <1>2, <1>5, <2>2
    <3>2. out[i].q \in Nat /\ out[i].q <= a /\ (out[i].type # "delta" => out[i].q # a)
      BY <1>3, <1>5, <2>2, <3>1, OutFrame DEF Wire
    <3> QED  BY <1>3, <1>5, <2>2, <3>1, <3>2
  <2> QED  BY <1>1, <2>1, <2>2
<1>6. Wire(in, new, a, n)
  BY <1>4, <1>5 DEF Wire
<1>7. Only(in, out, a, n, w) => Only(in, new, a, n, w)
  BY <1>1, <1>3 DEF Only
<1> QED  BY <1>1, <1>6, <1>7

\* The task sends the frame that ends its question.
LEMMA WireDone ==
    ASSUME NEW in \in Seq(ClientFrame), NEW out \in Seq(ServerFrame), NEW a \in Nat,
           NEW n \in Nat, NEW w, Wire(in, out, a, n), NEW f \in ServerFrame,
           f.q = a, a # 0, f.type \in {"complete", "error"}
    PROVE  /\ Wire(in, Append(out, f), 0, n)
           /\ Only(in, out, a, n, w) => Only(in, Append(out, f), 0, n, w)
<1>1. PICK new \in Seq(ServerFrame) :
         /\ new = Append(out, f) /\ Len(new) = Len(out) + 1 /\ new[Len(out) + 1] = f
         /\ \A i \in 1..Len(new) : \/ i \in 1..Len(out) /\ new[i] = out[i]
                                   \/ i = Len(out) + 1 /\ new[i] = f
  <2>1. /\ Append(out, f) \in Seq(ServerFrame) /\ Len(Append(out, f)) = Len(out) + 1
        /\ Append(out, f)[Len(out) + 1] = f
        /\ \A i \in 1..Len(Append(out, f)) :
              \/ i \in 1..Len(out) /\ Append(out, f)[i] = out[i]
              \/ i = Len(out) + 1 /\ Append(out, f)[i] = f
    BY AppendFrames
  <2> QED  BY <2>1
<1>2. Len(out) \in Nat
  OBVIOUS
<1>3. \A k \in 1..Len(in) : 0 < in[k].q /\ in[k].q <= n /\ a < in[k].q
  BY InFrame DEF Wire
<1>4. ASSUME NEW i \in 1..Len(new)
      PROVE  /\ new[i].q <= n
             /\ new[i].type \in {"delta", "complete", "error"} => new[i].q # 0
             /\ \A k \in 1..Len(in) : new[i].q < in[k].q
  <2>1. CASE i \in 1..Len(out) /\ new[i] = out[i]
    BY <2>1 DEF Wire
  <2>2. CASE new[i] = f
    BY <1>3, <2>2 DEF Wire
  <2> QED  BY <1>1, <2>1, <2>2
<1>5. ASSUME NEW i \in 1..Len(new), NEW k \in 1..Len(new), i < k, new[i].q # 0, new[k].q # 0
      PROVE  new[i].q < new[k].q \/ (new[i].q = new[k].q /\ new[i].type = "delta")
  <2>1. CASE k \in 1..Len(out) /\ new[k] = out[k]
    <3>1. i \in 1..Len(out) /\ new[i] = out[i]
      BY <1>1, <1>2, <1>5, <2>1
    <3> QED  BY <1>5, <2>1, <3>1 DEF Wire
  <2>2. CASE k = Len(out) + 1 /\ new[k] = f
    <3>1. i \in 1..Len(out) /\ new[i] = out[i]
      BY <1>1, <1>2, <1>5, <2>2
    <3>2. out[i].q \in Nat /\ out[i].q <= a /\ (out[i].type # "delta" => out[i].q # a)
      BY <1>5, <3>1, OutFrame DEF Wire
    <3> QED  BY <1>5, <2>2, <3>1, <3>2
  <2> QED  BY <1>1, <2>1, <2>2
<1>6. Wire(in, new, 0, n)
  BY <1>3, <1>4, <1>5 DEF Wire
<1>7. Only(in, out, a, n, w) => Only(in, new, 0, n, w)
  BY <1>1 DEF Only
<1> QED  BY <1>1, <1>6, <1>7

\* The task takes the next question.
LEMMA WireTaken ==
    ASSUME NEW in \in Seq(ClientFrame), NEW out \in Seq(ServerFrame),
           NEW n \in Nat, NEW w, Wire(in, out, 0, n), in # <<>>
    PROVE  /\ Head(in).q \in Nat /\ Head(in).q # 0
           /\ Wire(Tail(in), out, Head(in).q, n)
           /\ Only(in, out, 0, n, w) => Only(Tail(in), out, Head(in).q, n, w)
<1>1. PICK tail \in Seq(ClientFrame) :
         /\ tail = Tail(in)
         /\ \A i \in 1..Len(tail) : i + 1 \in 1..Len(in) /\ i + 1 > 1 /\ tail[i] = in[i + 1]
  BY TailFrames
<1>2. PICK q \in Nat : q = Head(in).q /\ q = in[1].q /\ q # 0 /\ 1 \in 1..Len(in)
  <2>1. Head(in) = in[1] /\ 1 \in 1..Len(in)
    BY TailFrames
  <2> QED  BY <2>1, InFrame
<1>3. q <= n
  BY <1>2 DEF Wire
<1>4. \A i \in 1..Len(tail) : q < tail[i].q /\ tail[i].q <= n
  BY <1>1, <1>2 DEF Wire
<1>5. \A i, k \in 1..Len(tail) : i < k => i + 1 < k + 1
  OBVIOUS
<1>6. \A i, k \in 1..Len(tail) : i < k => tail[i].q < tail[k].q
  BY <1>1, <1>5 DEF Wire
<1>7. \A i \in 1..Len(out) : /\ out[i].q \in Nat /\ out[i].q < q
                             /\ \A k \in 1..Len(tail) : out[i].q < tail[k].q
  BY <1>1, <1>2, OutFrame DEF Wire
<1>8. Wire(tail, out, q, n)
  <2>1. \A i \in 1..Len(out) : out[i].q <= q /\ out[i].q # q
    BY <1>7
  <2> QED  BY <1>3, <1>4, <1>6, <1>7, <2>1 DEF Wire
<1>9. Only(in, out, 0, n, w) => Only(tail, out, q, n, w)
  BY <1>1, <1>2 DEF Only
<1> QED  BY <1>1, <1>2, <1>8, <1>9

\* The page asks: the frame is sent, or lost on a link that is down.
LEMMA WireAsked ==
    ASSUME NEW in \in Seq(ClientFrame), NEW out \in Seq(ServerFrame), NEW a \in Nat,
           NEW n \in Nat, Wire(in, out, a, n), NEW f \in ClientFrame, f.q = n + 1
    PROVE  /\ Wire(in, out, a, n + 1)
           /\ Wire(Append(in, f), out, a, n + 1)
           /\ Only(in, out, a, n, FALSE) =>
                 Only(in, out, a, n + 1, TRUE) /\ Only(Append(in, f), out, a, n + 1, TRUE)
<1>1. PICK new \in Seq(ClientFrame) :
         /\ new = Append(in, f) /\ Len(new) = Len(in) + 1 /\ new[Len(in) + 1] = f
         /\ \A i \in 1..Len(new) : \/ i \in 1..Len(in) /\ new[i] = in[i]
                                   \/ i = Len(in) + 1 /\ new[i] = f
  <2>1. /\ Append(in, f) \in Seq(ClientFrame) /\ Len(Append(in, f)) = Len(in) + 1
        /\ Append(in, f)[Len(in) + 1] = f
        /\ \A i \in 1..Len(Append(in, f)) :
              \/ i \in 1..Len(in) /\ Append(in, f)[i] = in[i]
              \/ i = Len(in) + 1 /\ Append(in, f)[i] = f
    BY AppendFrames
  <2> QED  BY <2>1
<1>2. Len(in) \in Nat
  OBVIOUS
<1>3. /\ a <= n + 1 /\ a < n + 1
      /\ \A i \in 1..Len(in) : in[i].q \in Nat /\ in[i].q <= n + 1 /\ in[i].q < n + 1
      /\ \A i \in 1..Len(out) : out[i].q \in Nat /\ out[i].q <= n + 1 /\ out[i].q < n + 1
  <2>1. a <= n /\ \A i \in 1..Len(in) : in[i].q \in Nat /\ in[i].q <= n
    BY InFrame DEF Wire
  <2>2. \A i \in 1..Len(out) : out[i].q \in Nat /\ out[i].q <= n
    BY OutFrame DEF Wire
  <2> QED  BY <2>1, <2>2
<1>4. Wire(in, out, a, n + 1)
  BY <1>3 DEF Wire
<1>5. \A i \in 1..Len(new) : /\ a < new[i].q /\ new[i].q <= n + 1
                             /\ \A k \in 1..Len(out) : out[k].q < new[i].q
  BY <1>1, <1>3 DEF Wire
<1>6. ASSUME NEW i \in 1..Len(new), NEW k \in 1..Len(new), i < k PROVE new[i].q < new[k].q
  <2>1. i \in 1..Len(in) /\ new[i] = in[i]
    BY <1>1, <1>2, <1>6
  <2>2. CASE k \in 1..Len(in) /\ new[k] = in[k]
    BY <1>6, <2>1, <2>2 DEF Wire
  <2>3. CASE new[k] = f
    BY <1>3, <2>1, <2>3
  <2> QED  BY <1>1, <2>2, <2>3
<1>7. Wire(new, out, a, n + 1)
  BY <1>3, <1>5, <1>6, <1>4 DEF Wire
<1>8. Only(in, out, a, n, FALSE) => Only(in, out, a, n + 1, TRUE) /\ Only(new, out, a, n + 1, TRUE)
  BY <1>1, <1>3 DEF Only
<1> QED  BY <1>1, <1>4, <1>7, <1>8

-----------------------------------------------------------------------------
(* The steps of the endpoint. *)

LEMMA FrameType ==
    ASSUME NEW type \in {"open", "ready", "delta", "complete", "error", "close"},
           NEW q \in 0..MaxQuestions
    PROVE  frame(type, q) \in ServerFrame /\ frame(type, q).q = q /\ frame(type, q).type = type
BY DEF frame, ServerFrame

\* A send, on the connection it is for and on the others.
LEMMA SendFrames ==
    ASSUME ServerTypeOK, NEW s \in Sockets, NEW f \in ServerFrame, NEW next \in HandlerState,
           Send(s, f, next)
    PROVE  /\ handler' \in [Sockets -> HandlerState]
           /\ toClient' \in [Sockets -> Seq(ServerFrame)]
           /\ \A u \in Sockets : u # s => handler'[u] = handler[u] /\ toClient'[u] = toClient[u]
           /\ handler'[s] \in {next, "finally"}
           /\ toClient'[s] \in {toClient[s], Append(toClient[s], f)}
<1>1. Append(toClient[s], f) \in Seq(ServerFrame)
  BY AppendProperties DEF ServerTypeOK
<1>2. "finally" \in HandlerState
  BY DEF HandlerState, Registered
<1> QED  BY <1>1, <1>2 DEF Send, ServerTypeOK

\* A close frame, if the transport is there to take it.
LEMMA CloseFrames ==
    ASSUME ServerTypeOK, NEW s \in Sockets, Close(s)
    PROVE  /\ toClient' \in [Sockets -> Seq(ServerFrame)]
           /\ \A u \in Sockets : u # s => toClient'[u] = toClient[u]
           /\ toClient'[s] \in {toClient[s], Append(toClient[s], frame("close", 0))}
<1>1. frame("close", 0) \in ServerFrame
  BY FrameType, MaxQuestionsAssumption
<1>2. Append(toClient[s], frame("close", 0)) \in Seq(ServerFrame)
  BY <1>1, AppendProperties DEF ServerTypeOK
<1> QED  BY <1>2 DEF Close, ServerTypeOK

\* The frames of a connection keep their types.
FramesType ==
    /\ handler \in [Sockets -> HandlerState]
    /\ link \in [Sockets -> {"unused", "up", "down"}]
    /\ toServer \in [Sockets -> Seq(ClientFrame)]
    /\ toClient \in [Sockets -> Seq(ServerFrame)]
    /\ answering \in [Sockets -> 0..MaxQuestions]
    /\ left \in [Sockets -> 0..MaxPieces]
    /\ available \in BOOLEAN
    /\ protects \in BOOLEAN

\* What is known of a connection after a step of its task.
TaskOf(s) ==
    /\ handler[s] \in {"answer", "send", "prose"} => answering[s] # 0
    /\ handler[s] \notin {"answer", "send", "prose", "finally"} => answering[s] = 0

\* The frames of a connection are in order after the step, and those of the
\* only question there is stay the only ones.
FramesKept(s) ==
    /\ Wire(toServer'[s], toClient'[s], answering'[s], asked)
    /\ \A w \in BOOLEAN : Only(toServer[s], toClient[s], answering[s], asked, w) =>
                  Only(toServer'[s], toClient'[s], answering'[s], asked, w)

\* A frame that belongs to no question, or a delta of the task's own, is sent
\* or is lost.
LEMMA SentKept ==
    ASSUME ServerTypeOK, asked \in Nat, NEW s \in Sockets,
           Wire(toServer[s], toClient[s], answering[s], asked), NEW f \in ServerFrame,
           \/ f.q = 0 /\ f.type \notin {"delta", "complete", "error"}
           \/ f.q = answering[s] /\ answering[s] # 0 /\ f.type = "delta",
           toServer'[s] = toServer[s], answering'[s] = answering[s],
           toClient'[s] \in {toClient[s], Append(toClient[s], f)}
    PROVE  FramesKept(s)
<1>1. PICK in \in Seq(ClientFrame) : in = toServer[s]
  BY DEF ServerTypeOK
<1>2. PICK out \in Seq(ServerFrame) : out = toClient[s]
  BY DEF ServerTypeOK
<1>3. PICK a \in Nat : a = answering[s]
  BY MaxQuestionsAssumption DEF ServerTypeOK
<1>4. PICK n \in Nat : n = asked
  OBVIOUS
<1>5. /\ Wire(in, out, a, n)
      /\ \/ f.q = 0 /\ f.type \notin {"delta", "complete", "error"}
         \/ f.q = a /\ a # 0 /\ f.type = "delta"
  BY <1>1, <1>2, <1>3, <1>4
<1>6. /\ Wire(in, Append(out, f), a, n)
      /\ \A w \in BOOLEAN : Only(in, out, a, n, w) => Only(in, Append(out, f), a, n, w)
  BY <1>5, WireSent
<1>7. CASE toClient'[s] = toClient[s]
  BY <1>7 DEF FramesKept
<1>8. CASE toClient'[s] = Append(toClient[s], f)
  BY <1>1, <1>2, <1>3, <1>4, <1>6, <1>8 DEF FramesKept
<1> QED  BY <1>7, <1>8

\* The frame that ends a question is sent or lost; either way it is over.
LEMMA DoneKept ==
    ASSUME ServerTypeOK, asked \in Nat, NEW s \in Sockets,
           Wire(toServer[s], toClient[s], answering[s], asked), NEW f \in ServerFrame,
           f.q = answering[s], answering[s] # 0, f.type \in {"complete", "error"},
           toServer'[s] = toServer[s], answering'[s] = 0,
           toClient'[s] \in {toClient[s], Append(toClient[s], f)}
    PROVE  FramesKept(s)
<1>1. PICK in \in Seq(ClientFrame) : in = toServer[s]
  BY DEF ServerTypeOK
<1>2. PICK out \in Seq(ServerFrame) : out = toClient[s]
  BY DEF ServerTypeOK
<1>3. PICK a \in Nat : a = answering[s]
  BY MaxQuestionsAssumption DEF ServerTypeOK
<1>4. PICK n \in Nat : n = asked
  OBVIOUS
<1>5. Wire(in, out, a, n) /\ f.q = a /\ a # 0
  BY <1>1, <1>2, <1>3, <1>4
<1>6. /\ Wire(in, Append(out, f), 0, n)
      /\ \A w \in BOOLEAN : Only(in, out, a, n, w) => Only(in, Append(out, f), 0, n, w)
  BY <1>5, WireDone
<1>7. /\ Wire(in, out, 0, n)
      /\ \A w \in BOOLEAN : Only(in, out, a, n, w) => Only(in, out, 0, n, w)
  BY <1>5, WireGivenUp
<1>8. CASE toClient'[s] = toClient[s]
  BY <1>1, <1>2, <1>3, <1>4, <1>7, <1>8 DEF FramesKept
<1>9. CASE toClient'[s] = Append(toClient[s], f)
  BY <1>1, <1>2, <1>3, <1>4, <1>6, <1>9 DEF FramesKept
<1> QED  BY <1>8, <1>9

\* The task takes a question: to answer it, to refuse it, or to close on it.
LEMMA TakenKept ==
    ASSUME ServerTypeOK, asked \in Nat, NEW s \in Sockets, answering[s] = 0,
           Wire(toServer[s], toClient[s], answering[s], asked), toServer[s] # <<>>,
           toServer'[s] = Tail(toServer[s]),
           \/ answering'[s] = Head(toServer[s]).q /\ toClient'[s] = toClient[s]
           \/ /\ answering'[s] = 0
              /\ toClient'[s] \in {toClient[s], Append(toClient[s], frame("close", 0)),
                                   Append(toClient[s], frame("error", Head(toServer[s]).q))}
    PROVE  FramesKept(s)
<1>1. PICK in \in Seq(ClientFrame) : in = toServer[s] /\ in # <<>>
  BY DEF ServerTypeOK
<1>2. PICK out \in Seq(ServerFrame) : out = toClient[s]
  BY DEF ServerTypeOK
<1>3. PICK n \in Nat : n = asked
  OBVIOUS
<1>4. PICK tail \in Seq(ClientFrame) : tail = Tail(in)
  BY <1>1, TailFrames
<1>5. PICK q \in Nat : q = Head(in).q /\ q # 0 /\ q \in 0..MaxQuestions
  <2>1. Head(in) \in ClientFrame
    BY <1>1, TailFrames
  <2> QED  BY <2>1, FrameTypes DEF ClientFrame, Question
<1>6. Wire(in, out, 0, n)
  BY <1>1, <1>2, <1>3
<1>7. /\ Wire(tail, out, q, n)
      /\ \A w \in BOOLEAN : Only(in, out, 0, n, w) => Only(tail, out, q, n, w)
  BY <1>1, <1>4, <1>5, <1>6, WireTaken
<1>8. /\ Wire(tail, out, 0, n)
      /\ \A w \in BOOLEAN : Only(in, out, 0, n, w) => Only(tail, out, 0, n, w)
  BY <1>7, WireGivenUp
<1>9. PICK e \in ServerFrame : e = frame("error", q) /\ e.q = q /\ e.type = "error"
  BY <1>5, FrameType
<1>10. /\ Wire(tail, Append(out, e), 0, n)
       /\ \A w \in BOOLEAN : Only(in, out, 0, n, w) => Only(tail, Append(out, e), 0, n, w)
  BY <1>5, <1>7, <1>9, WireDone
<1>11. PICK c \in ServerFrame : /\ c = frame("close", 0) /\ c.q = 0 /\ c.type = "close"
                                 /\ c.type \notin {"delta", "complete", "error"}
  <2>1. frame("close", 0) \in ServerFrame /\ frame("close", 0).q = 0 /\ frame("close", 0).type = "close"
    BY FrameType, MaxQuestionsAssumption
  <2> QED  BY <2>1
<1>12. /\ Wire(tail, Append(out, c), 0, n)
       /\ \A w \in BOOLEAN : Only(in, out, 0, n, w) => Only(tail, Append(out, c), 0, n, w)
  <2>1. PICK a \in Nat : a = 0
    OBVIOUS
  <2>2. Wire(tail, out, a, n) /\ c.q = 0 /\ c.type \notin {"delta", "complete", "error"}
    BY <1>8, <1>11, <2>1
  <2>3. /\ Wire(tail, Append(out, c), a, n)
        /\ \A w \in BOOLEAN : Only(tail, out, a, n, w) => Only(tail, Append(out, c), a, n, w)
    BY <2>2, WireSent
  <2> QED  BY <1>8, <2>1, <2>3
<1>13. CASE answering'[s] = Head(toServer[s]).q /\ toClient'[s] = toClient[s]
  BY <1>1, <1>2, <1>3, <1>4, <1>5, <1>7, <1>13 DEF FramesKept
<1>14. CASE answering'[s] = 0 /\ toClient'[s] = toClient[s]
  BY <1>1, <1>2, <1>3, <1>4, <1>8, <1>14 DEF FramesKept
<1>15. CASE answering'[s] = 0 /\ toClient'[s] = Append(toClient[s], frame("close", 0))
  BY <1>1, <1>2, <1>3, <1>4, <1>11, <1>12, <1>15 DEF FramesKept
<1>16. CASE answering'[s] = 0 /\ toClient'[s] = Append(toClient[s], frame("error", Head(toServer[s]).q))
  BY <1>1, <1>2, <1>3, <1>4, <1>5, <1>9, <1>10, <1>16 DEF FramesKept
<1> QED  BY <1>13, <1>14, <1>15, <1>16

\* A step of a task: the types are kept, the other connections are left
\* alone, and of its own the frames stay in order.
Handled(s) ==
    /\ FramesType'
    /\ \A u \in Sockets : u # s => /\ handler'[u] = handler[u]
                                   /\ toServer'[u] = toServer[u]
                                   /\ toClient'[u] = toClient[u]
                                   /\ answering'[u] = answering[u]
    /\ TaskOf(s)'
    /\ FramesKept(s)

\* What a task knows when it makes a step.
Ready(s) ==
    /\ ServerTypeOK
    /\ asked \in Nat
    /\ TaskOf(s)
    /\ Wire(toServer[s], toClient[s], answering[s], asked)

\* A step that leaves the frames and the question alone.
LEMMA NothingSent ==
    ASSUME NEW s \in Sockets, Ready(s), UNCHANGED <<toServer, toClient, answering>>
    PROVE  FramesKept(s)
BY DEF FramesKept, Ready

\* websocket.close for a connection whose question is not given up.
LEMMA ClosedKept ==
    ASSUME NEW s \in Sockets, Ready(s), UNCHANGED <<toServer, answering>>, Close(s)
    PROVE  FramesKept(s)
<1>1. /\ frame("close", 0) \in ServerFrame
      /\ frame("close", 0).q = 0
      /\ frame("close", 0).type \notin {"delta", "complete", "error"}
  BY FrameType, MaxQuestionsAssumption
<1>2. toClient'[s] \in {toClient[s], Append(toClient[s], frame("close", 0))}
  BY CloseFrames DEF Ready
<1> QED  BY <1>1, <1>2, SentKept DEF Ready

\* The handshake: accept, refusal, admission and the Ready frame.
LEMMA HandshakeStep ==
    ASSUME NEW s \in Sockets, Ready(s), Accept(s) \/ Refuse(s) \/ Admit(s) \/ Greet(s)
    PROVE  Handled(s)
<1>0. ServerTypeOK /\ UNCHANGED <<link, toServer, answering, left, settings>>
  BY DEF Ready, Accept, Refuse, Admit, Greet
<1>1. answering[s] = 0
  BY DEF Ready, TaskOf, Accept, Refuse, Admit, Greet
<1>2. CASE Accept(s)
  <2>1. /\ handler' = [handler EXCEPT ![s] = "auth"]
        /\ toClient' = IF link[s] = "up"
                       THEN [toClient EXCEPT ![s] = Append(@, frame("open", 0))]
                       ELSE toClient
    BY <1>2 DEF Accept
  <2>2. /\ frame("open", 0) \in ServerFrame /\ frame("open", 0).q = 0
        /\ frame("open", 0).type \notin {"delta", "complete", "error"}
    BY FrameType, MaxQuestionsAssumption
  <2>3. Append(toClient[s], frame("open", 0)) \in Seq(ServerFrame)
    BY <1>0, <2>2, AppendProperties DEF ServerTypeOK
  <2>4. /\ toClient' \in [Sockets -> Seq(ServerFrame)]
        /\ \A u \in Sockets : u # s => toClient'[u] = toClient[u]
        /\ toClient'[s] \in {toClient[s], Append(toClient[s], frame("open", 0))}
    BY <1>0, <2>1, <2>3 DEF ServerTypeOK
  <2>5. FramesKept(s)
    BY <1>0, <2>2, <2>4, SentKept DEF Ready
  <2>6. /\ handler' \in [Sockets -> HandlerState] /\ handler'[s] = "auth"
        /\ \A u \in Sockets : u # s => handler'[u] = handler[u]
    BY <1>0, <2>1 DEF ServerTypeOK, HandlerState
  <2> QED
    BY <1>0, <1>1, <2>4, <2>5, <2>6 DEF Handled, FramesType, TaskOf, ServerTypeOK, settings
<1>3. CASE Close(s) /\ handler' = [handler EXCEPT ![s] = "gone"]
  <2>1. FramesKept(s)
    BY <1>0, <1>3, ClosedKept
  <2>2. /\ toClient' \in [Sockets -> Seq(ServerFrame)]
        /\ \A u \in Sockets : u # s => toClient'[u] = toClient[u]
    BY <1>0, <1>3, CloseFrames
  <2>3. /\ handler' \in [Sockets -> HandlerState] /\ handler'[s] = "gone"
        /\ \A u \in Sockets : u # s => handler'[u] = handler[u]
    BY <1>0, <1>3 DEF ServerTypeOK, HandlerState
  <2> QED
    BY <1>0, <1>1, <2>1, <2>2, <2>3 DEF Handled, FramesType, TaskOf, ServerTypeOK, settings
<1>4. CASE toClient' = toClient /\ handler' = [handler EXCEPT ![s] = "greet"]
  <2>1. FramesKept(s)
    BY <1>0, <1>4, NothingSent
  <2>2. /\ handler' \in [Sockets -> HandlerState] /\ handler'[s] = "greet"
        /\ \A u \in Sockets : u # s => handler'[u] = handler[u]
    BY <1>0, <1>4 DEF ServerTypeOK, HandlerState, Registered
  <2> QED
    BY <1>0, <1>1, <1>4, <2>1, <2>2 DEF Handled, FramesType, TaskOf, ServerTypeOK, settings
<1>5. CASE Greet(s)
  <2>1. Send(s, frame("ready", 0), "receive")
    BY <1>5 DEF Greet
  <2>2. /\ frame("ready", 0) \in ServerFrame /\ frame("ready", 0).q = 0
        /\ frame("ready", 0).type \notin {"delta", "complete", "error"}
    BY FrameType, MaxQuestionsAssumption
  <2>3. "receive" \in HandlerState
    BY DEF HandlerState, Registered
  <2>4. /\ handler' \in [Sockets -> HandlerState]
        /\ toClient' \in [Sockets -> Seq(ServerFrame)]
        /\ \A u \in Sockets : u # s => handler'[u] = handler[u] /\ toClient'[u] = toClient[u]
        /\ handler'[s] \in {"receive", "finally"}
        /\ toClient'[s] \in {toClient[s], Append(toClient[s], frame("ready", 0))}
    BY <1>0, <2>1, <2>2, <2>3, SendFrames
  <2>5. FramesKept(s)
    BY <1>0, <2>2, <2>4, SentKept DEF Ready
  <2> QED
    BY <1>0, <1>1, <2>4, <2>5 DEF Handled, FramesType, TaskOf, ServerTypeOK, settings
<1> QED  BY <1>2, <1>3, <1>4, <1>5 DEF Refuse, Admit

\* The loop reads a frame: it closes, refuses, or takes the question.
LEMMA ReceiveStep ==
    ASSUME NEW s \in Sockets, Ready(s), Receive(s)
    PROVE  Handled(s)
<1>0. /\ ServerTypeOK /\ UNCHANGED <<link, settings>>
      /\ handler[s] = "receive" /\ toServer[s] # <<>>
      /\ toServer' = [toServer EXCEPT ![s] = Tail(@)]
      /\ left' = [left EXCEPT ![s] = IF handler'[s] = "prose" THEN MaxPieces ELSE 0]
  BY DEF Ready, Receive
<1>1. answering[s] = 0
  BY <1>0 DEF Ready, TaskOf
<1>2. /\ toServer[s] \in Seq(ClientFrame)
      /\ Head(toServer[s]) \in ClientFrame /\ Tail(toServer[s]) \in Seq(ClientFrame)
  <2>1. toServer[s] \in Seq(ClientFrame)
    BY <1>0 DEF ServerTypeOK
  <2> QED  BY <1>0, <2>1, TailFrames
<1>3. /\ toServer' \in [Sockets -> Seq(ClientFrame)] /\ toServer'[s] = Tail(toServer[s])
      /\ \A u \in Sockets : u # s => toServer'[u] = toServer[u]
  BY <1>0, <1>2 DEF ServerTypeOK
<1>4. left' \in [Sockets -> 0..MaxPieces]
  BY <1>0, MaxPiecesAssumption DEF ServerTypeOK
<1>5. PICK q \in 0..MaxQuestions : q = Head(toServer[s]).q /\ q # 0
  BY <1>2, FrameTypes
<1>6. FramesType' <=> /\ handler' \in [Sockets -> HandlerState]
                      /\ toClient' \in [Sockets -> Seq(ServerFrame)]
                      /\ answering' \in [Sockets -> 0..MaxQuestions]
  BY <1>0, <1>3, <1>4 DEF FramesType, ServerTypeOK, settings
<1>7. CASE /\ Close(s)
           /\ handler' = [handler EXCEPT ![s] = "finally"]
           /\ UNCHANGED answering
  <2>1. /\ toClient' \in [Sockets -> Seq(ServerFrame)]
        /\ \A u \in Sockets : u # s => toClient'[u] = toClient[u]
        /\ toClient'[s] \in {toClient[s], Append(toClient[s], frame("close", 0))}
    BY <1>0, <1>7, CloseFrames
  <2>2. /\ handler' \in [Sockets -> HandlerState] /\ handler'[s] = "finally"
        /\ \A u \in Sockets : u # s => handler'[u] = handler[u]
    BY <1>0, <1>7 DEF ServerTypeOK, HandlerState, Registered
  <2>3. FramesKept(s)
    BY <1>0, <1>1, <1>3, <1>7, <2>1, TakenKept DEF Ready
  <2> QED
    BY <1>0, <1>3, <1>6, <1>7, <2>1, <2>2, <2>3 DEF Handled, TaskOf, ServerTypeOK
<1>8. CASE Send(s, frame("error", q), "receive") /\ UNCHANGED answering
  <2>1. frame("error", q) \in ServerFrame /\ "receive" \in HandlerState
    BY <1>5, FrameType DEF HandlerState, Registered
  <2>2. /\ handler' \in [Sockets -> HandlerState]
        /\ toClient' \in [Sockets -> Seq(ServerFrame)]
        /\ \A u \in Sockets : u # s => handler'[u] = handler[u] /\ toClient'[u] = toClient[u]
        /\ handler'[s] \in {"receive", "finally"}
        /\ toClient'[s] \in {toClient[s], Append(toClient[s], frame("error", q))}
    BY <1>0, <1>8, <2>1, SendFrames
  <2>3. FramesKept(s)
    BY <1>0, <1>1, <1>3, <1>5, <1>8, <2>2, TakenKept DEF Ready
  <2> QED
    BY <1>0, <1>1, <1>3, <1>6, <1>8, <2>2, <2>3 DEF Handled, TaskOf, ServerTypeOK
<1>9. CASE \E h \in {"answer", "prose"} :
              /\ handler' = [handler EXCEPT ![s] = h]
              /\ answering' = [answering EXCEPT ![s] = q]
              /\ UNCHANGED toClient
  <2>1. PICK h \in {"answer", "prose"} : handler' = [handler EXCEPT ![s] = h]
    BY <1>9
  <2>2. /\ handler' \in [Sockets -> HandlerState] /\ handler'[s] \in {"answer", "prose"}
        /\ \A u \in Sockets : u # s => handler'[u] = handler[u]
    BY <1>0, <2>1 DEF ServerTypeOK, HandlerState, Registered
  <2>3. /\ answering' \in [Sockets -> 0..MaxQuestions] /\ answering'[s] = q
        /\ \A u \in Sockets : u # s => answering'[u] = answering[u]
        /\ toClient' = toClient
    BY <1>0, <1>9 DEF ServerTypeOK
  <2>4. FramesKept(s)
    BY <1>0, <1>1, <1>3, <1>5, <2>3, TakenKept DEF Ready
  <2> QED
    BY <1>0, <1>3, <1>5, <1>6, <2>2, <2>3, <2>4 DEF Handled, TaskOf, ServerTypeOK
<1> QED  BY <1>5, <1>7, <1>8, <1>9 DEF Receive

\* The finally gives the question up and closes what is not closed.
LEMMA FinallyStep ==
    ASSUME NEW s \in Sockets, Ready(s), Finally(s)
    PROVE  Handled(s)
<1>0. /\ ServerTypeOK /\ UNCHANGED <<link, toServer, left, settings>>
      /\ handler' = [handler EXCEPT ![s] = "gone"]
      /\ answering' = [answering EXCEPT ![s] = 0]
      /\ Close(s) \/ UNCHANGED toClient
  BY DEF Ready, Finally
<1>1. /\ toClient' \in [Sockets -> Seq(ServerFrame)]
      /\ \A u \in Sockets : u # s => toClient'[u] = toClient[u]
      /\ toClient'[s] \in {toClient[s], Append(toClient[s], frame("close", 0))}
  <2>1. CASE Close(s)
    BY <1>0, <2>1, CloseFrames
  <2>2. CASE UNCHANGED toClient
    BY <1>0, <2>2 DEF ServerTypeOK
  <2> QED  BY <1>0, <2>1, <2>2
<1>2. /\ handler' \in [Sockets -> HandlerState] /\ handler'[s] = "gone"
      /\ \A u \in Sockets : u # s => handler'[u] = handler[u]
  BY <1>0 DEF ServerTypeOK, HandlerState
<1>3. /\ answering' \in [Sockets -> 0..MaxQuestions] /\ answering'[s] = 0
      /\ \A u \in Sockets : u # s => answering'[u] = answering[u]
  BY <1>0, MaxQuestionsAssumption DEF ServerTypeOK
<1>4. PICK in \in Seq(ClientFrame) : in = toServer[s]
  BY <1>0 DEF ServerTypeOK
<1>5. PICK out \in Seq(ServerFrame) : out = toClient[s]
  BY <1>0 DEF ServerTypeOK
<1>6. PICK a \in Nat : a = answering[s]
  BY <1>0, MaxQuestionsAssumption DEF ServerTypeOK
<1>7. PICK n \in Nat : n = asked
  BY DEF Ready
<1>8. PICK none \in Nat : none = 0
  OBVIOUS
<1>9. Wire(in, out, a, n)
  BY <1>4, <1>5, <1>6, <1>7 DEF Ready
<1>10. /\ Wire(in, out, none, n)
       /\ \A w \in BOOLEAN : Only(in, out, a, n, w) => Only(in, out, none, n, w)
  BY <1>8, <1>9, WireGivenUp
<1>11. PICK c \in ServerFrame : /\ c = frame("close", 0) /\ c.q = 0
                                /\ c.type \notin {"delta", "complete", "error"}
  <2>1. /\ frame("close", 0) \in ServerFrame /\ frame("close", 0).q = 0
        /\ frame("close", 0).type \notin {"delta", "complete", "error"}
    BY FrameType, MaxQuestionsAssumption
  <2> QED  BY <2>1
<1>12. /\ Wire(in, Append(out, c), none, n)
       /\ \A w \in BOOLEAN : Only(in, out, none, n, w) => Only(in, Append(out, c), none, n, w)
  BY <1>10, <1>11, WireSent
<1>13. FramesKept(s)
  <2>1. toServer'[s] = in /\ answering'[s] = none
    BY <1>0, <1>3, <1>4, <1>8
  <2>2. CASE toClient'[s] = toClient[s]
    BY <1>4, <1>5, <1>6, <1>7, <1>10, <2>1, <2>2 DEF FramesKept
  <2>3. CASE toClient'[s] = Append(toClient[s], frame("close", 0))
    BY <1>4, <1>5, <1>6, <1>7, <1>10, <1>11, <1>12, <2>1, <2>3 DEF FramesKept
  <2> QED  BY <1>1, <2>2, <2>3
<1> QED
  BY <1>0, <1>1, <1>2, <1>3, <1>13 DEF Handled, FramesType, TaskOf, ServerTypeOK, settings

\* A delta of the question the task is answering.
LEMMA DeltaStep ==
    ASSUME NEW s \in Sockets, Ready(s), handler[s] \in {"send", "prose"},
           Send(s, frame("delta", answering[s]), handler[s]), left[s] > 0,
           left' = [left EXCEPT ![s] = @ - 1],
           UNCHANGED <<link, toServer, answering, settings>>
    PROVE  Handled(s)
<1>0. /\ ServerTypeOK /\ answering[s] \in 0..MaxQuestions /\ answering[s] # 0
      /\ handler[s] \in HandlerState
  BY DEF Ready, ServerTypeOK, TaskOf
<1>1. /\ frame("delta", answering[s]) \in ServerFrame
      /\ frame("delta", answering[s]).q = answering[s]
      /\ frame("delta", answering[s]).type = "delta"
  BY <1>0, FrameType
<1>2. /\ handler' \in [Sockets -> HandlerState]
      /\ toClient' \in [Sockets -> Seq(ServerFrame)]
      /\ \A u \in Sockets : u # s => handler'[u] = handler[u] /\ toClient'[u] = toClient[u]
      /\ handler'[s] \in {handler[s], "finally"}
      /\ toClient'[s] \in {toClient[s], Append(toClient[s], frame("delta", answering[s]))}
  BY <1>0, <1>1, SendFrames
<1>3. FramesKept(s)
  BY <1>0, <1>1, <1>2, SentKept DEF Ready
<1>4. left' \in [Sockets -> 0..MaxPieces]
  BY <1>0, MaxPiecesAssumption DEF ServerTypeOK
<1> QED
  BY <1>0, <1>2, <1>3, <1>4 DEF Handled, FramesType, TaskOf, ServerTypeOK, settings

\* The frame that ends the question, and the loop reads on.
LEMMA EndStep ==
    ASSUME NEW s \in Sockets, Ready(s), handler[s] \in {"answer", "send", "prose"},
           NEW end \in {"complete", "error"},
           Send(s, frame(end, answering[s]), "receive"), Done(s),
           UNCHANGED <<link, toServer, left, settings>>
    PROVE  Handled(s)
<1>0. /\ ServerTypeOK /\ answering[s] \in 0..MaxQuestions /\ answering[s] # 0
      /\ "receive" \in HandlerState
  BY DEF Ready, ServerTypeOK, TaskOf, HandlerState, Registered
<1>1. /\ frame(end, answering[s]) \in ServerFrame
      /\ frame(end, answering[s]).q = answering[s]
      /\ frame(end, answering[s]).type = end
  BY <1>0, FrameType
<1>2. /\ handler' \in [Sockets -> HandlerState]
      /\ toClient' \in [Sockets -> Seq(ServerFrame)]
      /\ \A u \in Sockets : u # s => handler'[u] = handler[u] /\ toClient'[u] = toClient[u]
      /\ handler'[s] \in {"receive", "finally"}
      /\ toClient'[s] \in {toClient[s], Append(toClient[s], frame(end, answering[s]))}
  BY <1>0, <1>1, SendFrames
<1>3. /\ answering' \in [Sockets -> 0..MaxQuestions] /\ answering'[s] = 0
      /\ \A u \in Sockets : u # s => answering'[u] = answering[u]
  BY <1>0, MaxQuestionsAssumption DEF ServerTypeOK, Done
<1>4. FramesKept(s)
  BY <1>0, <1>1, <1>2, <1>3, DoneKept DEF Ready
<1> QED
  BY <1>0, <1>2, <1>3, <1>4 DEF Handled, FramesType, TaskOf, ServerTypeOK, settings

\* A step of the task that sends nothing.
LEMMA SilentStep ==
    ASSUME NEW s \in Sockets, Ready(s), NEW h \in {"send", "finally"},
           handler' = [handler EXCEPT ![s] = h],
           h = "send" => handler[s] = "answer", left' \in [Sockets -> 0..MaxPieces],
           UNCHANGED <<link, toServer, toClient, answering, settings>>
    PROVE  Handled(s)
<1>1. ServerTypeOK /\ (handler[s] = "answer" => answering[s] # 0)
  BY DEF Ready, TaskOf
<1>2. /\ handler' \in [Sockets -> HandlerState] /\ handler'[s] = h
      /\ \A u \in Sockets : u # s => handler'[u] = handler[u]
  BY <1>1 DEF ServerTypeOK, HandlerState, Registered
<1>3. FramesKept(s)
  BY NothingSent
<1> QED
  BY <1>1, <1>2, <1>3 DEF Handled, FramesType, TaskOf, ServerTypeOK, settings

\* Whatever step a task makes.
LEMMA HandleStep ==
    ASSUME NEW s \in Sockets, Ready(s), Handle(s)
    PROVE  Handled(s)
<1>0. left \in [Sockets -> 0..MaxPieces]
  BY DEF Ready, ServerTypeOK
<1>1. CASE Accept(s) \/ Refuse(s) \/ Admit(s) \/ Greet(s)
  BY <1>1, HandshakeStep
<1>2. CASE Disconnected(s)
  BY <1>0, <1>2, SilentStep DEF Disconnected
<1>3. CASE Receive(s)
  BY <1>3, ReceiveStep
<1>4. CASE Finally(s)
  BY <1>4, FinallyStep
<1>5. CASE Answered(s)
  <2>0. handler[s] = "answer" /\ UNCHANGED <<link, toServer, settings>>
    BY <1>5 DEF Answered
  <2>1. CASE Send(s, frame("error", answering[s]), "receive") /\ Done(s) /\ UNCHANGED left
    BY <2>0, <2>1, EndStep
  <2>2. CASE /\ \E pieces \in 0..MaxPieces : left' = [left EXCEPT ![s] = pieces]
             /\ handler' = [handler EXCEPT ![s] = "send"]
             /\ UNCHANGED <<toClient, answering>>
    <3>1. left' \in [Sockets -> 0..MaxPieces]
      BY <1>0, <2>2
    <3> QED  BY <2>0, <2>2, <3>1, SilentStep
  <2> QED  BY <1>5, <2>1, <2>2 DEF Answered
<1>6. CASE SendPiece(s)
  <2>0. handler[s] = "send" /\ UNCHANGED <<link, toServer, settings>>
    BY <1>6 DEF SendPiece
  <2>1. CASE left[s] > 0
    BY <1>6, <2>0, <2>1, DeltaStep DEF SendPiece
  <2>2. CASE ~(left[s] > 0)
    BY <1>6, <2>0, <2>2, EndStep DEF SendPiece
  <2> QED  BY <2>1, <2>2
<1>7. CASE StreamProse(s)
  <2>0. handler[s] = "prose" /\ UNCHANGED <<link, toServer, settings>>
    BY <1>7 DEF StreamProse
  <2>1. CASE /\ left[s] > 0 /\ Send(s, frame("delta", answering[s]), "prose")
             /\ left' = [left EXCEPT ![s] = @ - 1] /\ UNCHANGED answering
    BY <2>0, <2>1, DeltaStep
  <2>2. CASE /\ \E end \in {"complete", "error"} : Send(s, frame(end, answering[s]), "receive")
             /\ Done(s) /\ UNCHANGED left
    BY <2>0, <2>2, EndStep
  <2>3. CASE /\ handler' = [handler EXCEPT ![s] = "finally"]
             /\ UNCHANGED <<toClient, answering, left>>
    BY <1>0, <2>0, <2>3, SilentStep
  <2> QED  BY <1>7, <2>1, <2>2, <2>3 DEF StreamProse
<1> QED  BY <1>1, <1>2, <1>3, <1>4, <1>5, <1>6, <1>7 DEF Handle

-----------------------------------------------------------------------------
(* The types, step by step. *)

\* The page's and the network's part of TypeOK that the timers do not state.
PageType ==
    /\ state \in RealtimeState
    /\ socketRef \in Sockets \cup {NoSocket}
    /\ browser \in [Sockets -> {"none", "connecting", "open", "closed"}]
    /\ attempts \in 0..(MAX_ATTEMPTS + 1)
    /\ pause \in {"no", "ticket", "backoff"}
    /\ current \in BOOLEAN
    /\ shown \in [Question -> SUBSET Question]
    /\ early \in SUBSET Question
    /\ late \in BOOLEAN
    /\ reachable \in BOOLEAN
    /\ drops \in 0..MaxDrops

LEMMA TypeOKInit == Init => TypeOK
<1> SUFFICES ASSUME Init PROVE TypeOK
  OBVIOUS
<1> USE MaxQuestionsAssumption, MaxPiecesAssumption, MaxConnectionsAssumption,
        MaxAttemptsAssumption, MaxDropsAssumption
<1>1. ServerTypeOK
  BY DEF Init, ServerInit, ServerTypeOK, HandlerState
<1>2. TimerInv
  BY TimerInvInit
<1>3. /\ state \in RealtimeState /\ pause \in {"no", "ticket", "backoff"}
      /\ current \in BOOLEAN /\ late \in BOOLEAN /\ reachable \in BOOLEAN
  BY DEF Init, RealtimeState
<1>4. /\ socketRef \in Sockets \cup {NoSocket} /\ early \in SUBSET Question
      /\ browser \in [Sockets -> {"none", "connecting", "open", "closed"}]
  BY DEF Init
<1>5. attempts \in 0..(MAX_ATTEMPTS + 1) /\ drops \in 0..MaxDrops
  BY DEF Init
<1>6. shown \in [Question -> SUBSET Question]
  BY DEF Init
<1> QED  BY <1>1, <1>2, <1>3, <1>4, <1>5, <1>6 DEF TimerInv, TypeOK

\* A task knows what the invariants say of its connection.
LEMMA TasksAreReady ==
    ASSUME SessionInv, NEW s \in Sockets
    PROVE  Ready(s)
BY MaxQuestionsAssumption DEF SessionInv, TypeOK, TaskInv, WireInv, Ready, TaskOf

\* The first frame on its way to the page.
LEMMA PageReads ==
    ASSUME SessionInv, NEW s \in Sockets, toClient[s] # <<>>
    PROVE  /\ Head(toClient[s]) \in ServerFrame
           /\ Tail(toClient[s]) \in Seq(ServerFrame)
           /\ Head(toClient[s]).type \in {"delta", "complete"} => Head(toClient[s]).q \in Question
<1>1. PICK out \in Seq(ServerFrame) : out = toClient[s] /\ out # <<>>
  BY DEF SessionInv, TypeOK, ServerTypeOK
<1>2. Head(out) = out[1] /\ out[1] \in ServerFrame /\ 1 \in 1..Len(out) /\ Tail(out) \in Seq(ServerFrame)
  BY <1>1, TailFrames
<1>3. out[1].type \in {"delta", "complete", "error"} => out[1].q # 0
  BY <1>1, <1>2 DEF SessionInv, WireInv, Wire
<1>4. out[1].q # 0 => out[1].q \in Question
  BY <1>2, MaxQuestionsAssumption DEF ServerFrame, Question
<1> QED  BY <1>1, <1>2, <1>3, <1>4

LEMMA FramesTypeNext ==
    ASSUME SessionInv, [Next]_vars
    PROVE  FramesType'
<1>0. /\ ServerTypeOK /\ FramesType
  BY DEF SessionInv, TypeOK, ServerTypeOK, FramesType
<1>1. CASE UNCHANGED <<handler, link, toServer, toClient, answering, left, available, protects>>
  BY <1>0, <1>1 DEF FramesType
<1>2. ASSUME NEW s \in Sockets, Server(s) PROVE FramesType'
  BY <1>2, TasksAreReady, HandleStep DEF Server, Handled
<1>3. ASSUME NEW s \in Sockets, create(s), UNCHANGED <<answering, left, settings>> PROVE FramesType'
  <2>1. /\ \E l \in {"up", "down"} : link' = [link EXCEPT ![s] = l]
        /\ \E h \in {"accept", "gone"} : handler' = [handler EXCEPT ![s] = h]
        /\ toServer' = [toServer EXCEPT ![s] = <<>>]
        /\ toClient' = [toClient EXCEPT ![s] = <<>>]
    BY <1>3 DEF create
  <2>2. link' \in [Sockets -> {"unused", "up", "down"}]
    BY <1>0, <2>1 DEF ServerTypeOK
  <2>3. handler' \in [Sockets -> HandlerState]
    BY <1>0, <2>1 DEF ServerTypeOK, HandlerState
  <2>4. toServer' \in [Sockets -> Seq(ClientFrame)] /\ toClient' \in [Sockets -> Seq(ServerFrame)]
    BY <1>0, <2>1 DEF ServerTypeOK
  <2> QED  BY <1>0, <1>3, <2>2, <2>3, <2>4 DEF FramesType, settings
<1>4. CASE Connect \/ Ticket
  BY <1>1, <1>3, <1>4 DEF Connect, Ticket, settings
<1>5. ASSUME NEW s \in Sockets, OnOpen(s) \/ OnMessage(s) PROVE FramesType'
  <2>1. /\ toClient[s] # <<>> /\ toClient' = [toClient EXCEPT ![s] = Tail(@)]
        /\ UNCHANGED <<handler, link, toServer, answering, left, settings>>
    BY <1>5 DEF OnOpen, OnMessage, Consume
  <2>2. toClient' \in [Sockets -> Seq(ServerFrame)]
    BY <1>0, <2>1, PageReads DEF ServerTypeOK
  <2> QED  BY <1>0, <2>1, <2>2 DEF FramesType, settings
<1>6. ASSUME NEW s \in Sockets, OnClose(s) PROVE FramesType'
  <2>1. /\ link' = [link EXCEPT ![s] = "down"] /\ toClient' = [toClient EXCEPT ![s] = <<>>]
        /\ UNCHANGED <<handler, toServer, answering, left, settings>>
    BY <1>6 DEF OnClose
  <2> QED  BY <1>0, <2>1 DEF FramesType, settings
<1>7. ASSUME NEW kind \in Kinds, Ask(kind) PROVE FramesType'
  <2>1. socketRef \in Sockets
    BY <1>7 DEF Ask, SessionInv, TypeOK
  <2>2. [kind |-> kind, q |-> asked + 1] \in ClientFrame
    BY <1>7, KindsAssumption, MaxQuestionsAssumption
    DEF Ask, SessionInv, TypeOK, ClientFrame, Question
  <2>3. PICK sent \in Seq(ClientFrame) : sent = Append(toServer[socketRef], [kind |-> kind, q |-> asked + 1])
    BY <1>0, <2>1, <2>2, AppendProperties DEF ServerTypeOK
  <2>4. toServer' \in {toServer, [toServer EXCEPT ![socketRef] = sent]}
    BY <1>7, <2>1, <2>3 DEF Ask
  <2>5. toServer' \in [Sockets -> Seq(ClientFrame)]
    BY <1>0, <2>1, <2>3, <2>4 DEF ServerTypeOK
  <2> QED  BY <1>0, <1>7, <2>5 DEF Ask, FramesType, settings
<1>8. ASSUME NEW s \in Sockets, Drop(s) PROVE FramesType'
  BY <1>0, <1>8 DEF Drop, FramesType, settings
<1>9. CASE Outage
  BY <1>0, <1>9 DEF Outage, FramesType, settings
<1>10. CASE OnAnswerTimeout \/ Others
  BY <1>1, <1>10 DEF OnAnswerTimeout, Others, OtherJoins, OtherLeaves, serverVars, settings
<1>11. CASE UNCHANGED vars
  BY <1>1, <1>11 DEF vars
<1> QED
  BY <1>2, <1>4, <1>5, <1>6, <1>7, <1>8, <1>9, <1>10, <1>11 DEF Next, Page

LEMMA PageTypeNext ==
    ASSUME SessionInv, [Next]_vars
    PROVE  PageType'
<1> USE MaxAttemptsAssumption, MaxDropsAssumption
<1>0. /\ PageType /\ told \in [Question -> {"unasked", "waiting", "answered", "failed"}]
      /\ (sending => asked \in Question) /\ (awaiting => sending)
      /\ asked \in Nat
  BY MaxQuestionsAssumption
  DEF SessionInv, TypeOK, PageType, TimerInv, WaitingIsTimed, sending, Question
<1>1. CASE UNCHANGED <<state, socketRef, browser, attempts, pause, current, shown, early,
                       late, reachable, drops>>
  BY <1>0, <1>1 DEF PageType
<1>2. ASSUME NEW s \in Sockets, create(s), state' = state,
             UNCHANGED <<attempts, current, shown, early, late, networkVars>>
      PROVE  PageType'
  BY <1>0, <1>2 DEF create, PageType, networkVars
<1>3. CASE Connect
  <2>1. CASE \E s \in Sockets : create(s)
    BY <1>2, <1>3, <2>1 DEF Connect
  <2>2. CASE pause' = "ticket" /\ UNCHANGED <<socketRef, browser>>
    BY <1>0, <1>3, <2>2 DEF Connect, PageType, networkVars
  <2> QED  BY <1>3, <2>1, <2>2 DEF Connect
<1>4. CASE Ticket
  <2>1. CASE UNCHANGED state /\ \E s \in Sockets : create(s)
    BY <1>2, <1>4, <2>1 DEF Ticket
  <2>2. CASE pause' = "no" /\ state' = "unavailable" /\ UNCHANGED <<socketRef, browser>>
    BY <1>0, <1>4, <2>2 DEF Ticket, PageType, RealtimeState, networkVars
  <2> QED  BY <1>4, <2>1, <2>2 DEF Ticket
<1>5. ASSUME NEW s \in Sockets, OnOpen(s) PROVE PageType'
  BY <1>0, <1>5 DEF OnOpen, PageType, RealtimeState, networkVars
<1>6. ASSUME NEW s \in Sockets, OnMessage(s) PROVE PageType'
  <2>1. /\ toClient[s] # <<>>
        /\ UNCHANGED <<state, socketRef, browser, attempts, pause, current, early, late, networkVars>>
    BY <1>6 DEF OnMessage
  <2>2. \/ shown' = shown
        \/ /\ sending /\ Head(toClient[s]).type \in {"delta", "complete"}
           /\ shown' = [shown EXCEPT ![asked] = @ \cup {Head(toClient[s]).q}]
    BY <1>6 DEF OnMessage, appendDelta, completeStream
  <2>3. shown' \in [Question -> SUBSET Question]
    BY <1>0, <2>1, <2>2, PageReads DEF PageType
  <2> QED  BY <1>0, <2>1, <2>3 DEF PageType, networkVars
<1>7. ASSUME NEW s \in Sockets, OnClose(s) PROVE PageType'
  <2>1. /\ browser' = [browser EXCEPT ![s] = "closed"] /\ socketRef' = NoSocket
        /\ current' = FALSE /\ attempts' = attempts + 1
        /\ state' \in {"reconnecting", "unavailable"} /\ pause' \in {"backoff", pause}
        /\ UNCHANGED <<shown, early, late, networkVars>>
    BY <1>7 DEF OnClose, settle, attempts_counted
  <2>2. attempts <= MAX_ATTEMPTS
    BY <1>7 DEF OnClose, SessionInv, PageInv, Live
  <2>3. attempts' \in 0..(MAX_ATTEMPTS + 1)
    BY <1>0, <2>1, <2>2 DEF PageType
  <2>4. state' \in RealtimeState /\ pause' \in {"no", "ticket", "backoff"}
    BY <1>0, <2>1 DEF PageType, RealtimeState
  <2>5. browser' \in [Sockets -> {"none", "connecting", "open", "closed"}]
    BY <1>0, <2>1 DEF PageType
  <2> QED  BY <1>0, <2>1, <2>3, <2>4, <2>5 DEF PageType, networkVars
<1>8. ASSUME NEW kind \in Kinds, Ask(kind) PROVE PageType'
  BY <1>0, <1>8 DEF Ask, PageType, networkVars
<1>9. CASE OnAnswerTimeout
  <2>1. /\ UNCHANGED <<state, socketRef, browser, attempts, pause, shown, networkVars>>
        /\ current' \in BOOLEAN
    BY <1>0, <1>9 DEF OnAnswerTimeout, PageType
  <2>2. CASE awaiting
    <3>1. late' = TRUE /\ early' \in {early, early \cup {asked}}
      BY <1>9, <2>2 DEF OnAnswerTimeout
    <3> QED  BY <1>0, <2>1, <2>2, <3>1 DEF PageType, networkVars
  <2>3. CASE ~awaiting
    BY <1>0, <1>9, <2>1, <2>3 DEF OnAnswerTimeout, PageType, networkVars
  <2> QED  BY <2>2, <2>3
<1>10. ASSUME NEW s \in Sockets, Drop(s) PROVE PageType'
  <2>1. UNCHANGED <<clientVars, reachable>> /\ drops' = drops + 1 /\ drops < MaxDrops
    BY <1>10 DEF Drop
  <2> QED  BY <1>0, <2>1 DEF PageType, clientVars
<1>11. CASE Outage
  <2>1. UNCHANGED <<clientVars, drops>> /\ reachable' = FALSE
    BY <1>11 DEF Outage
  <2> QED  BY <1>0, <2>1 DEF PageType, clientVars
<1>12. ASSUME NEW s \in Sockets, Server(s) PROVE PageType'
  BY <1>1, <1>12 DEF Server, clientVars, networkVars
<1>13. CASE Others \/ UNCHANGED vars
  BY <1>1, <1>13 DEF Others, clientVars, networkVars, vars
<1> QED
  BY <1>3, <1>4, <1>5, <1>6, <1>7, <1>8, <1>9, <1>10, <1>11, <1>12, <1>13 DEF Next, Page

\* Every variable keeps its type.
LEMMA TypeOKNext ==
    ASSUME SessionInv, [Next]_vars
    PROVE  TypeOK'
<1>1. FramesType' /\ PageType'
  BY FramesTypeNext, PageTypeNext
<1>2. RegistryInv' /\ TimerInv'
  BY RegistryInvNext, TimerInvNext DEF SessionInv
<1>3. registry' \in SUBSET Sockets
  BY <1>2 DEF RegistryInv, RegistryIsExact
<1>4. others' \in 0..MaxConnections
  <2>1. PICK others1 \in Nat : others1 = others'
    BY <1>2 DEF RegistryInv
  <2>2. PICK size \in Nat : size = Cardinality(registry')
    BY <1>3, SocketsAssumption, FS_Subset, FS_CardinalityType
  <2>3. size + others1 <= MaxConnections
    BY <1>2, <2>1, <2>2 DEF RegistryInv, RegistryIsExact
  <2> QED  BY <2>1, <2>2, <2>3, MaxConnectionsAssumption
<1>5. ServerTypeOK'
  BY <1>1, <1>3, <1>4 DEF FramesType, ServerTypeOK
<1> QED  BY <1>1, <1>2, <1>5 DEF TypeOK, PageType, TimerInv

-----------------------------------------------------------------------------
(* The rest of the invariant, step by step. *)

LEMMA SessionInvInit == Init => SessionInv
<1> SUFFICES ASSUME Init PROVE SessionInv
  OBVIOUS
<1>1. TypeOK /\ RegistryInv /\ TimerInv
  BY TypeOKInit, RegistryInvInit, TimerInvInit
<1>2. /\ asked = 0 /\ asked \in Nat
      /\ \A s \in Sockets : /\ handler[s] = "none" /\ answering[s] = 0 /\ browser[s] = "none"
                            /\ toServer[s] = <<>> /\ toClient[s] = <<>>
  BY DEF Init, ServerInit
<1>3. TaskInv
  BY <1>2 DEF TaskInv
<1>4. WireInv
  BY <1>2, WireEmpty DEF WireInv
<1>5. PageInv
  BY <1>2, MaxAttemptsAssumption DEF Init, PageInv, Live
<1>6. LiveInv
  <2>1. \A q \in Question : shown[q] = {}
    BY DEF Init
  <2> QED  BY <1>2, <2>1 DEF LiveInv, Live, OwnAnswerUnlessTimedOut
<1>7. timers = <<>> /\ early = {}
  BY DEF Init
<1>8. EarlyInv
  BY <1>7, EmptySeq DEF EarlyInv
<1> QED  BY <1>1, <1>3, <1>4, <1>5, <1>6, <1>8 DEF SessionInv

\* The hook goes from one socket to the next, never back.
LEMMA PageInvNext ==
    ASSUME SessionInv, [Next]_vars
    PROVE  PageInv'
<1>0. /\ PageInv /\ attempts \in Nat
      /\ browser \in [Sockets -> {"none", "connecting", "open", "closed"}]
  BY MaxAttemptsAssumption DEF SessionInv, TypeOK
<1>1. CASE UNCHANGED <<browser, socketRef, pause, attempts>>
  BY <1>0, <1>1 DEF PageInv, Live
<1>2. ASSUME pause # "no", UNCHANGED attempts,
             \/ UNCHANGED browser
             \/ \E s \in Sockets : create(s)
      PROVE  PageInv'
  <2>1. attempts <= MAX_ATTEMPTS /\ \A u \in Sockets : ~Live(u)
    BY <1>0, <1>2 DEF PageInv
  <2>2. CASE UNCHANGED browser
    BY <1>2, <2>1, <2>2 DEF PageInv, Live
  <2>3. ASSUME NEW s \in Sockets, create(s) PROVE PageInv'
    <3>1. /\ socketRef' = s /\ pause' = "no"
          /\ \A u \in Sockets : u # s => browser'[u] = browser[u]
      BY <2>3 DEF create
    <3>2. \A u \in Sockets : Live(u)' => u = s
      BY <2>1, <3>1 DEF Live
    <3> QED  BY <1>2, <2>1, <3>1, <3>2 DEF PageInv
  <2> QED  BY <1>2, <2>2, <2>3
<1>3. CASE Connect \/ Ticket
  BY <1>2, <1>3 DEF Connect, Ticket
<1>4. ASSUME NEW s \in Sockets, OnOpen(s) PROVE PageInv'
  <2>1. /\ Live(s) /\ attempts' = 0 /\ UNCHANGED <<socketRef, pause>>
        /\ \A u \in Sockets : u # s => browser'[u] = browser[u]
    BY <1>4 DEF OnOpen, Live
  <2>2. \A u \in Sockets : Live(u)' => Live(u)
    BY <2>1 DEF Live
  <2> QED  BY <1>0, <2>1, <2>2, MaxAttemptsAssumption DEF PageInv
<1>5. ASSUME NEW s \in Sockets, OnClose(s) PROVE PageInv'
  <2>1. /\ Live(s) /\ browser' = [browser EXCEPT ![s] = "closed"]
        /\ attempts' = attempts + 1
        /\ (pause' = "backoff" /\ attempts + 1 <= MAX_ATTEMPTS) \/ pause' = pause
    BY <1>5 DEF OnClose, Live, attempts_counted, MayReconnect
  <2>2. pause = "no" /\ \A u \in Sockets : Live(u) => u = s
    BY <1>0, <2>1 DEF PageInv
  <2>3. \A u \in Sockets : ~Live(u)'
    BY <1>0, <2>1, <2>2 DEF Live
  <2> QED  BY <2>1, <2>2, <2>3 DEF PageInv
<1>6. ASSUME NEW s \in Sockets, OnMessage(s) \/ Server(s) \/ Drop(s) PROVE PageInv'
  BY <1>1, <1>6 DEF OnMessage, Server, Drop, clientVars
<1>7. CASE OnAnswerTimeout \/ Others \/ Outage \/ \E kind \in Kinds : Ask(kind)
  BY <1>1, <1>7 DEF OnAnswerTimeout, Others, Outage, Ask, clientVars
<1>8. CASE UNCHANGED vars
  BY <1>1, <1>8 DEF vars
<1> QED
  BY <1>3, <1>4, <1>5, <1>6, <1>7, <1>8 DEF Next, Page

\* A task has a question exactly while it works on one.
LEMMA TaskInvNext ==
    ASSUME SessionInv, [Next]_vars
    PROVE  TaskInv'
<1>0. TaskInv /\ handler \in [Sockets -> HandlerState]
  BY DEF SessionInv, TypeOK, ServerTypeOK
<1>1. CASE UNCHANGED <<handler, answering>>
  BY <1>0, <1>1 DEF TaskInv
<1>2. ASSUME NEW s \in Sockets, Server(s) PROVE TaskInv'
  <2>1. Handled(s)
    BY <1>2, TasksAreReady, HandleStep DEF Server
  <2> QED  BY <1>0, <2>1 DEF Handled, TaskOf, TaskInv
<1>3. ASSUME NEW s \in Sockets, create(s), UNCHANGED answering PROVE TaskInv'
  <2>1. answering[s] = 0
    BY <1>0, <1>3 DEF create, Unused, TaskInv
  <2>2. PICK h \in {"accept", "gone"} : handler' = [handler EXCEPT ![s] = h]
    BY <1>3 DEF create
  <2> QED  BY <1>0, <1>3, <2>1, <2>2 DEF TaskInv
<1>4. CASE Connect \/ Ticket
  BY <1>1, <1>3, <1>4 DEF Connect, Ticket
<1>5. ASSUME NEW s \in Sockets, Page(s) \/ Drop(s) PROVE TaskInv'
  BY <1>1, <1>5 DEF Page, OnOpen, OnMessage, OnClose, Drop
<1>6. CASE OnAnswerTimeout \/ Others \/ Outage \/ \E kind \in Kinds : Ask(kind)
  BY <1>1, <1>6 DEF OnAnswerTimeout, Others, OtherJoins, OtherLeaves, Outage, Ask, serverVars
<1>7. CASE UNCHANGED vars
  BY <1>1, <1>7 DEF vars
<1> QED
  BY <1>2, <1>4, <1>5, <1>6, <1>7 DEF Next

\* What is on its way to and from a connection, as the lemmas on frames take it.
LEMMA OnTheWire ==
    ASSUME SessionInv, NEW s \in Sockets
    PROVE  /\ toServer[s] \in Seq(ClientFrame) /\ toClient[s] \in Seq(ServerFrame)
           /\ answering[s] \in Nat /\ asked \in Nat
           /\ Wire(toServer[s], toClient[s], answering[s], asked)
BY MaxQuestionsAssumption DEF SessionInv, TypeOK, ServerTypeOK, WireInv

\* The page reads the first frame of a connection.
LEMMA ReadStep ==
    ASSUME SessionInv, NEW s \in Sockets, OnOpen(s) \/ OnMessage(s)
    PROVE  /\ toClient[s] # <<>> /\ toClient'[s] = Tail(toClient[s])
           /\ \A u \in Sockets : u # s => toClient'[u] = toClient[u]
           /\ UNCHANGED <<toServer, answering, asked>>
           /\ Wire(toServer[s], Tail(toClient[s]), answering[s], asked)
           /\ \A w \in BOOLEAN : Only(toServer[s], toClient[s], answering[s], asked, w) =>
                         Only(toServer[s], Tail(toClient[s]), answering[s], asked, w)
<1>1. /\ toClient[s] # <<>> /\ toClient' = [toClient EXCEPT ![s] = Tail(@)]
      /\ UNCHANGED <<toServer, answering, asked>>
  BY DEF OnOpen, OnMessage, Consume
<1>2. toClient'[s] = Tail(toClient[s]) /\ \A u \in Sockets : u # s => toClient'[u] = toClient[u]
  BY <1>1 DEF SessionInv, TypeOK, ServerTypeOK
<1> QED  BY <1>1, <1>2, OnTheWire, WireRead

\* A connection is created: nothing is on its way.
LEMMA CreateStep ==
    ASSUME SessionInv, NEW s \in Sockets, create(s), UNCHANGED answering
    PROVE  /\ toServer'[s] = <<>> /\ toClient'[s] = <<>> /\ answering'[s] = 0
           /\ browser'[s] = "connecting"
           /\ \A u \in Sockets : u # s => /\ toServer'[u] = toServer[u]
                                          /\ toClient'[u] = toClient[u]
                                          /\ browser'[u] = browser[u]
<1>1. answering[s] = 0
  BY DEF create, Unused, SessionInv, TaskInv
<1>2. /\ toServer' = [toServer EXCEPT ![s] = <<>>]
      /\ toClient' = [toClient EXCEPT ![s] = <<>>]
      /\ browser' = [browser EXCEPT ![s] = "connecting"]
  BY DEF create
<1> QED  BY <1>1, <1>2 DEF SessionInv, TypeOK, ServerTypeOK

\* The page asks on the socket the hook listens to.
LEMMA AskStep ==
    ASSUME SessionInv, NEW kind \in Kinds, Ask(kind)
    PROVE  /\ socketRef \in Sockets /\ Live(socketRef) /\ ~awaiting /\ awaiting'
           /\ asked' = asked + 1
           /\ UNCHANGED <<toClient, answering, browser, shown, late>>
           /\ \A u \in Sockets : u # socketRef => toServer'[u] = toServer[u]
           /\ \A u \in Sockets : Wire(toServer'[u], toClient[u], answering[u], asked + 1)
           /\ Only(toServer[socketRef], toClient[socketRef], answering[socketRef], asked, FALSE) =>
                Only(toServer'[socketRef], toClient[socketRef], answering[socketRef], asked + 1, TRUE)
<1>1. /\ socketRef \in Sockets /\ Live(socketRef) /\ ~awaiting /\ awaiting'
      /\ asked < MaxQuestions /\ asked' = asked + 1
      /\ UNCHANGED <<toClient, answering, browser, shown, late>>
  BY DEF Ask, Live, SessionInv, TypeOK
<1>2. PICK f \in ClientFrame : f = [kind |-> kind, q |-> asked + 1] /\ f.q = asked + 1
  <2>1. asked + 1 \in Question
    BY <1>1, MaxQuestionsAssumption DEF SessionInv, TypeOK, Question
  <2>2. [kind |-> kind, q |-> asked + 1] \in ClientFrame
    BY <2>1, KindsAssumption DEF ClientFrame
  <2> QED  BY <2>2
<1>3. toServer' \in {toServer, [toServer EXCEPT ![socketRef] = Append(@, f)]}
  BY <1>2 DEF Ask
<1>4. /\ \A u \in Sockets : u # socketRef => toServer'[u] = toServer[u]
      /\ toServer'[socketRef] \in {toServer[socketRef], Append(toServer[socketRef], f)}
  BY <1>1, <1>3 DEF SessionInv, TypeOK, ServerTypeOK
<1>5. \A u \in Sockets :
        /\ Wire(toServer[u], toClient[u], answering[u], asked + 1)
        /\ Wire(Append(toServer[u], f), toClient[u], answering[u], asked + 1)
        /\ Only(toServer[u], toClient[u], answering[u], asked, FALSE) =>
             /\ Only(toServer[u], toClient[u], answering[u], asked + 1, TRUE)
             /\ Only(Append(toServer[u], f), toClient[u], answering[u], asked + 1, TRUE)
  <2> SUFFICES ASSUME NEW u \in Sockets
               PROVE  /\ Wire(toServer[u], toClient[u], answering[u], asked + 1)
                      /\ Wire(Append(toServer[u], f), toClient[u], answering[u], asked + 1)
                      /\ Only(toServer[u], toClient[u], answering[u], asked, FALSE) =>
                           /\ Only(toServer[u], toClient[u], answering[u], asked + 1, TRUE)
                           /\ Only(Append(toServer[u], f), toClient[u], answering[u], asked + 1, TRUE)
    OBVIOUS
  <2>1. /\ toServer[u] \in Seq(ClientFrame) /\ toClient[u] \in Seq(ServerFrame)
        /\ answering[u] \in Nat /\ asked \in Nat
        /\ Wire(toServer[u], toClient[u], answering[u], asked)
    BY OnTheWire
  <2> QED  BY <1>2, <2>1, WireAsked
<1> QED  BY <1>1, <1>4, <1>5

\* Questions and answers stay in order on every connection.
LEMMA WireInvNext ==
    ASSUME SessionInv, [Next]_vars
    PROVE  WireInv'
<1>0. WireInv
  BY DEF SessionInv
<1>1. CASE UNCHANGED <<toServer, toClient, answering, asked>>
  BY <1>0, <1>1 DEF WireInv
<1>2. ASSUME NEW s \in Sockets, Server(s) PROVE WireInv'
  <2>1. Handled(s) /\ asked' = asked
    BY <1>2, TasksAreReady, HandleStep DEF Server, clientVars
  <2> QED  BY <1>0, <2>1 DEF Handled, FramesKept, WireInv
<1>3. ASSUME NEW s \in Sockets, create(s), UNCHANGED <<answering, asked>> PROVE WireInv'
  <2>1. /\ toServer'[s] = <<>> /\ toClient'[s] = <<>> /\ answering'[s] = 0
        /\ \A u \in Sockets : u # s => toServer'[u] = toServer[u] /\ toClient'[u] = toClient[u]
    BY <1>3, CreateStep
  <2>2. Wire(<<>>, <<>>, 0, asked)
    BY OnTheWire, WireEmpty
  <2> QED  BY <1>0, <1>3, <2>1, <2>2 DEF WireInv
<1>4. CASE Connect \/ Ticket
  BY <1>1, <1>3, <1>4 DEF Connect, Ticket
<1>5. ASSUME NEW s \in Sockets, OnOpen(s) \/ OnMessage(s) PROVE WireInv'
  BY <1>0, <1>5, ReadStep DEF WireInv
<1>6. ASSUME NEW s \in Sockets, OnClose(s) PROVE WireInv'
  <2>1. toClient' = [toClient EXCEPT ![s] = <<>>] /\ UNCHANGED <<toServer, answering, asked>>
    BY <1>6 DEF OnClose
  <2>2. toClient'[s] = <<>> /\ \A u \in Sockets : u # s => toClient'[u] = toClient[u]
    BY <2>1 DEF SessionInv, TypeOK, ServerTypeOK
  <2>3. Wire(toServer[s], <<>>, answering[s], asked)
    BY OnTheWire, WireLost
  <2> QED  BY <1>0, <2>1, <2>2, <2>3 DEF WireInv
<1>7. ASSUME NEW kind \in Kinds, Ask(kind) PROVE WireInv'
  BY <1>7, AskStep DEF WireInv
<1>8. ASSUME NEW s \in Sockets, Drop(s) PROVE WireInv'
  BY <1>1, <1>8 DEF Drop, clientVars
<1>9. CASE OnAnswerTimeout \/ Others \/ Outage
  BY <1>1, <1>9 DEF OnAnswerTimeout, Others, OtherJoins, OtherLeaves, Outage, serverVars, clientVars
<1>10. CASE UNCHANGED vars
  BY <1>1, <1>10 DEF vars
<1> QED
  BY <1>2, <1>4, <1>5, <1>6, <1>7, <1>8, <1>9, <1>10 DEF Next, Page

\* The hook listens to one socket.
LEMMA OneIsLive ==
    ASSUME SessionInv, NEW s \in Sockets, Live(s)
    PROVE  \A u \in Sockets : Live(u) => u = s
BY DEF SessionInv, PageInv

\* What a turn renders, as long as no question has timed out.
LEMMA RenderedStep ==
    ASSUME SessionInv, ~late, NEW s \in Sockets, OnMessage(s)
    PROVE  OwnAnswerUnlessTimedOut'
<1>0. /\ OwnAnswerUnlessTimedOut /\ shown \in [Question -> SUBSET Question]
      /\ (sending => asked \in Question /\ awaiting)
      /\ Only(toServer[s], toClient[s], answering[s], asked, awaiting)
  BY MaxQuestionsAssumption
  DEF SessionInv, LiveInv, TypeOK, TimerInv, WaitingIsTimed, sending, Question, OnMessage, Live
<1>1. late' = late /\ toClient[s] # <<>>
  BY DEF OnMessage
<1>2. \/ shown' = shown
      \/ /\ sending /\ Head(toClient[s]).type \in {"delta", "complete"}
         /\ shown' = [shown EXCEPT ![asked] = @ \cup {Head(toClient[s]).q}]
  BY DEF OnMessage, appendDelta, completeStream
<1>3. CASE shown' = shown
  BY <1>0, <1>1, <1>3 DEF OwnAnswerUnlessTimedOut
<1>4. CASE /\ sending /\ Head(toClient[s]).type \in {"delta", "complete"}
           /\ shown' = [shown EXCEPT ![asked] = @ \cup {Head(toClient[s]).q}]
  <2>1. PICK out \in Seq(ServerFrame) : out = toClient[s] /\ out # <<>>
    BY <1>1, OnTheWire
  <2>2. Head(out) = out[1] /\ 1 \in 1..Len(out)
    BY <2>1, TailFrames
  <2>3. out[1].q # 0
    BY <1>4, <2>1, <2>2, OnTheWire DEF Wire
  <2>4. out[1].q = asked
    BY <1>0, <2>1, <2>2, <2>3 DEF Only
  <2>5. shown' = [shown EXCEPT ![asked] = @ \cup {asked}]
    BY <1>4, <2>1, <2>2, <2>4
  <2> QED  BY <1>0, <1>1, <1>4, <2>5 DEF OwnAnswerUnlessTimedOut
<1> QED  BY <1>2, <1>3, <1>4

\* Until a question times out, the live socket carries nothing but the question
\* that is waited for.
LEMMA LiveInvNext ==
    ASSUME SessionInv, [Next]_vars
    PROVE  LiveInv'
<1> SUFFICES ASSUME ~late' PROVE LiveInv'
  BY DEF LiveInv
<1>0. ~late
  <2>1. CASE OnAnswerTimeout
    BY <2>1 DEF OnAnswerTimeout
  <2>2. CASE ~OnAnswerTimeout
    <3>1. late' = late
      BY <2>2 DEF Next, Page, Connect, Ticket, Ask, OnOpen, OnMessage, OnClose, Server, Drop,
                  Others, Outage, clientVars, vars
    <3> QED  BY <3>1
  <2> QED  BY <2>1, <2>2
<1>1. /\ \A s \in Sockets :
            Live(s) => Only(toServer[s], toClient[s], answering[s], asked, awaiting)
      /\ OwnAnswerUnlessTimedOut /\ awaiting \in BOOLEAN
      /\ browser \in [Sockets -> {"none", "connecting", "open", "closed"}]
  BY <1>0 DEF SessionInv, LiveInv, TypeOK
<1>2. CASE UNCHANGED <<toServer, toClient, answering, asked, awaiting, browser, shown>>
  BY <1>0, <1>1, <1>2 DEF LiveInv, Live, OwnAnswerUnlessTimedOut
<1>3. ASSUME NEW s \in Sockets, Server(s) PROVE LiveInv'
  <2>1. Handled(s) /\ UNCHANGED <<asked, awaiting, browser, shown>>
    BY <1>3, TasksAreReady, HandleStep DEF Server, clientVars
  <2>2. \A u \in Sockets : Live(u)' =>
            Only(toServer'[u], toClient'[u], answering'[u], asked, awaiting)
    BY <1>1, <2>1 DEF Handled, FramesKept, Live
  <2> QED  BY <1>0, <1>1, <2>1, <2>2 DEF LiveInv, OwnAnswerUnlessTimedOut
<1>4. ASSUME NEW s \in Sockets, create(s), pause # "no",
             UNCHANGED <<answering, asked, awaiting, shown>>
      PROVE  LiveInv'
  <2>1. /\ toServer'[s] = <<>> /\ toClient'[s] = <<>> /\ answering'[s] = 0
        /\ \A u \in Sockets : u # s => browser'[u] = browser[u]
    BY <1>4, CreateStep
  <2>2. \A u \in Sockets : ~Live(u)
    BY <1>4 DEF SessionInv, PageInv
  <2>3. Only(<<>>, <<>>, 0, asked, awaiting)
    BY OnTheWire, WireEmpty
  <2>4. \A u \in Sockets : Live(u)' => u = s
    BY <2>1, <2>2 DEF Live
  <2> QED  BY <1>0, <1>1, <1>4, <2>1, <2>3, <2>4 DEF LiveInv, OwnAnswerUnlessTimedOut
<1>5. CASE Connect \/ Ticket
  BY <1>2, <1>4, <1>5 DEF Connect, Ticket
<1>6. ASSUME NEW s \in Sockets, OnOpen(s) PROVE LiveInv'
  <2>1. UNCHANGED <<toServer, answering, asked, awaiting, shown>> /\ Live(s)
    BY <1>6 DEF OnOpen, Live
  <2>2. Only(toServer[s], toClient'[s], answering[s], asked, awaiting)
    BY <1>1, <1>6, <2>1, ReadStep
  <2>3. \A u \in Sockets : u # s => browser'[u] = browser[u]
    BY <1>6 DEF OnOpen
  <2>4. \A u \in Sockets : Live(u)' => u = s
    BY <2>1, <2>3, OneIsLive DEF Live
  <2> QED  BY <1>0, <1>1, <2>1, <2>2, <2>4 DEF LiveInv, OwnAnswerUnlessTimedOut
<1>7. ASSUME NEW s \in Sockets, OnMessage(s) PROVE LiveInv'
  <2>1. UNCHANGED <<toServer, answering, asked, browser>> /\ Live(s)
    BY <1>7 DEF OnMessage, Live
  <2>2. \A u \in Sockets : Live(u)' => u = s
    BY <2>1, OneIsLive DEF Live
  <2>3. toClient'[s] = Tail(toClient[s]) /\ toClient[s] # <<>>
    BY <1>7, ReadStep
  <2>4. Only(toServer[s], Tail(toClient[s]), answering[s], asked, awaiting')
    <3>1. CASE awaiting' = awaiting
      BY <1>1, <1>7, <2>1, <3>1, ReadStep
    <3>2. CASE Head(toClient[s]).type \in {"complete", "error"}
      <4>1. Only(toServer[s], Tail(toClient[s]), answering[s], asked, FALSE)
        BY <1>1, <2>1, <2>3, <3>2, OnTheWire, WireEnded
      <4>2. awaiting' = FALSE
        BY <1>7, <3>2 DEF OnMessage
      <4> QED  BY <4>1, <4>2
    <3>3. CASE Head(toClient[s]).type \in {"ready", "delta"}
      BY <1>7, <3>1, <3>3 DEF OnMessage
    <3> QED  BY <1>7, <3>2, <3>3 DEF OnMessage
  <2>5. OwnAnswerUnlessTimedOut'
    BY <1>0, <1>7, RenderedStep
  <2> QED  BY <2>1, <2>2, <2>3, <2>4, <2>5 DEF LiveInv
<1>8. ASSUME NEW s \in Sockets, OnClose(s) PROVE LiveInv'
  <2>1. Live(s) /\ browser' = [browser EXCEPT ![s] = "closed"] /\ shown' = shown
    BY <1>8 DEF OnClose, Live
  <2>2. \A u \in Sockets : ~Live(u)'
    BY <1>1, <2>1, OneIsLive DEF Live
  <2> QED  BY <1>0, <1>1, <2>1, <2>2 DEF LiveInv, OwnAnswerUnlessTimedOut
<1>9. ASSUME NEW kind \in Kinds, Ask(kind) PROVE LiveInv'
  <2>1. /\ socketRef \in Sockets /\ Live(socketRef) /\ ~awaiting /\ awaiting'
        /\ asked' = asked + 1
        /\ UNCHANGED <<toClient, answering, browser, shown, late>>
        /\ Only(toServer[socketRef], toClient[socketRef], answering[socketRef], asked, FALSE) =>
             Only(toServer'[socketRef], toClient[socketRef], answering[socketRef], asked + 1, TRUE)
    BY <1>9, AskStep
  <2>2. awaiting = FALSE /\ awaiting' = TRUE
    BY <1>1, <1>9, <2>1 DEF Ask
  <2>3. Only(toServer[socketRef], toClient[socketRef], answering[socketRef], asked, FALSE)
    BY <1>1, <2>1, <2>2
  <2>4. \A u \in Sockets : Live(u)' => u = socketRef
    BY <2>1, OneIsLive DEF Live
  <2>5. \A u \in Sockets : Live(u)' =>
            Only(toServer'[u], toClient'[u], answering'[u], asked', awaiting')
    BY <2>1, <2>2, <2>3, <2>4
  <2> QED  BY <1>0, <1>1, <2>1, <2>5 DEF LiveInv, OwnAnswerUnlessTimedOut
<1>10. CASE OnAnswerTimeout
  BY <1>2, <1>10 DEF OnAnswerTimeout, serverVars
<1>11. ASSUME NEW s \in Sockets, Drop(s) PROVE LiveInv'
  BY <1>2, <1>11 DEF Drop, clientVars
<1>12. CASE Others \/ Outage
  BY <1>2, <1>12 DEF Others, OtherJoins, OtherLeaves, Outage, clientVars
<1>13. CASE UNCHANGED vars
  BY <1>2, <1>13 DEF vars
<1> QED
  BY <1>3, <1>5, <1>6, <1>7, <1>8, <1>9, <1>10, <1>11, <1>12, <1>13 DEF Next, Page

\* Timers belong to questions asked, so the first question is only ever timed
\* out by its own.
LEMMA EarlyInvNext ==
    ASSUME SessionInv, [Next]_vars
    PROVE  EarlyInv'
<1>0. /\ EarlyInv /\ timers \in Seq(Question) /\ asked \in Nat
      /\ \A i \in 1..Len(timers) : timers[i] \in Nat /\ timers[i] # 0
  BY MaxQuestionsAssumption DEF SessionInv, TypeOK, Question
<1>1. CASE UNCHANGED <<timers, asked, early>>
  BY <1>0, <1>1 DEF EarlyInv
<1>2. timers # <<>> =>
        /\ \A i \in 1..Len(Tail(timers)) : Tail(timers)[i] <= asked
        /\ \A i \in 1..Len(SubSeq(timers, 1, Len(timers) - 1)) :
              SubSeq(timers, 1, Len(timers) - 1)[i] <= asked
        /\ \A i \in 1..Len(SubSeq(timers, 2, Len(timers) - 1)) :
              SubSeq(timers, 2, Len(timers) - 1)[i] <= asked
        /\ Head(timers) = timers[1] /\ 1 \in 1..Len(timers)
  BY <1>0 DEF EarlyInv
<1>3. ASSUME NEW s \in Sockets, OnClose(s) PROVE EarlyInv'
  <2>1. settle /\ UNCHANGED <<asked, early>>
    BY <1>3 DEF OnClose
  <2>2. CASE timers # <<>>
    BY <1>0, <1>2, <2>1, <2>2 DEF settle, EarlyInv
  <2>3. CASE timers = <<>>
    <3>1. \A i \in 1..Len(timers') : FALSE
      BY <2>1, <2>3 DEF settle
    <3> QED  BY <1>0, <2>1, <3>1 DEF EarlyInv
  <2> QED  BY <2>2, <2>3
<1>4. ASSUME NEW kind \in Kinds, Ask(kind) PROVE EarlyInv'
  <2>1. asked' = asked + 1 /\ timers' = Append(timers, asked + 1) /\ early' = early
    BY <1>4 DEF Ask
  <2>2. asked + 1 \in Question
    BY <1>0, <1>4, MaxQuestionsAssumption DEF Ask, Question
  <2>3. \A i \in 1..Len(Append(timers, asked + 1)) : Append(timers, asked + 1)[i] <= asked + 1
    BY <1>0, <2>2 DEF EarlyInv
  <2> QED  BY <1>0, <2>1, <2>3 DEF EarlyInv
<1>5. CASE OnAnswerTimeout
  <2>1. asked' = asked /\ timers # <<>>
    BY <1>5 DEF OnAnswerTimeout
  <2>2. CASE awaiting
    <3>1. /\ timers' \in {SubSeq(timers, 2, Len(timers) - 1), Tail(timers)}
          /\ early' = IF Head(timers) = asked THEN early ELSE early \cup {asked}
      BY <1>5, <2>2 DEF OnAnswerTimeout
    <3>2. Head(timers) # asked => asked # 1
      BY <1>0, <1>2, <2>1 DEF EarlyInv
    <3> QED  BY <1>0, <1>2, <2>1, <3>1, <3>2 DEF EarlyInv
  <2>3. CASE ~awaiting
    BY <1>0, <1>2, <1>5, <2>1, <2>3 DEF OnAnswerTimeout, EarlyInv
  <2> QED  BY <2>2, <2>3
<1>6. ASSUME NEW s \in Sockets, OnOpen(s) \/ OnMessage(s) \/ Server(s) \/ Drop(s) PROVE EarlyInv'
  BY <1>1, <1>6 DEF OnOpen, OnMessage, Server, Drop, clientVars
<1>7. CASE Connect \/ Ticket \/ Others \/ Outage
  BY <1>1, <1>7 DEF Connect, Ticket, Others, Outage, clientVars
<1>8. CASE UNCHANGED vars
  BY <1>1, <1>8 DEF vars
<1> QED
  BY <1>3, <1>4, <1>5, <1>6, <1>7, <1>8 DEF Next, Page

-----------------------------------------------------------------------------
(* The theorems. *)

LEMMA SessionInvNext == SessionInv /\ [Next]_vars => SessionInv'
<1> SUFFICES ASSUME SessionInv, [Next]_vars PROVE SessionInv'
  OBVIOUS
<1>1. RegistryInv' /\ TimerInv'
  BY RegistryInvNext, TimerInvNext DEF SessionInv
<1> QED
  BY <1>1, TypeOKNext, TaskInvNext, WireInvNext, PageInvNext, LiveInvNext, EarlyInvNext
  DEF SessionInv

\* Every variable of the page, the endpoint and the network between them keeps
\* its type, and its bounds: the registry's count stays within the ceiling and
\* the reconnections within the budget.
THEOREM SessionTypeCorrect == Spec => []TypeOK
<1>1. SessionInv => TypeOK
  BY DEF SessionInv
<1> QED BY <1>1, SessionInvInit, SessionInvNext, PTL DEF Spec

\* Frames in order on the wire are answers in order.
LEMMA AnswersOnTheWire == SessionInv => AnswersAreWellFormed
<1> SUFFICES ASSUME SessionInv, NEW s \in Sockets
             PROVE  LET f == toClient[s]
                        answer == {i \in DOMAIN f : f[i].q # 0}
                    IN  /\ \A i, k \in answer :
                              i < k => \/ f[i].q < f[k].q
                                       \/ f[i].q = f[k].q /\ f[i].type = "delta"
                        /\ \A i \in answer :
                              f[i].type # "delta" => f[i].q # answering[s]
  BY DEF AnswersAreWellFormed
<1>1. PICK out \in Seq(ServerFrame) : out = toClient[s]
  BY OnTheWire
<1>2. DOMAIN out = 1..Len(out) /\ Wire(toServer[s], out, answering[s], asked)
  BY <1>1, OnTheWire
<1> QED  BY <1>1, <1>2 DEF Wire

\* The answers of a connection are well formed on the wire, and on the page each
\* reaches the turn of its own question until a question has timed out: for any
\* number of sockets, questions and pieces, whatever drops or reconnects.
THEOREM AnswersReachTheirTurn == Spec => []AnswersReachTheirQuestion
<1>1. SessionInv => AnswersReachTheirQuestion
  <2>1. SessionInv => OwnAnswerUnlessTimedOut
    BY DEF SessionInv, LiveInv, OwnAnswerUnlessTimedOut
  <2>2. SessionInv => 1 \notin early
    BY DEF SessionInv, EarlyInv
  <2> QED  BY <2>1, <2>2, AnswersOnTheWire DEF AnswersReachTheirQuestion
<1> QED BY <1>1, SessionInvInit, SessionInvNext, PTL DEF Spec

=============================================================================
