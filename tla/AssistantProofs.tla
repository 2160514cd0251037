--------------------------- MODULE AssistantProofs ---------------------------
(***************************************************************************)
(* Theorems about AssistantPipeline, for any number of requests,           *)
(* conversations, turns and database failures.                             *)
(***************************************************************************)
EXTENDS AssistantPipeline, SequenceTheorems, TLAPS

-----------------------------------------------------------------------------
(* What is decided about a reply, by cases on the classification. *)

LEMMA SingletonSeq ==
    ASSUME NEW S, NEW x \in S
    PROVE  <<>> \in Seq(S) /\ <<x>> \in Seq(S) /\ Len(<<x>>) = 1
OBVIOUS

\* A reason is listed or not, and the list as a whole is empty when none is.
LEMMA ReasonsOf ==
    ASSUME NEW a \in IntentAnalysis, NEW e,
           e.handled \in BOOLEAN, e.modified \in BOOLEAN
    PROVE  /\ evaluate(a, e) \in Seq(EscalationReason)
           /\ evaluate(a, e) = <<>> <=>
                 /\ e.handled
                 /\ a.intent # "complaint"
                 /\ a.intent # "other"
                 /\ ~(a.confidence < MinConfidence)
                 /\ ~e.modified
<1> DEFINE when(holds, reason) == IF holds THEN <<reason>> ELSE <<>>
           r1 == when(~e.handled, "unresolved")
           r2 == when(a.intent = "complaint", "complaint")
           r3 == when(a.intent = "other", "uncategorised")
           r4 == when(a.intent # "other" /\ a.confidence < MinConfidence,
                      "low_confidence")
           r5 == when(e.modified, "policy")
<1>0. \A holds \in BOOLEAN, reason \in EscalationReason :
        when(holds, reason) \in Seq(EscalationReason)
  BY SingletonSeq
<1>1. /\ r1 \in Seq(EscalationReason)
      /\ r2 \in Seq(EscalationReason)
      /\ r3 \in Seq(EscalationReason)
      /\ r4 \in Seq(EscalationReason)
      /\ r5 \in Seq(EscalationReason)
  <2>1. {"unresolved", "complaint", "uncategorised", "low_confidence", "policy"}
          \subseteq EscalationReason
    BY DEF EscalationReason
  <2> HIDE DEF when
  <2> QED BY <1>0, <2>1
<1>2. evaluate(a, e) = r1 \o r2 \o r3 \o r4 \o r5
  BY DEF evaluate
<1>3. /\ Len(r1) = IF e.handled THEN 0 ELSE 1
      /\ Len(r2) = IF a.intent = "complaint" THEN 1 ELSE 0
      /\ Len(r3) = IF a.intent = "other" THEN 1 ELSE 0
      /\ Len(r4) = IF a.intent # "other" /\ a.confidence < MinConfidence THEN 1 ELSE 0
      /\ Len(r5) = IF e.modified THEN 1 ELSE 0
  OBVIOUS
<1> HIDE DEF r1, r2, r3, r4, r5
<1>4. /\ r1 \o r2 \o r3 \o r4 \o r5 \in Seq(EscalationReason)
      /\ Len(r1 \o r2 \o r3 \o r4 \o r5)
            = Len(r1) + Len(r2) + Len(r3) + Len(r4) + Len(r5)
  <2>1. /\ r1 \o r2 \in Seq(EscalationReason)
        /\ Len(r1 \o r2) = Len(r1) + Len(r2)
    BY <1>1
  <2>2. /\ r1 \o r2 \o r3 \in Seq(EscalationReason)
        /\ Len(r1 \o r2 \o r3) = Len(r1) + Len(r2) + Len(r3)
    BY <1>1, <2>1
  <2>3. /\ r1 \o r2 \o r3 \o r4 \in Seq(EscalationReason)
        /\ Len(r1 \o r2 \o r3 \o r4) = Len(r1) + Len(r2) + Len(r3) + Len(r4)
    BY <1>1, <2>2
  <2> QED BY <1>1, <2>3
<1>5. evaluate(a, e) = <<>> <=>
        Len(r1) + Len(r2) + Len(r3) + Len(r4) + Len(r5) = 0
  BY <1>2, <1>4
<1>6. Len(r1) + Len(r2) + Len(r3) + Len(r4) + Len(r5) = 0 <=>
        /\ e.handled
        /\ a.intent # "complaint"
        /\ a.intent # "other"
        /\ ~(a.confidence < MinConfidence)
        /\ ~e.modified
  BY <1>3
<1> QED BY <1>2, <1>4, <1>5, <1>6

\* What the record of a decided reply always satisfies: a customer is told of
\* a person exactly when there is a reason to ask one, no commitment is left
\* in the text, and sources go with the model's own words only.
Sound(d) ==
    /\ d \in Routed
    /\ d.text \in {"review", "noticed"} <=> d.reasons # <<>>
    /\ d.text # "promise"
    /\ d.cited => d.text \in {"answer", "referral"}

\* What every handler's response satisfies.
Fits(given) ==
    /\ given.reply \in ModelText \cup {"apology", "unresolved"}
    /\ given.handled \in BOOLEAN
    /\ given.cited \in BOOLEAN
    /\ given.cited => given.reply \in ModelText
    /\ given.reply = "unresolved" => ~given.handled

LEMMA ResponsesFit ==
    /\ \A given \in KnowledgeBase \cup Agent \cup Fallback : Fits(given)
    /\ \A given \in Fallback : ~given.handled
<1>1. Fits(response("apology", FALSE, FALSE))
  BY DEF Fits, response
<1>2. Fits(response("unresolved", FALSE, FALSE))
  BY DEF Fits, response
<1>3. \A given \in [reply : ModelText, handled : BOOLEAN, cited : BOOLEAN] : Fits(given)
  BY DEF Fits, ModelText
<1>4. \A given \in [reply : ModelText \cup {"apology"}, handled : {TRUE}, cited : {FALSE}] :
         Fits(given)
  BY DEF Fits, ModelText
<1>5. ~response("unresolved", FALSE, FALSE).handled
  BY DEF response
<1> QED BY <1>1, <1>2, <1>3, <1>4, <1>5 DEF KnowledgeBase, Agent, Fallback

LEMMA DecidedIsSound ==
    ASSUME NEW a \in IntentAnalysis, NEW given \in Responses[decide(a)]
    PROVE  Sound(decided(a, given))
<1> DEFINE e == enforce(a, given)
<1>1. /\ Fits(given)
      /\ a.intent = "other" \/ a.confidence < MinConfidence => ~given.handled
  <2>1. given \in KnowledgeBase \cup Agent \cup Fallback
    BY DEF Responses, registry, decide, IntentAnalysis, IntentCategory, DocumentedFirst
  <2>2. a.intent = "other" \/ a.confidence < MinConfidence => given \in Fallback
    BY DEF Responses, decide
  <2> QED BY <2>1, <2>2, ResponsesFit
<1>2. /\ e.reply \in Text
      /\ e.handled = given.handled
      /\ e.modified \in BOOLEAN
      /\ e.modified <=> e.reply = "review"
      /\ ~e.modified => e.reply = given.reply
      /\ e.cited \in BOOLEAN
      /\ e.cited => given.cited /\ ~e.modified
      /\ e.modified <=> PolicyReplaces(a, given)
  BY <1>1 DEF enforce, PolicyReplaces, Text, ModelText, Fits
<1> HIDE DEF e
<1>3. /\ evaluate(a, e) \in Seq(EscalationReason)
      /\ evaluate(a, e) # <<>> <=> e.modified
  BY <1>1, <1>2, ReasonsOf DEF PolicyReplaces, Fits
<1>4. decided(a, given) =
        [intent |-> a.intent, proposed |-> e.reply,
         text |-> IF evaluate(a, e) = <<>> THEN e.reply ELSE with_notice(e.reply),
         cited |-> e.cited, reasons |-> evaluate(a, e)]
  BY DEF decided, e
<1>5. CASE e.modified
  BY <1>1, <1>2, <1>3, <1>4, <1>5
     DEF Sound, Routed, with_notice, Fits, Text, ModelText, IntentAnalysis
<1>6. CASE ~e.modified
  <2>1. given.reply # "promise" /\ given.handled
    BY <1>2, <1>6 DEF PolicyReplaces
  <2> QED BY <1>1, <1>2, <1>3, <1>4, <1>6, <2>1
          DEF Sound, Routed, with_notice, Fits, Text, ModelText, IntentAnalysis
<1> QED BY <1>2, <1>5, <1>6

-----------------------------------------------------------------------------
(* Types, and what a request knows at each await. *)

Flow(r) ==
    /\ pc[r] = "new" => turn[r] = "customer"
    /\ pc[r] = "route" => analysis[r] \in IntentAnalysis
    /\ pc[r] = "enqueue" => routed[r] # NoValue /\ routed[r].reasons # <<>>
    /\ pc[r] \in {"get", "next_position", "flush", "commit"} /\ turn[r] = "assistant" =>
           routed[r] # NoValue
    /\ pc[r] = "replied" => routed[r] # NoValue
    /\ pc[r] \in {"next_position", "flush", "commit"} => target[r] \in Conversations
    /\ pc[r] = "get" => target[r] # NoConversation
    /\ pc[r] \in {"analyze", "route", "enqueue"} =>
           \/ target[r] = NoConversation
           \/ target[r] \in Conversations /\ turn[r] = "assistant"
    /\ pc[r] = "replied" => target[r] \in Conversations \cup {NoConversation}
    /\ inserting[r] = IF pc[r] = "commit" THEN NewRow(r) ELSE NoValue
    /\ routed[r] # NoValue => Sound(routed[r])

TypeInv == TypeOK /\ \A r \in Requests : Flow(r)

\* The variables a request alone writes.
Own(r) == <<inserting[r], pc[r], target[r], turn[r], position[r], analysis[r],
            routed[r], session[r], error[r]>>

LEMMA FlowFrame ==
    ASSUME NEW q \in Requests, Flow(q), UNCHANGED Own(q)
    PROVE  Flow(q)'
BY DEF Flow, Own, NewRow

\* A step of r leaves the variables of every other request alone.
LEMMA OwnFrame ==
    ASSUME TypeOK, NEW r \in Requests, Start(r) \/ Step(r) \/ Fault(r),
           NEW q \in Requests, q # r
    PROVE  UNCHANGED Own(q)
<1>1. CASE Start(r) BY <1>1 DEF Start, Own, TypeOK
<1>2. CASE Get(r) BY <1>2 DEF Get, Fail, Own, TypeOK
<1>3. CASE NextPosition(r) BY <1>3 DEF NextPosition, Own, TypeOK
<1>4. CASE Refused(r) BY <1>4 DEF Refused, Fail, Own, TypeOK
<1>5. CASE Flush(r) BY <1>5 DEF Flush, Fail, Own, TypeOK
<1>6. CASE Commit(r) BY <1>6 DEF Commit, Fail, Own, TypeOK
<1>7. CASE Analyze(r) BY <1>7 DEF Analyze, Fail, Own, TypeOK
<1>8. CASE Route(r) BY <1>8 DEF Route, Fail, Own, TypeOK
<1>9. CASE Enqueue(r) BY <1>9 DEF Enqueue, Own, TypeOK
<1>10. CASE Fault(r) BY <1>10 DEF Fault, Fail, Own, TypeOK
<1> QED BY <1>1, <1>2, <1>3, <1>4, <1>5, <1>6, <1>7, <1>8, <1>9, <1>10 DEF Step

LEMMA NewRowType ==
    ASSUME TypeInv, NEW r \in Requests,
           pc[r] \in {"flush", "commit"}
    PROVE  NewRow(r) \in Row
<1>1. position[r] \in Nat /\ turn[r] \in Role
  BY MaxTurnsAssumption DEF TypeInv, TypeOK
<1>2. CASE turn[r] = "customer"
  BY <1>1, <1>2 DEF NewRow, Row, Role
<1>3. CASE turn[r] = "assistant"
  <2>1. routed[r].text \in Text /\ routed[r].cited \in BOOLEAN
    BY <1>3 DEF TypeInv, Flow, Sound, Routed
  <2> QED BY <1>1, <1>3, <2>1 DEF NewRow, Row, Role
<1> QED BY <1>1, <1>2, <1>3 DEF Role

LEMMA TypeInvInit == Init => TypeInv
<1> SUFFICES ASSUME Init PROVE TypeInv
  OBVIOUS
<1>1. TypeOK
  BY MaxTurnsAssumption, MaxFaultsAssumption DEF Init, TypeOK, Role, PC
<1>2. \A r \in Requests : Flow(r)
  BY DEF Init, Flow
<1> QED BY <1>1, <1>2 DEF TypeInv

LEMMA TypeOKStep ==
    ASSUME TypeInv, NEW r \in Requests, Start(r) \/ Step(r) \/ Fault(r)
    PROVE  TypeOK'
<1> USE MaxTurnsAssumption, MaxFaultsAssumption
<1>0. TypeOK /\ Flow(r)
  BY DEF TypeInv
<1>1. CASE Start(r) BY <1>0, <1>1 DEF Start, TypeOK, PC
<1>2. CASE Get(r) BY <1>0, <1>2 DEF Get, Fail, TypeOK, PC
<1>3. CASE NextPosition(r) BY <1>0, <1>3 DEF NextPosition, TypeOK, PC
<1>4. CASE Refused(r) BY <1>0, <1>4 DEF Refused, Fail, TypeOK, PC
<1>5. CASE Flush(r)
  <2>1. NewRow(r) \in Row
    BY <1>5, NewRowType DEF Flush
  <2> QED BY <1>0, <1>5, <2>1 DEF Flush, Fail, TypeOK, PC
<1>6. CASE Commit(r)
  <2>1. inserting[r] \in Row /\ target[r] \in Conversations
    BY <1>0, <1>6, NewRowType DEF Commit, Flow
  <2>2. messages' \in [Conversations -> SUBSET Row]
    BY <1>0, <1>6, <2>1 DEF Commit, TypeOK
  <2> QED BY <1>0, <1>6, <2>2 DEF Commit, Fail, TypeOK, PC, Role
<1>7. CASE Analyze(r) BY <1>0, <1>7 DEF Analyze, Fail, TypeOK, PC
<1>8. CASE Route(r)
  <2>1. routed' \in [Requests -> Routed \cup {NoValue}]
    <3>1. \A given \in Responses[decide(analysis[r])] :
             decided(analysis[r], given) \in Routed
      BY <1>0, <1>8, DecidedIsSound DEF Route, Flow, Sound
    <3> QED BY <1>0, <1>8, <3>1 DEF Route, TypeOK
  <2>2. pc' \in [Requests -> PC]
    BY <1>0, <1>8 DEF Route, Fail, TypeOK, PC, AfterHandoff
  <2>3. /\ session' \in [Requests -> {"clean", "broken_by_tool", "broken_by_queue"}]
        /\ faults' \in 0..MaxFaults
    <3>1. /\ session' \in {session, [session EXCEPT ![r] = "broken_by_tool"]}
          /\ faults' = faults \/ (faults < MaxFaults /\ faults' = faults + 1)
      BY <1>8, Zenon DEF Route
    <3> QED BY <1>0, <3>1 DEF TypeOK
  <2>4. /\ error' \in [Requests -> {"none", "app", "integrity", "sql", "pending_rollback"}]
        /\ inserting' \in [Requests -> Row \cup {NoValue}]
    BY <1>0, <1>8 DEF Route, Fail, TypeOK
  <2>5. analysis' \in [Requests -> IntentAnalysis \cup {NoValue}]
    BY <1>0, <1>8 DEF Route, TypeOK
  <2> QED BY <1>0, <1>8, <2>1, <2>2, <2>3, <2>4, <2>5 DEF Route, TypeOK
<1>9. CASE Enqueue(r)
  <2>1. routed[r] \in Routed /\ routed[r].reasons # <<>>
    BY <1>0, <1>9 DEF Enqueue, Flow, Sound
  <2>2. Head(routed[r].reasons) \in EscalationReason
    <3>1. routed[r].reasons \in Seq(EscalationReason)
      BY <2>1 DEF Routed
    <3> QED BY <2>1, <3>1
  <2>3. reviews' \in SUBSET Review
    BY <1>0, <1>9, <2>1, <2>2 DEF Enqueue, Stored, TypeOK, Review, Routed
  <2>4. pc' \in [Requests -> PC]
    BY <1>0, <1>9 DEF Enqueue, TypeOK, PC, AfterHandoff
  <2> QED BY <1>0, <1>9, <2>3, <2>4 DEF Enqueue, TypeOK
<1>10. CASE Fault(r) BY <1>0, <1>10 DEF Fault, Fail, TypeOK, PC
<1> QED BY <1>1, <1>2, <1>3, <1>4, <1>5, <1>6, <1>7, <1>8, <1>9, <1>10 DEF Step

\* An exception ends a request in a state of which little is asked.
LEMMA FlowFail ==
    ASSUME TypeOK, NEW r \in Requests, Flow(r), NEW kind, Fail(r, kind),
           UNCHANGED routed
    PROVE  Flow(r)'
BY DEF TypeOK, Fail, Flow

LEMMA FlowStep ==
    ASSUME TypeInv, NEW r \in Requests, Start(r) \/ Step(r) \/ Fault(r)
    PROVE  Flow(r)'
<1>0. TypeOK /\ Flow(r) /\ NoValue \notin Row
  BY NoValueAssumption DEF TypeInv
<1>1. CASE Start(r) BY <1>0, <1>1, TargetAssumption DEF Start, TypeOK, Flow
<1>2. CASE Get(r)
  <2>1. CASE target[r] \in Conversations
    BY <1>0, <1>2, <2>1 DEF Get, TypeOK, Flow
  <2>2. CASE target[r] \notin Conversations
    BY <1>0, <1>2, <2>2, FlowFail DEF Get
  <2> QED BY <2>1, <2>2
<1>3. CASE NextPosition(r) BY <1>0, <1>3 DEF NextPosition, TypeOK, Flow
<1>4. CASE Refused(r) BY <1>0, <1>4, FlowFail DEF Refused
<1>5. CASE Flush(r)
  <2>1. CASE Taken(r)
    BY <1>0, <1>5, <2>1, FlowFail DEF Flush
  <2>2. CASE ~Taken(r)
    <3>1. NewRow(r)' = NewRow(r)
      BY <1>5 DEF Flush, NewRow
    <3> QED BY <1>0, <1>5, <2>2, <3>1 DEF Flush, TypeOK, Flow
  <2> QED BY <2>1, <2>2
<1>6. CASE Commit(r)
  <2>1. CASE /\ inserting' = [inserting EXCEPT ![r] = NoValue]
             /\ pc' = [pc EXCEPT ![r] =
                          IF turn[r] = "customer" THEN "analyze" ELSE "replied"]
             /\ turn' = [turn EXCEPT ![r] = "assistant"]
    <3>1. turn[r] \in Role
      BY <1>0 DEF TypeOK
    <3> QED BY <1>0, <1>6, <2>1, <3>1 DEF Commit, TypeOK, Flow, Role
  <2>2. CASE Fail(r, "sql")
    BY <1>0, <1>6, <2>2, FlowFail DEF Commit
  <2> QED BY <1>6, <2>1, <2>2 DEF Commit
<1>7. CASE Analyze(r)
  <2>1. CASE Fail(r, "app")
    BY <1>0, <1>7, <2>1, FlowFail DEF Analyze
  <2>2. CASE \E a \in IntentAnalysis :
               /\ analysis' = [analysis EXCEPT ![r] = a]
               /\ pc' = [pc EXCEPT ![r] = "route"]
               /\ UNCHANGED inserting
    BY <1>0, <1>7, <2>2 DEF Analyze, TypeOK, Flow
  <2> QED BY <1>7, <2>1, <2>2 DEF Analyze
<1>8. CASE Route(r)
  <2>1. CASE (\E kind : Fail(r, kind)) /\ UNCHANGED routed
    BY <1>0, <1>8, <2>1, FlowFail DEF Route
  <2>2. ASSUME NEW given \in Responses[decide(analysis[r])],
               routed' = [routed EXCEPT ![r] = decided(analysis[r], given)],
               pc' = [pc EXCEPT ![r] =
                       IF routed'[r].reasons = <<>> THEN AfterHandoff(r) ELSE "enqueue"],
               UNCHANGED inserting
        PROVE  Flow(r)'
    <3>1. Sound(decided(analysis[r], given))
      BY <1>0, <1>8, DecidedIsSound DEF Route, Flow
    <3>2. routed'[r] = decided(analysis[r], given)
      BY <1>0, <2>2 DEF TypeOK
    <3>3. routed[r]' # NoValue
      BY <3>1, <3>2, NoValueAssumption DEF Sound
    <3>4. /\ target[r] = NoConversation \/ (target[r] \in Conversations /\ turn[r] = "assistant")
          /\ inserting[r] = NoValue
          /\ UNCHANGED <<target, turn>>
      BY <1>0, <1>8 DEF Route, Flow
    <3>5. pc'[r] = IF routed'[r].reasons = <<>> THEN AfterHandoff(r) ELSE "enqueue"
      BY <1>0, <2>2 DEF TypeOK
    <3> QED BY <2>2, <3>1, <3>2, <3>3, <3>4, <3>5, TargetAssumption
            DEF Flow, AfterHandoff
  <2> QED BY <1>8, <2>1, <2>2 DEF Route
<1>9. CASE Enqueue(r)
  <2>1. pc'[r] = AfterHandoff(r) /\ UNCHANGED <<inserting, target, turn, routed>>
    BY <1>0, <1>9 DEF Enqueue, TypeOK
  <2> QED BY <1>0, <1>9, <2>1, TargetAssumption DEF Enqueue, Flow, AfterHandoff
<1>10. CASE Fault(r) BY <1>0, <1>10, FlowFail DEF Fault
<1> QED BY <1>1, <1>2, <1>3, <1>4, <1>5, <1>6, <1>7, <1>8, <1>9, <1>10 DEF Step

LEMMA TypeInvNext == TypeInv /\ [Next]_vars => TypeInv'
<1> SUFFICES ASSUME TypeInv, [Next]_vars PROVE TypeInv'
  OBVIOUS
<1>1. CASE UNCHANGED vars
  BY <1>1 DEF TypeInv, TypeOK, Flow, NewRow, vars
<1>2. CASE Next
  <2>1. PICK r \in Requests : Start(r) \/ Step(r) \/ Fault(r)
    BY <1>2 DEF Next
  <2>2. TypeOK'
    BY <2>1, TypeOKStep
  <2>3. ASSUME NEW q \in Requests PROVE Flow(q)'
    <3>1. CASE q = r
      BY <2>1, <3>1, FlowStep
    <3>2. CASE q # r
      BY <2>1, <3>2, OwnFrame, FlowFrame DEF TypeInv
    <3> QED BY <3>1, <3>2
  <2> QED BY <2>2, <2>3 DEF TypeInv
<1> QED BY <1>1, <1>2

\* The type invariant of the pipeline.
THEOREM AssistantTypeCorrect == Spec => []TypeOK
<1>1. TypeInv => TypeOK
  BY DEF TypeInv
<1> QED BY <1>1, TypeInvInit, TypeInvNext, PTL DEF Spec

-----------------------------------------------------------------------------
(* Positions. *)

\* A position that was read has all positions before it on record; a row that
\* was flushed holds a key nobody else has.
DenseInv ==
    /\ PositionsAreDense
    /\ \A r \in Requests :
           pc[r] \in {"flush", "commit"} =>
               \A p \in 0..(position[r] - 1) :
                   \E n \in messages[target[r]] : n.position = p
    /\ \A r \in Requests :
           pc[r] = "commit" =>
               /\ \A m \in messages[target[r]] : m.position # position[r]
               /\ \A q \in Requests \ {r} :
                      pc[q] = "commit" /\ target[q] = target[r] =>
                          position[q] # position[r]

LEMMA DenseInvInit == Init => DenseInv
BY DEF Init, DenseInv, PositionsAreDense, Dense

\* A row whose position is new and has all positions before it on record is
\* the last one.
LEMMA DenseAdd ==
    ASSUME NEW R, R \subseteq Row, Dense(R), NEW x \in Row,
           \A m \in R : m.position # x.position,
           \A p \in 0..(x.position - 1) : \E n \in R : n.position = p
    PROVE  /\ Dense(R \cup {x})
           /\ \A m \in R : m.position < x.position
<1>1. x.position \in Nat /\ \A m \in R : m.position \in Nat
  BY DEF Row
<1>2. ASSUME NEW m \in R PROVE m.position < x.position
  <2> SUFFICES ASSUME ~(m.position < x.position) PROVE FALSE
    OBVIOUS
  <2>1. x.position \in 0..m.position
    BY <1>1
  <2> QED BY <2>1 DEF Dense
<1>3. ASSUME NEW m \in R \cup {x}, NEW p \in 0..m.position
      PROVE  \E n \in R \cup {x} : n.position = p
  <2>1. CASE m \in R
    <3>1. \E n \in R : n.position = p
      BY <2>1 DEF Dense
    <3> QED BY <3>1
  <2>2. CASE m = x /\ p = x.position
    BY <2>2
  <2>3. CASE m = x /\ p # x.position
    <3>1. p \in 0..(x.position - 1)
      BY <1>1, <2>3
    <3>2. \E n \in R : n.position = p
      BY <3>1
    <3> QED BY <3>2
  <2> QED BY <2>1, <2>2, <2>3
<1>4. \A m, n \in R \cup {x} : m.position = n.position => m = n
  BY DEF Dense
<1> QED BY <1>2, <1>3, <1>4 DEF Dense

\* A step that writes no row and does not bring a request to flush or commit.
LEMMA DenseFrame ==
    ASSUME TypeInv, DenseInv, NEW r \in Requests,
           UNCHANGED messages,
           \A q \in Requests \ {r} : UNCHANGED <<pc[q], target[q], position[q]>>,
           pc'[r] \notin {"flush", "commit"}
    PROVE  DenseInv'
<1>1. PositionsAreDense'
  BY DEF DenseInv, PositionsAreDense
<1> QED BY <1>1 DEF DenseInv

\* The rows after a commit.
LEMMA CommitRows ==
    ASSUME TypeInv, NEW r \in Requests, Commit(r)
    PROVE  /\ target[r] \in Conversations
           /\ NewRow(r) \in Row
           /\ NewRow(r).position = position[r]
           /\ NewRow(r).request = r
           /\ NewRow(r).role = turn[r]
           /\ \A c \in Conversations :
                 messages'[c] = IF c = target[r] THEN messages[c] \cup {NewRow(r)}
                                                 ELSE messages[c]
           /\ pc[r] = "commit"
           /\ pc'[r] \in {"analyze", "replied", "failed"}
           /\ \A q \in Requests \ {r} :
                 UNCHANGED <<pc[q], target[q], position[q], turn[q], routed[q]>>
           /\ UNCHANGED <<target, position, routed>>
<1>1. TypeOK /\ Flow(r) /\ pc[r] = "commit"
  BY DEF TypeInv, Commit
<1>2. NewRow(r) \in Row /\ inserting[r] = NewRow(r) /\ target[r] \in Conversations
  BY <1>1, NewRowType DEF Flow
<1>3. /\ NewRow(r).position = position[r]
      /\ NewRow(r).request = r
      /\ NewRow(r).role = turn[r]
  BY <1>1 DEF NewRow, TypeOK, Role
<1>4. \A c \in Conversations :
         messages'[c] = IF c = target[r] THEN messages[c] \cup {NewRow(r)}
                                         ELSE messages[c]
  BY <1>1, <1>2 DEF Commit, TypeOK
<1>5. pc'[r] \in {"analyze", "replied", "failed"}
  BY <1>1 DEF Commit, Fail, TypeOK
<1>6. \A q \in Requests \ {r} :
         UNCHANGED <<pc[q], target[q], position[q], turn[q], routed[q]>>
  <2> TAKE q \in Requests \ {r}
  <2>1. UNCHANGED Own(q)
    BY <1>1, OwnFrame DEF Step
  <2> QED BY <2>1 DEF Own
<1> QED BY <1>1, <1>2, <1>3, <1>4, <1>5, <1>6 DEF Commit

LEMMA DenseCommit ==
    ASSUME TypeInv, DenseInv, NEW r \in Requests, Commit(r)
    PROVE  DenseInv'
<1> DEFINE t == target[r]
           new == NewRow(r)
<1>1. /\ t \in Conversations
      /\ new.position = position[r]
      /\ position[r] \in Nat
      /\ pc[r] = "commit"
      /\ \A c \in Conversations :
            messages'[c] = IF c = t THEN messages[c] \cup {new} ELSE messages[c]
      /\ pc'[r] \notin {"flush", "commit"}
      /\ \A q \in Requests \ {r} : UNCHANGED <<pc[q], target[q], position[q]>>
      /\ UNCHANGED <<target, position>>
      /\ \A c \in Conversations : messages[c] \subseteq Row
  <2>1. position[r] \in Nat /\ \A c \in Conversations : messages[c] \subseteq Row
    BY MaxTurnsAssumption DEF TypeInv, TypeOK
  <2> QED BY <2>1, CommitRows
<1>2. /\ \A m \in messages[t] : m.position # new.position
      /\ \A p \in 0..(new.position - 1) : \E n \in messages[t] : n.position = p
  BY <1>1 DEF DenseInv
<1>3. new \in Row
  BY CommitRows
<1>4. \A q \in Requests \ {r} :
         pc[q] = "commit" /\ target[q] = t => position[q] # new.position
  BY <1>1 DEF DenseInv
<1> HIDE DEF t, new
<1>5. PositionsAreDense'
  <2> SUFFICES ASSUME NEW c \in Conversations PROVE Dense(messages'[c])
    BY DEF PositionsAreDense
  <2>1. CASE c # t
    <3>1. messages'[c] = messages[c]
      BY <1>1, <2>1
    <3> QED BY <3>1 DEF DenseInv, PositionsAreDense
  <2>2. CASE c = t
    <3>1. messages'[c] = messages[t] \cup {new}
      BY <1>1, <2>2
    <3>2. Dense(messages[t]) /\ messages[t] \subseteq Row
      BY <1>1 DEF DenseInv, PositionsAreDense
    <3> QED BY <1>2, <1>3, <3>1, <3>2, DenseAdd
  <2> QED BY <2>1, <2>2
<1>6. ASSUME NEW q \in Requests, pc'[q] \in {"flush", "commit"}
      PROVE  \A p \in 0..(position'[q] - 1) :
                \E n \in messages'[target'[q]] : n.position = p
  <2>1. q # r /\ pc[q] \in {"flush", "commit"} /\ target[q] \in Conversations
    BY <1>1, <1>6 DEF TypeInv, Flow
  <2>2. messages[target[q]] \subseteq messages'[target[q]]
    BY <1>1, <2>1
  <2> QED BY <1>1, <2>1, <2>2 DEF DenseInv
<1>7. ASSUME NEW q \in Requests, pc'[q] = "commit"
      PROVE  /\ \A m \in messages'[target'[q]] : m.position # position'[q]
             /\ \A o \in Requests \ {q} :
                    pc'[o] = "commit" /\ target'[o] = target'[q] =>
                        position'[o] # position'[q]
  <2>1. q # r /\ pc[q] = "commit" /\ target[q] \in Conversations
    BY <1>1, <1>7 DEF TypeInv, Flow
  <2>2. \A m \in messages[target[q]] : m.position # position[q]
    BY <2>1 DEF DenseInv
  <2>3. \A m \in messages'[target[q]] : m.position # position[q]
    <3>1. CASE target[q] = t
      <4>1. messages'[target[q]] = messages[target[q]] \cup {new}
        BY <1>1, <3>1
      <4> QED BY <1>4, <2>1, <2>2, <3>1, <4>1
    <3>2. CASE target[q] # t
      BY <1>1, <2>1, <2>2, <3>2
    <3> QED BY <3>1, <3>2
  <2>4. \A o \in Requests \ {q} :
            pc'[o] = "commit" /\ target'[o] = target'[q] =>
                position'[o] # position'[q]
    BY <1>1, <2>1 DEF DenseInv
  <2> QED BY <1>1, <2>3, <2>4
<1> QED BY <1>5, <1>6, <1>7 DEF DenseInv

LEMMA DenseNextPosition ==
    ASSUME TypeInv, DenseInv, NEW r \in Requests, NextPosition(r)
    PROVE  DenseInv'
<1>1. PICK p \in 0..MaxTurns : /\ IsNextPosition(p, messages[target[r]])
                               /\ position' = [position EXCEPT ![r] = p]
  BY DEF NextPosition
<1>2. /\ TypeOK
      /\ target[r] \in Conversations
      /\ messages[target[r]] \subseteq Row
      /\ UNCHANGED <<messages, target>>
      /\ pc'[r] = "flush"
      /\ position'[r] = p
      /\ p \in Nat
      /\ \A q \in Requests \ {r} : pc'[q] = pc[q] /\ position'[q] = position[q]
  BY <1>1, MaxTurnsAssumption DEF NextPosition, TypeInv, TypeOK, Flow
<1>3. \A k \in 0..(p - 1) : \E n \in messages[target[r]] : n.position = k
  <2>1. CASE p = 0
    BY <2>1
  <2>2. CASE p # 0
    <3>1. PICK m \in messages[target[r]] : p = m.position + 1
      BY <1>1, <2>2 DEF IsNextPosition
    <3>2. m.position \in Nat
      BY <1>2, <3>1 DEF Row
    <3>3. 0..(p - 1) = 0..m.position
      BY <3>1, <3>2
    <3>4. Dense(messages[target[r]])
      BY <1>2 DEF DenseInv, PositionsAreDense
    <3> QED BY <3>1, <3>3, <3>4 DEF Dense
  <2> QED BY <2>1, <2>2
<1>4. PositionsAreDense'
  BY <1>2 DEF DenseInv, PositionsAreDense
<1> QED BY <1>2, <1>3, <1>4 DEF DenseInv

LEMMA DenseFlush ==
    ASSUME TypeInv, DenseInv, NEW r \in Requests, Flush(r)
    PROVE  DenseInv'
<1>1. /\ TypeOK
      /\ pc[r] = "flush"
      /\ UNCHANGED <<messages, target, position>>
      /\ pc'[r] \in {"commit", "failed"}
      /\ \A q \in Requests \ {r} : pc'[q] = pc[q]
  BY DEF Flush, Fail, TypeInv, TypeOK
<1>2. PositionsAreDense'
  BY <1>1 DEF DenseInv, PositionsAreDense
<1>3. CASE pc'[r] = "failed"
  BY <1>1, <1>3, DenseFrame
<1>4. CASE pc'[r] = "commit"
  <2>1. ~Taken(r) /\ ~Contended(r)
    BY <1>1, <1>4 DEF Flush, Fail, TypeOK
  <2>2. \A m \in messages[target[r]] : m.position # position[r]
    BY <2>1 DEF Taken
  <2>3. ASSUME NEW q \in Requests \ {r}, pc[q] = "commit", target[q] = target[r]
        PROVE  position[q] # position[r]
    <3>1. inserting[q] = NewRow(q) /\ inserting[q] # NoValue
      BY <2>3, NewRowType, NoValueAssumption DEF TypeInv, Flow
    <3>2. inserting[q].position = position[q]
      BY <3>1 DEF NewRow
    <3> QED BY <2>1, <2>3, <3>1, <3>2 DEF Contended
  <2> QED BY <1>1, <1>2, <1>4, <2>2, <2>3 DEF DenseInv
<1> QED BY <1>1, <1>3, <1>4

LEMMA DenseInvNext == TypeInv /\ DenseInv /\ [Next]_vars => DenseInv'
<1> SUFFICES ASSUME TypeInv, DenseInv, [Next]_vars PROVE DenseInv'
  OBVIOUS
<1>1. CASE UNCHANGED vars
  BY <1>1 DEF DenseInv, PositionsAreDense, vars
<1>2. CASE Next
  <2>1. PICK r \in Requests : Start(r) \/ Step(r) \/ Fault(r)
    BY <1>2 DEF Next
  <2>2. \A q \in Requests \ {r} : UNCHANGED <<pc[q], target[q], position[q]>>
    BY <2>1, OwnFrame DEF TypeInv, Own
  <2>3. CASE Commit(r) BY <2>3, DenseCommit
  <2>4. CASE NextPosition(r) BY <2>4, DenseNextPosition
  <2>5. CASE Flush(r) BY <2>5, DenseFlush
  <2>6. CASE Start(r)
    <3>1. UNCHANGED messages /\ pc'[r] \notin {"flush", "commit"}
      BY <2>6 DEF Start, TypeInv, TypeOK
    <3> QED BY <2>2, <3>1, DenseFrame
  <2>7. CASE Get(r) \/ Refused(r) \/ Fault(r) \/ Analyze(r)
    <3>1. UNCHANGED messages /\ pc'[r] \notin {"flush", "commit"}
      BY <2>7 DEF Get, Refused, Fault, Analyze, Fail, TypeInv, TypeOK
    <3> QED BY <2>2, <3>1, DenseFrame
  <2>8. CASE Route(r) \/ Enqueue(r)
    <3>1. UNCHANGED messages /\ pc'[r] \notin {"flush", "commit"}
      BY <2>8 DEF Route, Enqueue, Fail, AfterHandoff, TypeInv, TypeOK
    <3> QED BY <2>2, <3>1, DenseFrame
  <2> QED BY <2>1, <2>3, <2>4, <2>5, <2>6, <2>7, <2>8 DEF Step
<1> QED BY <1>1, <1>2

\* The turns of every conversation are numbered 0, 1, 2, ... however many
\* requests append to it at once and wherever the database fails.
THEOREM TurnsAreDense == Spec => []PositionsAreDense
<1>1. DenseInv => PositionsAreDense
  BY DEF DenseInv
<1> QED BY <1>1, TypeInvInit, TypeInvNext, DenseInvInit, DenseInvNext, PTL DEF Spec

\* Only Commit writes to conversation_messages.
LEMMA OnlyCommitWrites ==
    ASSUME NEW r \in Requests, Start(r) \/ Step(r) \/ Fault(r), ~Commit(r)
    PROVE  UNCHANGED messages
BY DEF Start, Step, Get, NextPosition, Refused, Flush, Analyze, Route, Enqueue, Fault

\* A committed turn is never changed and never preceded by a later one.
THEOREM HistoryIsAppendOnly == Spec => TurnsAreOnlyAppended
<1> DEFINE A == \A c \in Conversations :
                   /\ messages[c] \subseteq messages'[c]
                   /\ \A m \in messages[c], n \in messages'[c] \ messages[c] :
                          m.position < n.position
<1>1. ASSUME TypeInv, DenseInv, [Next]_vars PROVE A \/ UNCHANGED vars
  <2>1. CASE UNCHANGED messages
    BY <2>1
  <2>2. CASE \E r \in Requests : Commit(r)
    <3>1. PICK r \in Requests : Commit(r)
      BY <2>2
    <3> DEFINE t == target[r]
               new == NewRow(r)
    <3>2. /\ t \in Conversations
          /\ new \in Row
          /\ new.position = position[r]
          /\ pc[r] = "commit"
          /\ \A c \in Conversations :
                messages'[c] = IF c = t THEN messages[c] \cup {new} ELSE messages[c]
      BY <1>1, <3>1, CommitRows
    <3>3. /\ \A m \in messages[t] : m.position # new.position
          /\ \A p \in 0..(new.position - 1) : \E n \in messages[t] : n.position = p
      BY <1>1, <3>2 DEF DenseInv
    <3> HIDE DEF t, new
    <3>4. Dense(messages[t]) /\ messages[t] \subseteq Row
      BY <1>1, <3>2 DEF DenseInv, PositionsAreDense, TypeInv, TypeOK
    <3>5. \A m \in messages[t] : m.position < new.position
      BY <3>2, <3>3, <3>4, DenseAdd
    <3>6. ASSUME NEW c \in Conversations
          PROVE  /\ messages[c] \subseteq messages'[c]
                 /\ \A m \in messages[c], n \in messages'[c] \ messages[c] :
                        m.position < n.position
      <4>1. CASE c = t
        <5>1. messages'[c] = messages[t] \cup {new}
          BY <3>2, <4>1
        <5> QED BY <3>5, <4>1, <5>1
      <4>2. CASE c # t
        <5>1. messages'[c] = messages[c]
          BY <3>2, <4>2
        <5> QED BY <5>1
      <4> QED BY <4>1, <4>2
    <3> QED BY <3>6
  <2>3. UNCHANGED vars => UNCHANGED messages
    BY DEF vars
  <2> QED BY <1>1, <2>1, <2>2, <2>3, OnlyCommitWrites DEF Next
<1>2. ASSUME TypeInv, DenseInv, [Next]_vars PROVE [A]_vars
  BY <1>1, <1>2
<1> QED BY <1>2, TypeInvInit, TypeInvNext, DenseInvInit, DenseInvNext, PTL
        DEF Spec, TurnsAreOnlyAppended

-----------------------------------------------------------------------------
(* Questions and answers. *)

\* The question of r, among some rows.
Asks(r, n) == n.role = "customer" /\ n.request = r

AnswerInv ==
    /\ AnswerFollowsItsQuestion
    /\ \A c \in Conversations : \A m \in messages[c] :
           /\ target[m.request] = c
           /\ pc[m.request] # "new"
           /\ m.role = "assistant" => pc[m.request] \in {"replied", "failed"}
    /\ \A r \in Requests :
           turn[r] = "assistant" /\ target[r] \in Conversations =>
               \E n \in messages[target[r]] : Asks(r, n)
    /\ \A r \in Requests :
           turn[r] = "assistant" /\ pc[r] \in {"flush", "commit"} =>
               \E n \in messages[target[r]] : Asks(r, n) /\ n.position < position[r]

LEMMA AnswerInvInit == Init => AnswerInv
BY DEF Init, AnswerInv, AnswerFollowsItsQuestion

\* A step of r that writes no row.
LEMMA AnswerFrame ==
    ASSUME TypeInv, AnswerInv, NEW r \in Requests,
           UNCHANGED <<messages, turn>>,
           \A q \in Requests \ {r} : UNCHANGED <<pc[q], target[q], position[q]>>,
           pc[r] \notin {"replied", "failed"},
           pc'[r] # "new",
           pc[r] = "new" \/ target'[r] = target[r],
           pc[r] = "new" => turn[r] = "customer",
           \/ pc'[r] \notin {"flush", "commit"}
           \/ pc[r] = "flush" /\ position'[r] = position[r]
           \/ IsNextPosition(position'[r], messages[target[r]])
              /\ target[r] \in Conversations /\ pc[r] # "new"
    PROVE  AnswerInv'
<1>0. /\ \A c \in Conversations : messages[c] \subseteq Row
      /\ turn \in [Requests -> Role]
      /\ \A n \in Row : n.request \in Requests /\ n.position \in Nat
  BY DEF TypeInv, TypeOK, Row
<1>1. AnswerFollowsItsQuestion'
  BY DEF AnswerInv, AnswerFollowsItsQuestion
<1>2. ASSUME NEW c \in Conversations, NEW m \in messages'[c]
      PROVE  /\ target'[m.request] = c
             /\ pc'[m.request] # "new"
             /\ m.role = "assistant" => pc'[m.request] \in {"replied", "failed"}
  <2>1. /\ m.request \in Requests
        /\ target[m.request] = c
        /\ pc[m.request] # "new"
        /\ m.role = "assistant" => pc[m.request] \in {"replied", "failed"}
    BY <1>0, <1>2 DEF AnswerInv
  <2> QED BY <2>1
<1>3. ASSUME NEW q \in Requests, turn'[q] = "assistant", target'[q] \in Conversations
      PROVE  \E n \in messages'[target'[q]] : Asks(q, n)
  <2>1. target'[q] = target[q]
    BY <1>3
  <2> QED BY <1>3, <2>1 DEF AnswerInv
<1>4. ASSUME NEW q \in Requests, turn'[q] = "assistant", pc'[q] \in {"flush", "commit"}
      PROVE  \E n \in messages'[target'[q]] : Asks(q, n) /\ n.position < position'[q]
  <2>1. CASE q # r
    BY <1>4, <2>1 DEF AnswerInv
  <2>2. CASE q = r /\ pc[r] = "flush" /\ position'[r] = position[r]
    BY <1>4, <2>2 DEF AnswerInv
  <2>3. CASE q = r /\ IsNextPosition(position'[r], messages[target[r]])
                   /\ target[r] \in Conversations /\ pc[r] # "new"
    <3>1. PICK n \in messages[target[r]] : Asks(r, n)
      BY <1>4, <2>3 DEF AnswerInv
    <3>2. n.position < position'[r]
      BY <2>3, <3>1 DEF IsNextPosition
    <3> QED BY <2>3, <3>1, <3>2
  <2> QED BY <1>4, <2>1, <2>2, <2>3
<1> QED BY <1>1, <1>2, <1>3, <1>4 DEF AnswerInv

LEMMA AnswerCommit ==
    ASSUME TypeInv, AnswerInv, NEW r \in Requests, Commit(r)
    PROVE  AnswerInv'
<1> DEFINE t == target[r]
           new == NewRow(r)
<1>1. /\ t \in Conversations
      /\ new \in Row
      /\ new.position = position[r]
      /\ new.request = r
      /\ new.role = turn[r]
      /\ \A c \in Conversations :
            messages'[c] = IF c = t THEN messages[c] \cup {new} ELSE messages[c]
      /\ pc[r] = "commit"
      /\ pc'[r] \in {"analyze", "replied", "failed"}
      /\ \A q \in Requests \ {r} : UNCHANGED <<pc[q], target[q], position[q], turn[q]>>
      /\ UNCHANGED <<target, position>>
  BY CommitRows
<1>2. turn[r] = "assistant" => pc'[r] \in {"replied", "failed"}
  BY DEF Commit, Fail, TypeInv, TypeOK
<1>3. turn[r] = "assistant" =>
         \E n \in messages[t] : Asks(r, n) /\ n.position < new.position
  BY <1>1 DEF AnswerInv
<1>4. \A m \in messages[t] : m.role = "assistant" => m.request # r
  BY <1>1 DEF AnswerInv
<1>5. turn[r] = "customer" => Asks(r, new)
  BY <1>1 DEF Asks
<1>6. /\ \A c \in Conversations : messages[c] \subseteq Row
      /\ \A n \in Row : n.request \in Requests
      /\ turn[r] \in {"customer", "assistant"}
  BY DEF TypeInv, TypeOK, Row, Role
<1> HIDE DEF t, new
<1>7. \A c \in Conversations : messages[c] \subseteq messages'[c]
  BY <1>1
<1>8. AnswerFollowsItsQuestion'
  <2> SUFFICES ASSUME NEW c \in Conversations, NEW m \in messages'[c],
                      m.role = "assistant"
               PROVE  /\ \E n \in messages'[c] : /\ n.role = "customer"
                                                 /\ n.request = m.request
                                                 /\ n.position < m.position
                      /\ \A n \in messages'[c] :
                             n.role = "assistant" /\ n.request = m.request => n = m
    BY DEF AnswerFollowsItsQuestion
  <2>1. CASE m \in messages[c]
    <3>1. /\ \E n \in messages[c] : /\ n.role = "customer"
                                    /\ n.request = m.request
                                    /\ n.position < m.position
          /\ \A n \in messages[c] :
                 n.role = "assistant" /\ n.request = m.request => n = m
      BY <2>1 DEF AnswerInv, AnswerFollowsItsQuestion
    <3>2. c = t => m.request # r
      BY <1>4, <2>1
    <3>3. \A n \in messages'[c] : n \in messages[c] \/ (c = t /\ n.request = r)
      BY <1>1
    <3> QED BY <1>7, <3>1, <3>2, <3>3
  <2>2. CASE m \notin messages[c]
    <3>1. c = t /\ m = new /\ turn[r] = "assistant"
      BY <1>1, <2>2
    <3>2. PICK n \in messages[t] : Asks(r, n) /\ n.position < new.position
      BY <1>3, <3>1
    <3>3. n \in messages'[c] /\ n.role = "customer" /\ n.request = m.request
      BY <1>1, <1>7, <3>1, <3>2 DEF Asks
    <3>4. messages'[c] = messages[t] \cup {new}
      BY <1>1, <3>1
    <3> QED BY <1>1, <1>4, <3>1, <3>2, <3>3, <3>4
  <2> QED BY <2>1, <2>2
<1>9. ASSUME NEW c \in Conversations, NEW m \in messages'[c]
      PROVE  /\ target'[m.request] = c
             /\ pc'[m.request] # "new"
             /\ m.role = "assistant" => pc'[m.request] \in {"replied", "failed"}
  <2>1. CASE m \in messages[c]
    <3>1. /\ m.request \in Requests
          /\ target[m.request] = c
          /\ pc[m.request] # "new"
          /\ m.role = "assistant" => pc[m.request] \in {"replied", "failed"}
      BY <1>6, <2>1 DEF AnswerInv
    <3> QED BY <1>1, <3>1
  <2>2. CASE m \notin messages[c]
    <3>1. c = t /\ m = new
      BY <1>1, <2>2
    <3> QED BY <1>1, <1>2, <3>1 DEF t
  <2> QED BY <2>1, <2>2
<1>10. ASSUME NEW q \in Requests, turn'[q] = "assistant", target'[q] \in Conversations
       PROVE  \E n \in messages'[target'[q]] : Asks(q, n)
  <2>1. CASE turn[q] = "assistant"
    <3>1. \E n \in messages[target[q]] : Asks(q, n)
      BY <1>1, <1>10, <2>1 DEF AnswerInv
    <3> QED BY <1>1, <1>7, <1>10, <3>1
  <2>2. CASE turn[q] # "assistant"
    <3>1. q = r /\ turn[r] = "customer"
      BY <1>1, <1>6, <1>10, <2>2
    <3>2. new \in messages'[t]
      BY <1>1
    <3> QED BY <1>1, <1>5, <3>1, <3>2 DEF t
  <2> QED BY <2>1, <2>2
<1>11. ASSUME NEW q \in Requests, turn'[q] = "assistant", pc'[q] \in {"flush", "commit"}
       PROVE  \E n \in messages'[target'[q]] : Asks(q, n) /\ n.position < position'[q]
  <2>1. q # r /\ pc[q] \in {"flush", "commit"} /\ turn[q] = "assistant"
    BY <1>1, <1>11
  <2>2. target[q] \in Conversations
    BY <2>1 DEF TypeInv, Flow
  <2>3. \E n \in messages[target[q]] : Asks(q, n) /\ n.position < position[q]
    BY <2>1 DEF AnswerInv
  <2> QED BY <1>1, <1>7, <2>2, <2>3
<1> QED BY <1>8, <1>9, <1>10, <1>11 DEF AnswerInv

LEMMA AnswerInvNext == TypeInv /\ AnswerInv /\ [Next]_vars => AnswerInv'
<1> SUFFICES ASSUME TypeInv, AnswerInv, [Next]_vars PROVE AnswerInv'
  OBVIOUS
<1>1. CASE UNCHANGED vars
  BY <1>1 DEF AnswerInv, AnswerFollowsItsQuestion, vars
<1>2. CASE Next
  <2>1. PICK r \in Requests : Start(r) \/ Step(r) \/ Fault(r)
    BY <1>2 DEF Next
  <2>2. \A q \in Requests \ {r} : UNCHANGED <<pc[q], target[q], position[q]>>
    BY <2>1, OwnFrame DEF TypeInv, Own
  <2>3. TypeOK /\ Flow(r)
    BY DEF TypeInv
  <2>4. pc[r] = "new" => turn[r] = "customer"
    BY <2>3 DEF Flow
  <2>5. CASE Commit(r) BY <2>5, AnswerCommit
  <2>6. CASE NextPosition(r)
    <3>1. /\ UNCHANGED <<messages, turn, target>>
          /\ pc[r] = "next_position" /\ pc'[r] = "flush"
          /\ IsNextPosition(position'[r], messages[target[r]])
          /\ target[r] \in Conversations
      BY <2>3, <2>6 DEF NextPosition, TypeOK, Flow
    <3> QED BY <2>2, <2>4, <3>1, AnswerFrame
  <2>7. CASE Flush(r)
    <3>1. /\ UNCHANGED <<messages, turn, target, position>>
          /\ pc[r] = "flush" /\ pc'[r] \in {"commit", "failed"}
      BY <2>3, <2>7 DEF Flush, Fail, TypeOK
    <3> QED BY <2>2, <2>4, <3>1, AnswerFrame
  <2>8. CASE Start(r)
    <3>1. /\ UNCHANGED <<messages, turn>>
          /\ pc[r] = "new" /\ pc'[r] \in {"analyze", "get"}
      BY <2>3, <2>8 DEF Start, TypeOK
    <3> QED BY <2>2, <2>4, <3>1, AnswerFrame
  <2>9. CASE Get(r) \/ Refused(r) \/ Fault(r) \/ Analyze(r)
    <3>1. /\ UNCHANGED <<messages, turn, target>>
          /\ pc[r] \notin {"new", "replied", "failed"}
          /\ pc'[r] \in {"next_position", "route", "failed"}
      BY <2>3, <2>9 DEF Get, Refused, Fault, Analyze, Fail, TypeOK
    <3> QED BY <2>2, <2>4, <3>1, AnswerFrame
  <2>10. CASE Route(r) \/ Enqueue(r)
    <3>1. /\ UNCHANGED <<messages, turn, target>>
          /\ pc[r] \notin {"new", "replied", "failed"}
          /\ pc'[r] \in {"enqueue", "get", "replied", "failed"}
      BY <2>3, <2>10 DEF Route, Enqueue, AfterHandoff, Fail, TypeOK
    <3> QED BY <2>2, <2>4, <3>1, AnswerFrame
  <2> QED BY <2>1, <2>5, <2>6, <2>7, <2>8, <2>9, <2>10 DEF Step
<1> QED BY <1>1, <1>2

\* Every reply on record stands after its question in the same conversation,
\* and is the only reply to it.
THEOREM QuestionsComeFirst == Spec => []AnswerFollowsItsQuestion
<1>1. AnswerInv => AnswerFollowsItsQuestion
  BY DEF AnswerInv
<1> QED BY <1>1, TypeInvInit, TypeInvNext, AnswerInvInit, AnswerInvNext, PTL DEF Spec

-----------------------------------------------------------------------------
(* What is said, what is recorded, and who is asked. *)

Queued(r) ==
    \E item \in reviews : item.request = r /\ item.reason = Head(routed[r].reasons)

RecordInv ==
    /\ ReplyIsOnRecord
    /\ RecordedRepliesAreAllowed
    /\ \A r \in Requests :
           /\ routed[r] # NoValue
           /\ routed[r].reasons # <<>>
           /\ pc[r] \notin {"enqueue", "failed"}
           /\ session[r] = "clean"
           => Queued(r)

LEMMA RecordInvInit == Init => RecordInv
BY DEF Init, RecordInv, ReplyIsOnRecord, RecordedRepliesAreAllowed

\* A row that is committed is a question or a reply that may be sent.
LEMMA NewRowAllowed ==
    ASSUME TypeInv, NEW r \in Requests, pc[r] = "commit"
    PROVE  /\ NewRow(r).text # "promise"
           /\ NewRow(r).cited => NewRow(r).text \in {"answer", "referral"}
           /\ turn[r] # "customer" =>
                 /\ NewRow(r).text = routed[r].text
                 /\ NewRow(r).cited = routed[r].cited
<1>1. CASE turn[r] = "customer"
  BY <1>1 DEF NewRow
<1>2. CASE turn[r] # "customer"
  <2>1. turn[r] = "assistant"
    BY <1>2 DEF TypeInv, TypeOK, Role
  <2>2. Sound(routed[r])
    BY <2>1 DEF TypeInv, Flow
  <2> QED BY <1>2, <2>2 DEF NewRow, Sound
<1> QED BY <1>1, <1>2

LEMMA RecordStep ==
    ASSUME TypeInv, RecordInv, NEW r \in Requests, Start(r) \/ Step(r) \/ Fault(r)
    PROVE  RecordInv'
<1>0. TypeOK /\ Flow(r)
  BY DEF TypeInv
<1>1. \A q \in Requests \ {r} : UNCHANGED Own(q)
  BY <1>0, OwnFrame
<1>2. \A c \in Conversations : messages[c] \subseteq messages'[c]
  <2>1. CASE Commit(r) BY <2>1, CommitRows
  <2>2. CASE ~Commit(r) BY <2>2, OnlyCommitWrites
  <2> QED BY <2>1, <2>2
<1>3. reviews \subseteq reviews'
  BY DEF Start, Step, Fault, Get, NextPosition, Refused, Flush, Commit, Analyze,
         Route, Enqueue, Stored
<1>4. RecordedRepliesAreAllowed'
  <2>1. CASE Commit(r)
    <3>1. pc[r] = "commit"
      BY <2>1 DEF Commit
    <3>2. \A c \in Conversations : \A m \in messages'[c] : m \in messages[c] \/ m = NewRow(r)
      <4>1. \A c \in Conversations :
               messages'[c] = IF c = target[r] THEN messages[c] \cup {NewRow(r)}
                                               ELSE messages[c]
        BY <2>1, CommitRows
      <4> HIDE DEF NewRow
      <4> QED BY <4>1
    <3> QED BY <3>1, <3>2, NewRowAllowed DEF RecordInv, RecordedRepliesAreAllowed
  <2>2. CASE ~Commit(r)
    BY <2>2, OnlyCommitWrites DEF RecordInv, RecordedRepliesAreAllowed
  <2> QED BY <2>1, <2>2
<1>5. ReplyIsOnRecord'
  <2> SUFFICES ASSUME NEW q \in Requests, pc'[q] = "replied",
                      target'[q] # NoConversation
               PROVE  \E m \in messages'[target'[q]] :
                         /\ m.request = q
                         /\ m.role = "assistant"
                         /\ m.text = routed'[q].text
                         /\ m.cited = routed'[q].cited
    BY DEF ReplyIsOnRecord
  <2>1. CASE q # r
    <3>1. /\ pc[q] = "replied" /\ target'[q] = target[q] /\ routed'[q] = routed[q]
      BY <1>1, <2>1 DEF Own
    <3>2. target[q] \in Conversations
      BY <3>1 DEF TypeInv, Flow
    <3>3. \E m \in messages[target[q]] :
             /\ m.request = q
             /\ m.role = "assistant"
             /\ m.text = routed[q].text
             /\ m.cited = routed[q].cited
      BY <3>1 DEF RecordInv, ReplyIsOnRecord
    <3> QED BY <1>2, <3>1, <3>2, <3>3
  <2>2. CASE q = r /\ Commit(r)
    <3>1. pc[r] = "commit" /\ turn[r] = "assistant"
      BY <1>0, <2>2 DEF Commit, Fail, TypeOK, Role
    <3>2. /\ target[r] \in Conversations
          /\ NewRow(r) \in messages'[target[r]]
          /\ NewRow(r).request = r
          /\ NewRow(r).role = turn[r]
          /\ UNCHANGED <<target, routed>>
      BY <2>2, CommitRows
    <3> QED BY <2>2, <3>1, <3>2, NewRowAllowed
  <2>3. CASE q = r /\ ~Commit(r)
    <3>1. Route(r) \/ Enqueue(r)
      BY <1>0, <2>3 DEF Start, Step, Fault, Get, NextPosition, Refused, Flush,
                        Analyze, Fail, TypeOK
    <3>2. AfterHandoff(r) = "replied" /\ UNCHANGED target
      BY <1>0, <2>3, <3>1 DEF Route, Enqueue, Fail, TypeOK
    <3> QED BY <2>3, <3>2 DEF AfterHandoff
  <2> QED BY <2>1, <2>2, <2>3
<1>6. ASSUME NEW q \in Requests, routed'[q] # NoValue, routed'[q].reasons # <<>>,
             pc'[q] \notin {"enqueue", "failed"}, session'[q] = "clean"
      PROVE  Queued(q)'
  <2>1. ASSUME routed'[q] = routed[q], session[q] = "clean",
               pc[q] \notin {"enqueue", "failed"}
        PROVE  Queued(q)'
    <3>1. Queued(q)
      BY <1>6, <2>1 DEF RecordInv
    <3> QED BY <1>3, <2>1, <3>1 DEF Queued
  <2>2. CASE q # r
    BY <1>1, <1>6, <2>1, <2>2 DEF Own
  <2>3. CASE q = r /\ Enqueue(r)
    <3>1. /\ session[r] = "clean" /\ Stored(r) /\ UNCHANGED routed
      BY <1>0, <1>6, <2>3 DEF Enqueue, TypeOK
    <3> DEFINE item == [request |-> r, reason |-> Head(routed[r].reasons),
                        proposed |-> routed[r].proposed]
    <3>2. /\ item \in reviews'
          /\ item.request = r
          /\ item.reason = Head(routed'[r].reasons)
      BY <3>1 DEF Stored
    <3> HIDE DEF item
    <3> QED BY <2>3, <3>2 DEF Queued
  <2>4. CASE q = r /\ Route(r)
    <3>1. /\ UNCHANGED routed /\ session[r] = "clean" /\ pc[r] = "route"
      BY <1>0, <1>6, <2>4 DEF Route, Fail, TypeOK
    <3> QED BY <2>1, <2>4, <3>1
  <2>5. CASE q = r /\ ~Enqueue(r) /\ ~Route(r)
    <3>1. UNCHANGED <<routed, session>>
      BY <2>5 DEF Start, Step, Fault, Get, NextPosition, Refused, Flush, Commit, Analyze
    <3>2. pc[r] \notin {"enqueue", "failed"}
      BY <1>0, <1>6, <2>5 DEF Start, Step, Fault, Get, NextPosition, Refused, Flush,
                              Commit, Analyze, Fail, TypeOK
    <3> QED BY <1>6, <2>1, <2>5, <3>1, <3>2
  <2> QED BY <2>2, <2>3, <2>4, <2>5
<1> QED BY <1>4, <1>5, <1>6 DEF RecordInv

LEMMA RecordInvNext == TypeInv /\ RecordInv /\ [Next]_vars => RecordInv'
<1> SUFFICES ASSUME TypeInv, RecordInv, [Next]_vars PROVE RecordInv'
  OBVIOUS
<1>1. CASE UNCHANGED vars
  BY <1>1 DEF RecordInv, ReplyIsOnRecord, RecordedRepliesAreAllowed, Queued, vars
<1>2. CASE Next
  BY <1>2, RecordStep DEF Next
<1> QED BY <1>1, <1>2

\* A reply given in a conversation is on record there, word for word.
THEOREM RepliesAreRecorded == Spec => []ReplyIsOnRecord
<1>1. RecordInv => ReplyIsOnRecord
  BY DEF RecordInv
<1> QED BY <1>1, TypeInvInit, TypeInvNext, RecordInvInit, RecordInvNext, PTL DEF Spec

\* No recorded reply commits to a financial outcome or names foreign sources.
THEOREM RepliesAreAllowed == Spec => []RecordedRepliesAreAllowed
<1>1. RecordInv => RecordedRepliesAreAllowed
  BY DEF RecordInv
<1> QED BY <1>1, TypeInvInit, TypeInvNext, RecordInvInit, RecordInvNext, PTL DEF Spec

\* A person is announced exactly when one is asked, and is asked indeed unless
\* the database failed.
THEOREM PromisesAreKept == Spec => []PromiseIsKept
<1>1. TypeInv /\ RecordInv => PromiseIsKept
  <2> SUFFICES ASSUME TypeInv, RecordInv, NEW r \in Requests, pc[r] = "replied"
               PROVE  /\ routed[r].text \in {"review", "noticed"} <=> routed[r].reasons # <<>>
                      /\ routed[r].reasons # <<>> /\ session[r] = "clean" =>
                             \E item \in reviews :
                                 /\ item.request = r
                                 /\ item.reason = Head(routed[r].reasons)
    BY DEF PromiseIsKept
  <2>1. routed[r] # NoValue /\ Sound(routed[r])
    BY DEF TypeInv, Flow
  <2>2. routed[r].reasons # <<>> /\ session[r] = "clean" => Queued(r)
    BY <2>1 DEF RecordInv
  <2> QED BY <2>1, <2>2 DEF Sound, Queued
<1> QED BY <1>1, TypeInvInit, TypeInvNext, RecordInvInit, RecordInvNext, PTL DEF Spec

-----------------------------------------------------------------------------
\* The turns of a conversation are dense, and every reply stands after the
\* question it answers (ConversationService.append under the unique constraint).
THEOREM TurnsStandInOrder == Spec => []TurnsAreInOrder
BY TurnsAreDense, QuestionsComeFirst, PTL DEF TurnsAreInOrder

\* What the customer is told is on record, is allowed, and is what happens
\* (AssistantService.respond, PolicyEngine.enforce, HandoffService.handoff).
THEOREM RepliesTellTheTruth == Spec => []RepliesAreHonest
BY RepliesAreRecorded, PromisesAreKept, RepliesAreAllowed, PTL DEF RepliesAreHonest

=============================================================================
