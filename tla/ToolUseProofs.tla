---------------------------- MODULE ToolUseProofs ----------------------------
(***************************************************************************)
(* Proofs about agent runs and workflows, for any budget, any names and    *)
(* any length of a definition.                                             *)
(***************************************************************************)
EXTENDS ToolUse, FiniteSetTheorems, TLAPS

-----------------------------------------------------------------------------
(* The budget of an agent run. *)

\* While a run goes on it has only called tools, so both limits bound the same
\* number, and what the model was asked for is what is recorded or under way.
AgentInv ==
    /\ AgentTypeOK
    /\ agent # "ended" => \A i \in DOMAIN ledger : ledger[i].kind = "tool_call"
    /\ agent \in {"budget", "decide"} => asked = Len(ledger)
    /\ agent = "act" => asked = Len(ledger) + 1
    /\ agent = "budget" => Len(ledger) <= MaxSteps /\ Len(ledger) <= MaxToolCalls
    /\ agent \in {"decide", "act"} => Len(ledger) < MaxSteps /\ Len(ledger) < MaxToolCalls
    /\ agent = "ended" => SpendsItsBudget

\* The size of an initial interval of the natural numbers.
LEMMA IntervalSize ==
    ASSUME NEW n \in Nat
    PROVE  Cardinality(1..n) = n
<1>1. Cardinality(1..n) = IF 1 > n THEN 0 ELSE n - 1 + 1
  BY FS_Interval, 1 \in Int, n \in Int, Zenon
<1> QED BY <1>1

\* A ledger of tool calls has as many of them as it has entries.
LEMMA ToolCallsCounted ==
    ASSUME ledger \in Seq(Step),
           \A i \in DOMAIN ledger : ledger[i].kind = "tool_call"
    PROVE  tool_calls = Len(ledger)
<1>1. {i \in DOMAIN ledger : ledger[i].kind = "tool_call"} = 1..Len(ledger)
  OBVIOUS
<1>2. Cardinality(1..Len(ledger)) = Len(ledger)
  BY IntervalSize
<1> QED BY <1>1, <1>2 DEF tool_calls

\* An answer is not counted as a tool call.
LEMMA AnswerNotCounted ==
    ASSUME ledger \in Seq(Step),
           \A i \in DOMAIN ledger : ledger[i].kind = "tool_call",
           ledger' = Append(ledger, [kind |-> "answer"])
    PROVE  tool_calls' = Len(ledger)
<1>1. {i \in DOMAIN ledger' : ledger'[i].kind = "tool_call"} = 1..Len(ledger)
  OBVIOUS
<1>2. Cardinality(1..Len(ledger)) = Len(ledger)
  BY IntervalSize
<1> QED BY <1>1, <1>2 DEF tool_calls

\* While a run goes on both limits bound the length of its ledger.
LEMMA AgentInvImpliesBudget == AgentInv => SpendsItsBudget
<1> SUFFICES ASSUME AgentInv, agent # "ended"
             PROVE  SpendsItsBudget
  BY DEF AgentInv
<1>1. tool_calls = Len(ledger)
  BY ToolCallsCounted DEF AgentInv, AgentTypeOK
<1>2. Len(ledger) \in Nat
  BY DEF AgentInv, AgentTypeOK
<1> QED BY <1>1, <1>2, BudgetAssumption DEF AgentInv, AgentTypeOK, SpendsItsBudget

\* Every step of the loop keeps the invariant.
LEMMA AgentStep ==
    ASSUME AgentInv, AgentNext
    PROVE  AgentInv'
<1> USE BudgetAssumption
<1>0. /\ ledger \in Seq(Step) /\ Len(ledger) \in Nat
      /\ asked \in Nat /\ call \in Call /\ outcome \in Outcome
      /\ agent \in {"budget", "decide", "act", "ended"}
  BY DEF AgentInv, AgentTypeOK
<1>1. CASE EnsureWithinBudget
  <2>1. tool_calls = Len(ledger)
    BY <1>0, <1>1, ToolCallsCounted DEF AgentInv, EnsureWithinBudget
  <2>2. CASE exhausted = {} /\ agent' = "decide" /\ UNCHANGED outcome
    BY <1>0, <1>1, <2>1, <2>2
       DEF EnsureWithinBudget, exhausted, AgentInv, AgentTypeOK
  <2>3. ASSUME NEW reason \in exhausted, finish(FALSE, "budget_answer", reason)
        PROVE  AgentInv'
    <3>1. /\ agent = "budget" /\ agent' = "ended"
          /\ outcome' \in Outcome
          /\ outcome'.stop_reason = reason
          /\ reason \in {"steps", "tool_calls"}
          /\ UNCHANGED <<ledger, asked, call>>
      BY <1>1, <2>3 DEF EnsureWithinBudget, finish, Outcome, exhausted
    <3>2. /\ Len(ledger) <= MaxSteps /\ Len(ledger) <= MaxToolCalls
          /\ asked = Len(ledger)
      BY <3>1 DEF AgentInv
    <3>3. tool_calls' = Len(ledger)
      BY <2>1, <3>1 DEF tool_calls
    <3>4. /\ asked' = (IF MaxSteps <= MaxToolCalls THEN MaxSteps ELSE MaxToolCalls)
          /\ reason = "steps" <=> MaxSteps <= MaxToolCalls
      BY <1>0, <2>1, <2>3, <3>1, <3>2 DEF exhausted
    <3>5. SpendsItsBudget'
      BY <1>0, <3>1, <3>2, <3>3, <3>4 DEF SpendsItsBudget
    <3> QED BY <1>0, <3>1, <3>5 DEF AgentInv, AgentTypeOK
  <2> QED BY <1>1, <2>2, <2>3 DEF EnsureWithinBudget
<1>2. CASE Decide
  <2>1. /\ agent = "decide" /\ asked' = asked + 1 /\ asked = Len(ledger)
        /\ Len(ledger) < MaxSteps /\ Len(ledger) < MaxToolCalls
        /\ \A i \in DOMAIN ledger : ledger[i].kind = "tool_call"
    BY <1>2 DEF Decide, Halt, AgentInv
  <2>2. CASE /\ finish(FALSE, "provider_answer", "provider_unavailable")
             /\ UNCHANGED <<ledger, call>>
    <3>1. tool_calls' = Len(ledger)
      BY <1>0, <2>1, <2>2, ToolCallsCounted DEF tool_calls
    <3>2. agent' = "ended" /\ outcome' \in Outcome
          /\ outcome'.stop_reason = "provider_unavailable"
      BY <2>2 DEF finish, Outcome
    <3>3. SpendsItsBudget'
      BY <1>0, <2>1, <2>2, <3>1, <3>2 DEF SpendsItsBudget
    <3> QED BY <1>0, <2>1, <2>2, <3>2, <3>3 DEF AgentInv, AgentTypeOK
  <2>3. ASSUME NEW answer \in {"model_answer", "budget_answer"},
               finish(TRUE, answer, "answered"),
               ledger' = Append(ledger, [kind |-> "answer"]),
               UNCHANGED call
        PROVE  AgentInv'
    <3>1. tool_calls' = Len(ledger)
      BY <1>0, <2>1, <2>3, AnswerNotCounted
    <3>2. agent' = "ended" /\ outcome' \in Outcome
          /\ outcome'.stop_reason = "answered"
      BY <2>3 DEF finish, Outcome
    <3>3. ledger' \in Seq(Step) /\ Len(ledger') = Len(ledger) + 1
      BY <1>0, <2>3 DEF Step
    <3>4. SpendsItsBudget'
      BY <1>0, <2>1, <3>1, <3>2, <3>3 DEF SpendsItsBudget
    <3> QED BY <1>0, <2>1, <2>3, <3>2, <3>3, <3>4 DEF AgentInv, AgentTypeOK
  <2>4. CASE call' \in Call /\ agent' = "act" /\ UNCHANGED <<ledger, outcome>>
    BY <1>0, <2>1, <2>4 DEF AgentInv, AgentTypeOK
  <2> QED BY <1>2, <2>2, <2>3, <2>4 DEF Decide, Halt
<1>3. CASE Act
  <2>1. PICK result \in outcomes(call.tool, call.value) :
            ledger' = Append(ledger, [kind |-> "tool_call", result |-> result])
    BY <1>3 DEF Act
  <2>2. result \in ToolOutcome
    BY <2>1 DEF outcomes, run_outcomes, ToolOutcome
  <2>3. /\ agent = "act" /\ agent' = "budget" /\ asked' = asked
        /\ outcome' = outcome /\ call' \in Call
        /\ asked = Len(ledger) + 1
        /\ Len(ledger) < MaxSteps /\ Len(ledger) < MaxToolCalls
        /\ \A i \in DOMAIN ledger : ledger[i].kind = "tool_call"
    BY <1>3 DEF Act, AgentInv, NoCall, Call, Value
  <2>4. ledger' \in Seq(Step) /\ Len(ledger') = Len(ledger) + 1
    BY <1>0, <2>1, <2>2 DEF Step
  <2>5. \A i \in DOMAIN ledger' : ledger'[i].kind = "tool_call"
    BY <1>0, <2>1, <2>3
  <2> QED BY <1>0, <2>3, <2>4, <2>5 DEF AgentInv, AgentTypeOK
<1> QED BY <1>1, <1>2, <1>3 DEF AgentNext

\* So does a step of anything else.
LEMMA AgentStutter == AgentInv /\ UNCHANGED agentVars => AgentInv'
BY DEF AgentInv, AgentTypeOK, agentVars, SpendsItsBudget, tool_calls

\* The invariant holds throughout.
LEMMA AgentInvHolds == Spec => []AgentInv
<1>1. Init => AgentInv
  BY BudgetAssumption
     DEF Init, AgentInit, AgentInv, AgentTypeOK, NoCall, Call, Value, Unfinished, Outcome
<1>2. AgentInv /\ [Next]_vars => AgentInv'
  BY AgentStep, AgentStutter DEF Next, vars, agentVars
<1> QED BY <1>1, <1>2, PTL DEF Spec

\* The limits of an agent run hold whatever the model and the tools do, and a
\* run that stops at one has used it up (state.py:123, loop.py:83).
THEOREM RunsSpendTheirBudget == Spec => []SpendsItsBudget
BY AgentInvHolds, AgentInvImpliesBudget, PTL

-----------------------------------------------------------------------------
(* References. *)

\* A definition as the validator leaves it.
WellFormed ==
    \A i \in DOMAIN steps :
        /\ steps[i].id \notin earlier(i)
        /\ steps[i].ref # Literal => steps[i].ref \in earlier(i)

\* outputs holds what succeeded, and otherwise what the caller supplied.
OutputsMatch ==
    \A n \in Names :
        /\ outputs[n] = "object" <=>
               \E j \in DOMAIN records : steps[j].id = n /\ records[j].outcome = "ok"
        /\ outputs[n] = "none" => n \notin supplied

\* A run that goes on has only met failures it may go on after.
OnlyOptionalFailed ==
    \A j \in DOMAIN records : records[j].outcome # "ok" => steps[j].optional

WorkflowInv ==
    /\ WorkflowTypeOK
    /\ WellFormed
    /\ phase \in {"define", "rejected"} => records = <<>>
    /\ phase = "run" => OutputsMatch
    /\ failed_step = NoStep => OnlyOptionalFailed
    /\ ReferencesResolve

\* The validator only lets well-formed definitions through.
LEMMA ValidatePreserves ==
    ASSUME WorkflowInv, ValidateStep
    PROVE  WorkflowInv'
<1>1. PICK step \in WorkflowStep :
          IF step.id \in earlier(Len(steps) + 1) \/ references(step) \ seen(step) # {}
          THEN phase' = "rejected" /\ steps' = <<>>
          ELSE steps' = Append(steps, step) /\ UNCHANGED phase
  BY DEF ValidateStep
<1>2. /\ phase = "define" /\ records = <<>> /\ records' = <<>>
      /\ Len(steps) < MAX_STEPS
      /\ UNCHANGED <<inputs, supplied, outputs, failed_step>>
      /\ steps \in Seq(WorkflowStep)
  BY DEF ValidateStep, WorkflowInv, room, WorkflowTypeOK
<1>3. ReferencesResolve' /\ OnlyOptionalFailed'
  BY <1>2 DEF ReferencesResolve, OnlyOptionalFailed
<1>4. CASE phase' = "rejected" /\ steps' = <<>>
  <2>1. WorkflowTypeOK'
    BY <1>2, <1>4, MaxStepsAssumption DEF WorkflowInv, WorkflowTypeOK
  <2>2. WellFormed'
    BY <1>4 DEF WellFormed
  <2> QED BY <1>2, <1>3, <1>4, <2>1, <2>2 DEF WorkflowInv
<1>5. CASE /\ step.id \notin earlier(Len(steps) + 1)
           /\ references(step) \ seen(step) = {}
           /\ steps' = Append(steps, step) /\ UNCHANGED phase
  <2>1. /\ steps' \in Seq(WorkflowStep) /\ Len(steps') = Len(steps) + 1
        /\ \A i \in 1..Len(steps) : steps'[i] = steps[i]
        /\ steps'[Len(steps) + 1] = step
        /\ DOMAIN steps' = 1..(Len(steps) + 1)
    BY <1>2, <1>5
  <2>2. \A i \in 1..(Len(steps) + 1) : earlier(i)' = earlier(i)
    BY <1>2, <2>1 DEF earlier
  <2>3. step.ref # Literal => step.ref \in earlier(Len(steps) + 1)
    BY <1>5 DEF references, seen
  <2>4. WellFormed'
    <3> SUFFICES ASSUME NEW i \in DOMAIN steps'
                 PROVE  /\ steps'[i].id \notin earlier(i)'
                        /\ steps'[i].ref # Literal => steps'[i].ref \in earlier(i)'
      BY DEF WellFormed
    <3>1. CASE i = Len(steps) + 1
      BY <1>5, <2>1, <2>2, <2>3, <3>1
    <3>2. CASE i \in DOMAIN steps
      BY <1>2, <2>1, <2>2, <3>2 DEF WorkflowInv, WellFormed
    <3> QED BY <1>2, <2>1, <3>1, <3>2
  <2>5. WorkflowTypeOK'
    BY <1>2, <1>5, <2>1, MaxStepsAssumption DEF WorkflowInv, WorkflowTypeOK
  <2> QED BY <1>2, <1>3, <1>5, <2>4, <2>5 DEF WorkflowInv
<1> QED BY <1>1, <1>4, <1>5

\* A run begins with what the caller supplied.
LEMMA StartPreserves ==
    ASSUME WorkflowInv, Start
    PROVE  WorkflowInv'
<1>1. /\ records = <<>> /\ UNCHANGED <<inputs, steps, records, failed_step>>
      /\ phase' = "run" /\ supplied' \in SUBSET Names
      /\ outputs' = [n \in Names |-> IF n \in supplied' THEN "text" ELSE "none"]
  BY DEF Start, WorkflowInv
<1>2. WorkflowTypeOK'
  BY <1>1 DEF WorkflowInv, WorkflowTypeOK, Value
<1>3. WellFormed'
  BY <1>1 DEF WorkflowInv, WellFormed, earlier
<1>4. OutputsMatch'
  BY <1>1 DEF OutputsMatch
<1>5. ReferencesResolve' /\ OnlyOptionalFailed'
  BY <1>1 DEF ReferencesResolve, OnlyOptionalFailed
<1> QED BY <1>1, <1>2, <1>3, <1>4, <1>5 DEF WorkflowInv

\* A step of a run, whatever its tool comes to.
LEMMA RunStepPreserves ==
    ASSUME WorkflowInv, RunStep
    PROVE  WorkflowInv'
<1> DEFINE k == Len(records) + 1
           step == steps[k]
<1>1. /\ phase = "run" /\ Len(records) < Len(steps) /\ failed_step = NoStep
      /\ UNCHANGED <<phase, inputs, steps, supplied>>
      /\ steps \in Seq(WorkflowStep) /\ records \in Seq(StepRecord)
      /\ outputs \in [Names -> Value]
      /\ OutputsMatch /\ OnlyOptionalFailed
  BY DEF RunStep, WorkflowInv, WorkflowTypeOK
<1>2. k \in DOMAIN steps /\ step \in WorkflowStep /\ step.id \in Names
  <2>1. Len(records) \in Nat /\ Len(steps) \in Nat /\ DOMAIN steps = 1..Len(steps)
    BY <1>1
  <2>2. k \in DOMAIN steps
    BY <1>1, <2>1
  <2>3. step \in WorkflowStep
    BY <1>1, <2>2
  <2> QED BY <2>2, <2>3 DEF WorkflowStep
<1>3. PICK result \in outcomes(step.tool, resolve(step)) :
          /\ records' = Append(records, [id |-> step.id, outcome |-> result,
                                         given |-> resolve(step)])
          /\ outputs' = [outputs EXCEPT ![step.id] =
                            IF result = "ok" THEN "object" ELSE outputs[step.id]]
          /\ failed_step' = IF ends_the_run(step, result) THEN step.id ELSE NoStep
  BY DEF RunStep
<1>4. result \in ToolOutcome
  BY <1>3 DEF outcomes, run_outcomes, ToolOutcome
<1>5. resolve(step) \in Value
  BY <1>1, <1>2 DEF resolve, Value, WorkflowStep
<1>6. /\ records' \in Seq(StepRecord) /\ Len(records') = k
      /\ DOMAIN records' = 1..k
      /\ \A i \in 1..Len(records) : records'[i] = records[i]
      /\ records'[k].outcome = result /\ records'[k].given = resolve(step)
      /\ DOMAIN records = 1..Len(records) /\ Len(records) \in Nat
  BY <1>1, <1>2, <1>3, <1>4, <1>5 DEF StepRecord
<1>7. WorkflowTypeOK'
  BY <1>1, <1>2, <1>3, <1>6 DEF WorkflowInv, WorkflowTypeOK, Value
<1>8. WellFormed'
  BY <1>1 DEF WorkflowInv, WellFormed, earlier
<1>9. \A n \in Names : (\E j \in DOMAIN records' :
                            steps'[j].id = n /\ records'[j].outcome = "ok")
          <=> \/ \E j \in DOMAIN records : steps[j].id = n /\ records[j].outcome = "ok"
              \/ n = step.id /\ result = "ok"
  BY <1>1, <1>2, <1>6
<1>10. OutputsMatch'
  <2> SUFFICES ASSUME NEW n \in Names
               PROVE  /\ outputs'[n] = "object" <=>
                            \E j \in DOMAIN records' :
                                steps'[j].id = n /\ records'[j].outcome = "ok"
                      /\ outputs'[n] = "none" => n \notin supplied'
    BY DEF OutputsMatch
  <2>1. outputs'[n] = IF n = step.id /\ result = "ok" THEN "object" ELSE outputs[n]
    BY <1>1, <1>2, <1>3
  <2> QED BY <1>1, <1>9, <2>1 DEF OutputsMatch
<1>11. failed_step' = NoStep => OnlyOptionalFailed'
  <2> SUFFICES ASSUME failed_step' = NoStep, NEW j \in DOMAIN records',
                      records'[j].outcome # "ok"
               PROVE  steps'[j].optional
    BY DEF OnlyOptionalFailed
  <2>1. CASE j = k
    <3>1. ~ends_the_run(step, result)
      BY <1>2, <1>3, NamesAssumption
    <3> QED BY <1>1, <1>6, <2>1, <3>1 DEF ends_the_run
  <2>2. CASE j \in DOMAIN records
    BY <1>1, <1>6, <2>2 DEF OnlyOptionalFailed
  <2> QED BY <1>6, <2>1, <2>2
<1>12. ReferencesResolve'
  <2> SUFFICES ASSUME NEW i \in DOMAIN records', steps'[i].ref # Literal
               PROVE  /\ records'[i].given = "object" <=> SucceededBefore(i, steps[i].ref)'
                      /\ records'[i].given = "none" =>
                             \/ SkippedBefore(i, steps[i].ref)'
                             \/ steps'[i].ref \in inputs' \cap unresolved_references(supplied)'
    BY DEF ReferencesResolve
  <2>1. i \in 1..k /\ i - 1 <= Len(records)
    BY <1>6
  <2>2. \A n : /\ SucceededBefore(i, n)' <=> SucceededBefore(i, n)
               /\ SkippedBefore(i, n)' <=> SkippedBefore(i, n)
    BY <1>1, <1>6, <2>1 DEF SucceededBefore, SkippedBefore
  <2>3. unresolved_references(supplied)' = unresolved_references(supplied)
    BY <1>1 DEF unresolved_references
  <2>4. CASE i \in DOMAIN records
    BY <1>1, <1>6, <2>2, <2>3, <2>4 DEF WorkflowInv, ReferencesResolve
  <2>5. CASE i = k
    <3> DEFINE n == step.ref
    <3>1. n \in Names /\ n # Literal /\ records'[i].given = outputs[n]
      BY <1>1, <1>2, <1>6, <2>5 DEF WorkflowStep, resolve
    <3>2. SucceededBefore(k, n) <=>
             \E j \in DOMAIN records : steps[j].id = n /\ records[j].outcome = "ok"
      BY <1>6 DEF SucceededBefore
    <3>3. outputs[n] = "object" <=> SucceededBefore(k, n)
      BY <1>1, <3>1, <3>2 DEF OutputsMatch
    <3>4. ASSUME outputs[n] = "none"
          PROVE  SkippedBefore(k, n) \/ n \in inputs \cap unresolved_references(supplied)
      <4>1. n \notin supplied
        BY <1>1, <3>1, <3>4 DEF OutputsMatch
      <4>2. n \in earlier(k)
        BY <1>2, <3>1 DEF WorkflowInv, WellFormed
      <4>3. CASE \E j \in 1..(k - 1) : steps[j].id = n
        <5>1. PICK j \in 1..(k - 1) : steps[j].id = n
          BY <4>3
        <5>2. j \in DOMAIN records /\ records[j].outcome # "ok"
          BY <1>6, <3>2, <3>3, <3>4, <5>1
        <5>3. steps[j].optional
          BY <1>1, <5>2 DEF OnlyOptionalFailed
        <5> QED BY <5>1, <5>2, <5>3 DEF SkippedBefore
      <4>4. CASE ~ \E j \in 1..(k - 1) : steps[j].id = n
        <5>1. n \in inputs
          BY <4>2, <4>4 DEF earlier
        <5>2. n \in references(steps[k]) \ (supplied \cup {steps[j].id : j \in 1..(k - 1)})
          BY <3>1, <4>1, <4>4 DEF references
        <5>3. n \in unresolved_references(supplied)
          BY <1>2, <5>2 DEF unresolved_references
        <5> QED BY <5>1, <5>3
      <4> QED BY <4>3, <4>4
    <3> QED BY <1>1, <2>2, <2>3, <2>5, <3>1, <3>3, <3>4
  <2> QED BY <1>6, <2>4, <2>5
<1> QED BY <1>1, <1>7, <1>8, <1>10, <1>11, <1>12 DEF WorkflowInv

\* The end of a run, or a step of anything else.
LEMMA FinishPreserves ==
    ASSUME WorkflowInv, Finish \/ UNCHANGED workflowVars
    PROVE  WorkflowInv'
<1>1. /\ UNCHANGED <<inputs, steps, supplied, outputs, records, failed_step>>
      /\ phase' = "ended" \/ phase' = phase
  BY DEF Finish, workflowVars
<1>2. WorkflowTypeOK' /\ WellFormed' /\ (OutputsMatch => OutputsMatch')
      /\ (OnlyOptionalFailed => OnlyOptionalFailed')
  BY <1>1 DEF WorkflowInv, WorkflowTypeOK, WellFormed, earlier, OutputsMatch,
              OnlyOptionalFailed
<1>3. ReferencesResolve'
  BY <1>1 DEF WorkflowInv, ReferencesResolve, SucceededBefore, SkippedBefore,
              unresolved_references
<1> QED BY <1>1, <1>2, <1>3 DEF WorkflowInv

\* The invariant of workflows holds throughout.
LEMMA WorkflowInvHolds == Spec => []WorkflowInv
<1>1. Init => WorkflowInv
  <2> SUFFICES ASSUME Init PROVE WorkflowInv
    OBVIOUS
  <2>1. /\ steps = <<>> /\ records = <<>> /\ phase = "define"
        /\ inputs \in SUBSET Names /\ supplied = {} /\ failed_step = NoStep
        /\ outputs = [n \in Names |-> "none"]
    BY DEF Init, WorkflowInit
  <2>2. WorkflowTypeOK
    BY <2>1, MaxStepsAssumption DEF WorkflowTypeOK, Value
  <2> QED BY <2>1, <2>2 DEF WorkflowInv, WellFormed, OnlyOptionalFailed, ReferencesResolve
<1>2. WorkflowInv /\ [Next]_vars => WorkflowInv'
  <2> SUFFICES ASSUME WorkflowInv, [Next]_vars PROVE WorkflowInv'
    OBVIOUS
  <2>1. \/ ValidateStep \/ Start \/ RunStep \/ Finish \/ UNCHANGED workflowVars
    BY DEF Next, WorkflowNext, vars, workflowVars
  <2> QED BY <2>1, ValidatePreserves, StartPreserves, RunStepPreserves, FinishPreserves
<1> QED BY <1>1, <1>2, PTL DEF Spec

\* In every run of a definition the validator accepts, a reference brings the
\* output of the step it names, and brings nothing only after an optional step
\* failed or for an input reported missing (definition.py:82, execution.py:117).
THEOREM ReferencesAreSound == Spec => []ReferencesResolve
<1>1. WorkflowInv => ReferencesResolve
  BY DEF WorkflowInv
<1> QED BY <1>1, WorkflowInvHolds, PTL

\* No tool runs on a value its parameters do not accept, a reference that
\* brought nothing included (ToolExecutor.execute validates before it runs).
THEOREM RunsOnlyTheAccepted == Spec => []OnlyAcceptedRuns
<1>1. Init => OnlyAcceptedRuns
  BY DEF Init, WorkflowInit, OnlyAcceptedRuns
<1>2. WorkflowInv /\ OnlyAcceptedRuns /\ [Next]_vars => OnlyAcceptedRuns'
  <2> SUFFICES ASSUME WorkflowInv, OnlyAcceptedRuns, [Next]_vars PROVE OnlyAcceptedRuns'
    OBVIOUS
  <2>1. CASE RunStep
    <3> DEFINE k == Len(records) + 1
    <3>1. /\ steps' = steps /\ k \in DOMAIN steps
          /\ records \in Seq(StepRecord)
      BY <2>1 DEF RunStep, WorkflowInv, WorkflowTypeOK
    <3>2. PICK result \in outcomes(steps[k].tool, resolve(steps[k])) :
              records' = Append(records, [id |-> steps[k].id, outcome |-> result,
                                          given |-> resolve(steps[k])])
      BY <2>1 DEF RunStep
    <3>3. result \in {"ok", "failed", "timeout"} =>
              resolve(steps[k]) \in accepted(steps[k].tool)
      BY <3>2 DEF outcomes
    <3>4. \A i \in DOMAIN records' :
              \/ i \in DOMAIN records /\ records'[i] = records[i]
              \/ /\ i = k /\ records'[i].outcome = result
                 /\ records'[i].given = resolve(steps[k])
      BY <3>1, <3>2
    <3> QED
      BY <3>1, <3>3, <3>4 DEF OnlyAcceptedRuns
  <2>2. CASE ValidateStep
    BY <2>2 DEF ValidateStep, WorkflowInv, OnlyAcceptedRuns
  <2>3. CASE Start \/ Finish \/ UNCHANGED workflowVars
    BY <2>3 DEF Start, Finish, workflowVars, OnlyAcceptedRuns
  <2> QED
    BY <2>1, <2>2, <2>3 DEF Next, WorkflowNext, vars, workflowVars
<1> QED BY <1>1, <1>2, WorkflowInvHolds, PTL DEF Spec

-----------------------------------------------------------------------------
(* Completion. *)

Failing == {i \in DOMAIN records : records[i].outcome # "ok" /\ ~steps[i].optional}

CompletionInv ==
    /\ failed_step # NoStep =>
           Failing = {Len(records)} /\ records[Len(records)].id = failed_step
    /\ phase = "ended" /\ failed_step = NoStep => Len(records) = Len(steps)

\* What is known of failures when a run ends.
LEMMA CompletionStep ==
    ASSUME WorkflowInv, WorkflowInv', CompletionInv, WorkflowNext \/ UNCHANGED workflowVars
    PROVE  CompletionInv'
<1>1. CASE ValidateStep
  <2>1. records = <<>> /\ phase = "define" /\ phase' # "ended"
        /\ UNCHANGED <<records, failed_step>>
    BY <1>1 DEF ValidateStep, WorkflowInv
  <2>2. failed_step = NoStep
    BY <2>1 DEF CompletionInv, Failing
  <2> QED BY <2>1, <2>2 DEF CompletionInv
<1>2. CASE Start
  BY <1>2 DEF Start, CompletionInv, Failing
<1>3. CASE RunStep
  <2> DEFINE k == Len(records) + 1
             step == steps[k]
  <2>1. /\ phase' = "run" /\ failed_step = NoStep /\ UNCHANGED steps
        /\ records \in Seq(StepRecord) /\ OnlyOptionalFailed
    BY <1>3 DEF RunStep, WorkflowInv, WorkflowTypeOK
  <2>2. PICK result \in outcomes(step.tool, resolve(step)) :
            /\ records' = Append(records, [id |-> step.id, outcome |-> result,
                                           given |-> resolve(step)])
            /\ failed_step' = IF ends_the_run(step, result) THEN step.id ELSE NoStep
    BY <1>3 DEF RunStep
  <2>3. /\ Len(records') = k /\ DOMAIN records' = 1..k
        /\ \A i \in 1..Len(records) : records'[i] = records[i]
        /\ records'[k].id = step.id /\ records'[k].outcome = result
        /\ Len(records) \in Nat /\ DOMAIN records = 1..Len(records)
    BY <2>1, <2>2
  <2>4. ASSUME failed_step' # NoStep
        PROVE  Failing' = {k} /\ records'[k].id = failed_step'
    <3>1. result # "ok" /\ ~step.optional /\ failed_step' = step.id
      BY <2>2, <2>4 DEF ends_the_run
    <3>2. \A i \in 1..Len(records) : ~(records'[i].outcome # "ok" /\ ~steps'[i].optional)
      BY <2>1, <2>3 DEF OnlyOptionalFailed
    <3> QED BY <2>1, <2>3, <3>1, <3>2 DEF Failing
  <2> QED BY <2>1, <2>3, <2>4 DEF CompletionInv
<1>4. CASE Finish
  BY <1>4 DEF Finish, CompletionInv, Failing
<1>5. CASE UNCHANGED workflowVars
  BY <1>5 DEF workflowVars, CompletionInv, Failing
<1> QED BY <1>1, <1>2, <1>3, <1>4, <1>5 DEF WorkflowNext

\* A run is reported complete exactly when every required step succeeded, and
\* otherwise ends with the first that did not (execution.py:79).
THEOREM CompletionIsSound == Spec => []CompletedMeansRequiredSucceeded
<1>1. Init => CompletionInv
  BY DEF Init, WorkflowInit, CompletionInv
<1>2. WorkflowInv /\ WorkflowInv' /\ CompletionInv /\ [Next]_vars => CompletionInv'
  <2> SUFFICES ASSUME WorkflowInv, WorkflowInv', CompletionInv, [Next]_vars
               PROVE  CompletionInv'
    OBVIOUS
  <2>1. WorkflowNext \/ UNCHANGED workflowVars
    BY DEF Next, vars, workflowVars
  <2> QED BY <2>1, CompletionStep
<1>3. WorkflowInv /\ CompletionInv => CompletedMeansRequiredSucceeded
  BY DEF WorkflowInv, OnlyOptionalFailed, CompletionInv, CompletedMeansRequiredSucceeded,
         Failing
<1> QED BY <1>1, <1>2, <1>3, WorkflowInvHolds, PTL DEF Spec

-----------------------------------------------------------------------------
(* Types. *)

\* The type invariant, for any budget and any definition.
THEOREM ToolUseTypeCorrect == Spec => []TypeOK
<1> DEFINE SInv == user \in {"agent", "workflow"} /\ session \in {"clean", "broken"}
<1>1. Init => SInv
  BY DEF Init
<1>2. SInv /\ [Next]_vars => SInv'
  <2> SUFFICES ASSUME SInv, [Next]_vars PROVE SInv'
    OBVIOUS
  <2>1. user' = user
    BY DEF Next, vars
  <2>2. session' = session \/ session' = "broken"
    BY DEF Next, vars, AgentNext, WorkflowNext, EnsureWithinBudget, Decide, Halt, Act,
           ValidateStep, Start, RunStep, Finish, SessionAfter
  <2> QED BY <2>1, <2>2
<1>3. AgentInv /\ WorkflowInv /\ SInv => TypeOK
  BY DEF AgentInv, WorkflowInv, TypeOK
<1> QED BY <1>1, <1>2, <1>3, AgentInvHolds, WorkflowInvHolds, PTL DEF Spec

-----------------------------------------------------------------------------
\* A workflow's run does what its validated definition says: its references
\* resolve, a tool runs only on what its parameters accept, and it completes
\* only when every required step succeeded (WorkflowRunner.run).
THEOREM RunsAreSound == Spec => []RunsFollowTheDefinition
BY ReferencesAreSound, RunsOnlyTheAccepted, CompletionIsSound, PTL
   DEF RunsFollowTheDefinition

=============================================================================
