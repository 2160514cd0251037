------------------------------ MODULE AgentLoop ------------------------------
(***************************************************************************)
(* One run of backend/app/agent/loop.py, with the ledger of state.py.      *)
(***************************************************************************)
EXTENDS ToolExecutor

CONSTANTS
    MaxSteps,      \* AgentBudget.max_steps
    MaxToolCalls   \* AgentBudget.max_tool_calls

ASSUME BudgetAssumption == MaxSteps \in Nat \ {0} /\ MaxToolCalls \in Nat

VARIABLES
    agent,   \* where the run is: "budget", "decide", "act", "ended"
    ledger,  \* AgentState.steps
    asked,   \* answers the model was asked for
    call,    \* the tool call it decided on
    outcome  \* AgentOutcome

agentVars == <<agent, ledger, asked, call, outcome>>

Step == [kind : {"tool_call"}, result : ToolOutcome] \cup [kind : {"answer"}]

\* A name the model comes up with need not be that of a tool.
Call == [tool : Registry \cup {"unknown"}, value : Value]

Outcome == [completed : BOOLEAN,
            answer : {"model_answer", "budget_answer", "provider_answer"},
            stop_reason : {"none", "answered", "steps", "tool_calls",
                           "provider_unavailable"}]

NoCall == [tool |-> "unknown", value |-> "none"]
Unfinished == [completed |-> FALSE, answer |-> "budget_answer", stop_reason |-> "none"]

AgentTypeOK ==
    /\ agent \in {"budget", "decide", "act", "ended"}
    /\ ledger \in Seq(Step)
    /\ asked \in Nat
    /\ call \in Call
    /\ outcome \in Outcome

AgentInit ==
    /\ agent = "budget"
    /\ ledger = <<>>
    /\ asked = 0
    /\ call = NoCall
    /\ outcome = Unfinished

-----------------------------------------------------------------------------

tool_calls == Cardinality({i \in DOMAIN ledger : ledger[i].kind = "tool_call"})

\* MUTANT: the tool calls are not bounded.
exhausted_by_steps_only == IF Len(ledger) >= MaxSteps THEN {"steps"} ELSE {}

\* The limit that is reached, if one is; steps are looked at first.
exhausted ==
    IF Len(ledger) >= MaxSteps THEN {"steps"}
    ELSE IF tool_calls >= MaxToolCalls THEN {"tool_calls"}
    ELSE {}

finish(completed, answer, stop_reason) ==
    /\ agent' = "ended"
    /\ outcome' = [completed |-> completed, answer |-> answer, stop_reason |-> stop_reason]

\* ensure_within_budget, at the head of the loop.
EnsureWithinBudget ==
    /\ agent = "budget"
    /\ \/ /\ exhausted = {}
          /\ agent' = "decide"
          /\ UNCHANGED outcome
       \/ \E reason \in exhausted : finish(FALSE, "budget_answer", reason)
    /\ UNCHANGED <<ledger, asked, call, session>>

\* MUTANT: the loop asks again when the provider failed, and counts nothing.
Halt_asking_again ==
    /\ agent' = "budget"
    /\ UNCHANGED <<ledger, asked, call, outcome>>

\* except LLMError: a run that cannot think is over.
Halt ==
    /\ finish(FALSE, "provider_answer", "provider_unavailable")
    /\ asked' = asked + 1
    /\ UNCHANGED <<ledger, call>>

\* _decide, and what follows up to the next await.  The model may answer, with
\* an empty answer even; ask for a tool; or the provider fails.
Decide ==
    /\ agent = "decide"
    /\ \/ Halt
       \/ /\ \E answer \in {"model_answer", "budget_answer"} :
                finish(TRUE, answer, "answered")
          /\ asked' = asked + 1
          /\ ledger' = Append(ledger, [kind |-> "answer"])
          /\ UNCHANGED call
       \/ /\ call' \in Call
          /\ agent' = "act"
          /\ asked' = asked + 1
          /\ UNCHANGED <<ledger, outcome>>
    /\ UNCHANGED session

\* execute, and record_tool_call.
Act ==
    /\ agent = "act"
    /\ \E result \in outcomes(call.tool, call.value) :
          /\ SessionAfter(result)
          /\ ledger' = Append(ledger, [kind |-> "tool_call", result |-> result])
    /\ agent' = "budget"
    /\ call' = NoCall
    /\ UNCHANGED <<asked, outcome>>

AgentNext == EnsureWithinBudget \/ Decide \/ Act

-----------------------------------------------------------------------------
(* Properties of a run. *)

\* Neither limit is passed, whatever the model and the tools do, and a run
\* that gives up does so because a limit is reached or the provider failed:
\* it has asked the model as often as the smaller limit lets it.
SpendsItsBudget ==
    /\ Len(ledger) <= MaxSteps /\ asked <= MaxSteps
    /\ tool_calls <= MaxToolCalls
    /\ agent = "ended" /\ outcome.stop_reason \in {"steps", "tool_calls"} =>
           /\ asked = (IF MaxSteps <= MaxToolCalls THEN MaxSteps ELSE MaxToolCalls)
           /\ outcome.stop_reason = "steps" <=> MaxSteps <= MaxToolCalls

=============================================================================
