------------------------------- MODULE ToolUse -------------------------------
(***************************************************************************)
(* A request that uses tools: an agent decides which (agent/factory.py),   *)
(* or a workflow says so (workflows/factory.py).  Each builds an executor  *)
(* over the session of its request.                                        *)
(***************************************************************************)
EXTENDS AgentLoop, Workflow

VARIABLE user  \* which of the two the request runs

vars == <<user, session, agent, ledger, asked, call, outcome, phase, inputs,
          steps, supplied, outputs, records, failed_step>>

TypeOK ==
    /\ user \in {"agent", "workflow"}
    /\ session \in {"clean", "broken"}
    /\ AgentTypeOK
    /\ WorkflowTypeOK

Init ==
    /\ user \in {"agent", "workflow"}
    /\ session = "clean"
    /\ AgentInit
    /\ WorkflowInit

Next ==
    \/ /\ user = "agent"
       /\ AgentNext
       /\ UNCHANGED <<user, workflowVars>>
    \/ /\ user = "workflow"
       /\ WorkflowNext
       /\ UNCHANGED <<user, agentVars>>

Spec == Init /\ [][Next]_vars

\* The model's answers and the tools have deadlines; a definition is finite.
FairSpec == Spec /\ WF_vars(Next)

\* Every run comes to an end with an answer or a summary, whatever the model
\* decides and however the tools fail.
EveryRunEnds ==
    <>(agent = "ended" \/ phase \in {"ended", "rejected"})

=============================================================================
