---------------------------- MODULE ToolExecutor ----------------------------
(***************************************************************************)
(* The tools of backend/app/tools and ToolExecutor.execute, which turns    *)
(* whatever becomes of a call into a result.  A call has one parameter     *)
(* that matters: the ticket id, the status, the query.                     *)
(***************************************************************************)
EXTENDS Naturals, Sequences, FiniteSets

VARIABLE
    session  \* the request's database session, which all its tools share

\* build_registry
Registry == {"lookup_ticket", "list_tickets", "search_knowledge_base"}

\* None, a string of the form the parameter asks for, or anything else (the
\* output of a tool is a dict or a list).
Value == {"none", "text", "object"}

ToolOutcome == {"ok", "invalid_params", "failed", "timeout", "not_found"}

\* LookupTicketParams, ListTicketsParams, SearchKnowledgeBaseParams: only the
\* status of list_tickets may be None.
accepted(tool) == IF tool = "list_tickets" THEN {"none", "text"} ELSE {"text"}

\* What _run comes to once the parameters are validated.  Each tool asks the
\* database, which a session in need of a rollback refuses.
run_outcomes == IF session = "clean" THEN {"ok", "failed", "timeout"}
                                     ELSE {"failed", "timeout"}

\* execute: every outcome it can have.
outcomes(tool, value) ==
    CASE tool \notin Registry          -> {"not_found"}
      [] value \notin accepted(tool)   -> {"invalid_params"}
      [] OTHER                         -> run_outcomes

\* A tool that fails or is cancelled in a statement leaves the session in need
\* of a rollback, and nothing here rolls back; one that raises ToolError does not.
SessionAfter(outcome) ==
    \/ UNCHANGED session
    \/ /\ outcome \in {"failed", "timeout"}
       /\ session' = "broken"

=============================================================================
