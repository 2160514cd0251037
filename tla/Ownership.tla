----------------------------- MODULE Ownership -----------------------------
(***************************************************************************)
(* Who may see what: backend/app/auth/authorization.py.                    *)
(*                                                                         *)
(* The authorizer is built once per process from the settings, so a        *)
(* deployment changes it by restarting; the rows stay.  A service is given *)
(* a scope, or NoScope where the code passes None.                         *)
(***************************************************************************)
CONSTANTS
    Subject,  \* principals, as RequestIdentity.subject names them
    NoOwner,  \* owner_subject IS NULL
    NoScope   \* the scope None

ASSUME OwnershipAssumption == NoOwner \notin Subject /\ NoScope \notin Subject

VARIABLE authorizer  \* what get_authorizer returns

\* OpenAuthorizer and SubjectScopedAuthorizer, by their names.
Authorizers == {"open", "subject"}

\* The scope applied to the reads of a subject.
scope_for(s) == IF authorizer = "subject" THEN s ELSE NoScope

\* MUTANT: the owner stamped is the scope, None and all.
owner_for_scope(s) == scope_for(s)

\* The owner stamped on what a subject creates: while nothing is enforced,
\* nothing is stamped.
owner_for(s) == IF authorizer = "subject" THEN s ELSE NoOwner

\* MUTANT: what has no owner is shared.
permits_unowned(scope, owner) == owner \in {NoOwner, scope}

\* OwnerScope.permits: an unowned resource is refused.
permits(scope, owner) == owner # NoOwner /\ owner = scope

\* TicketService.get and ConversationService.get: a row, or the not-found
\* error of a row that does not exist.
readable(row, scope) == scope = NoScope \/ permits(scope, row.owner)

\* TicketService.list before the page is cut: the filter is part of the
\* query, where NULL equals nothing.  Conversations are never listed.
listed(row, scope) == row.kind = "ticket" /\ (scope = NoScope \/ row.owner = scope)

\* The scope with which the agent's tools call TicketService.get and list, on
\* behalf of whoever asked the assistant: they pass none.
tool_scope == NoScope

=============================================================================
