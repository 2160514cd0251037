------------------------------- MODULE Tracer -------------------------------
(***************************************************************************)
(* Tracer.span: spans opened and closed by the tasks of one process, and   *)
(* correlated through a context variable.  Every task has its own context; *)
(* a span's parent is whatever span the context holds when it opens, and   *)
(* closing it restores what the context held before.  The recorder is the  *)
(* in-memory one; one that raises is logged and ignored (Tracer._emit).    *)
(***************************************************************************)
EXTENDS Integers, Sequences, FiniteSets

CONSTANTS
    Tasks,      \* asyncio tasks
    NoSpan      \* _current when no span is open

VARIABLES
    context,    \* _current, in each task's context
    frames,     \* the with-blocks a task is in: the handle and the reset token
    spans,      \* InMemoryRecorder: the spans that were recorded
    ids         \* how many identifiers new_id has given each task

tracerVars == <<context, frames, spans, ids>>

\* new_id: no two calls return the same.
Id == Tasks \X Nat

SpanKind == {"request", "routing", "tool", "llm"}

SpanStatus == {"ok", "error"}

\* SpanHandle.  body says which request a span belongs to; the code has no
\* such field, it is there to state what correlation means.
SpanHandle(Body) ==
    [trace_id : Id, span_id : Id, parent : Id \cup {NoSpan}, kind : SpanKind,
     body : Body]

\* None is neither an identifier nor a handle.
ASSUME NoSpanAssumption ==
    NoSpan \notin Id /\ NoSpan \notin SpanHandle(Tasks \X Nat)

Span(Body) ==
    [trace_id : Id, span_id : Id, parent : Id \cup {NoSpan}, kind : SpanKind,
     body : Body, status : SpanStatus]

TracerInit ==
    /\ context = [t \in Tasks |-> NoSpan]
    /\ frames = [t \in Tasks |-> <<>>]
    /\ spans = {}
    /\ ids = [t \in Tasks |-> 0]

\* A handle opened under parent; new_id is called for the trace only when
\* there is no parent.
handle_under(t, parent, kind, body) ==
    IF parent = NoSpan
    THEN [trace_id |-> <<t, ids[t] + 1>>, span_id |-> <<t, ids[t] + 2>>,
          parent |-> NoSpan, kind |-> kind, body |-> body]
    ELSE [trace_id |-> parent.trace_id, span_id |-> <<t, ids[t] + 1>>,
          parent |-> parent.span_id, kind |-> kind, body |-> body]

\* MUTANT: the context variable of the whole process instead of the task's.
inherited_shared(t) ==
    IF \E u \in Tasks : context[u] # NoSpan
    THEN context[CHOOSE u \in Tasks : context[u] # NoSpan]
    ELSE NoSpan

\* The span a new one is opened under: _current.get().
inherited(t) == context[t]

\* Tracer.span, up to its yield.
OpenSpan(t, kind, body) ==
    LET handle == handle_under(t, inherited(t), kind, body) IN
    /\ frames' = [frames EXCEPT ![t] = Append(@, [handle |-> handle, token |-> context[t]])]
    /\ context' = [context EXCEPT ![t] = handle]
    /\ ids' = [ids EXCEPT ![t] = IF inherited(t) = NoSpan THEN @ + 2 ELSE @ + 1]
    /\ UNCHANGED spans

Top(t) == frames[t][Len(frames[t])]

\* What the context holds after a span is closed: _current.reset(token).
restored(t) == Top(t).token

\* SpanHandle.to_span
to_span(handle, status) ==
    [trace_id |-> handle.trace_id, span_id |-> handle.span_id,
     parent |-> handle.parent, kind |-> handle.kind, body |-> handle.body,
     status |-> status]

\* Tracer.span, from its yield: however the body ended, the context is
\* restored and the span is recorded.  status is error after an Exception, and
\* ok after a return; a cancellation is no Exception and leaves it ok.
CloseSpan(t, status) ==
    /\ frames[t] # <<>>
    /\ spans' = spans \cup {to_span(Top(t).handle, status)}
    /\ context' = [context EXCEPT ![t] = restored(t)]
    /\ frames' = [frames EXCEPT ![t] = SubSeq(@, 1, Len(@) - 1)]
    /\ UNCHANGED ids

-----------------------------------------------------------------------------

\* The handles of the spans that are open.
Open == UNION {{frames[t][i].handle : i \in DOMAIN frames[t]} : t \in Tasks}

=============================================================================
