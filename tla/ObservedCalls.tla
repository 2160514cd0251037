---------------------------- MODULE ObservedCalls ---------------------------
(***************************************************************************)
(* Requests to the assistant, observed: POST /assistant/messages opens a   *)
(* request span around the pipeline, a question over the socket does not;  *)
(* inside, TracedIntentHandler, TracedTool and TracedLLMProvider open      *)
(* theirs and count what happened.  The routes wrap the provider only; the *)
(* other two wrappers and the ledger are in place here, as in the tests.   *)
(* A step ends where the task awaits.                                      *)
(* Without a database a socket answers in prose instead: the deltas of     *)
(* GroqStreamingProvider.stream_text, pulled and sent one after the other  *)
(* under one deadline.                                                     *)
(***************************************************************************)
EXTENDS Accounting, Tracer

CONSTANTS
    HttpTasks,  \* the tasks that serve one HTTP request
    MaxQuestions,  \* bound: questions asked over one socket
    MAX_CALLS,  \* bound: model calls and tool runs of one request of a task
    MaxDeltas   \* bound: deltas of one streamed answer

ASSUME ObservedAssumption ==
    /\ HttpTasks \subseteq Tasks
    /\ MaxQuestions \in Nat \ {0} /\ MAX_CALLS \in [Tasks -> Nat] /\ MaxDeltas \in Nat

VARIABLES
    database,   \* a database is configured, so the pipeline can run
    serving,    \* what a task does
    asked,      \* requests a task has begun
    work,       \* model calls and tool runs of its present request
    raising,    \* the LLMError on its way out of the present request, if any
    returned,   \* what the provider has returned, by model, and by prose models together
    runs        \* the counters of requests, handlers and tools

callVars == <<database, serving, asked, work, raising, returned, runs>>
vars == <<tracerVars, accountingVars, callVars>>

Body == Tasks \X Nat

Sum == [calls : Nat, input : Nat, output : Nat]

\* A model, or all the models whose names are prose.
Name == Model \cup {Omitted}

\* Whether a completion of a model is one of those a name stands for.
StandsFor(name, model) == name = model \/ (name = Omitted /\ model \in Prose)

\* assistant_requests_total, handler_runs_total, and tool_runs_total by outcome.
Run == {"request", "handler", "tool_ok", "tool_error"}

\* An LLMError: could a later attempt succeed, was it a rate limit that stopped
\* this one, and does its status say that a later attempt could succeed?
report(failure, code) ==
    [transient |-> failure \in Transient, limited |-> failure = "rate_limit",
     retryable |-> LLMErrorStatus[code] \in {429, 503, 504}]

ErrorReport == [transient : BOOLEAN, limited : BOOLEAN, retryable : BOOLEAN]

TypeOK ==
    /\ ledger \in [Model -> Totals]
    /\ \A metric \in Metric : DOMAIN counters[metric] \subseteq Label
    /\ dropped \subseteq Metric
    /\ spans \subseteq Span(Body)
    /\ \A t \in Tasks : \A i \in DOMAIN frames[t] : frames[t][i].handle \in SpanHandle(Body)
    /\ context \in [Tasks -> SpanHandle(Body) \cup {NoSpan}]
    /\ ids \in [Tasks -> Nat]
    /\ database \in BOOLEAN
    /\ serving \in [Tasks -> {"idle", "classifying", "handling", "handled",
                           "pulling", "sending", "failing", "gone"}]
    /\ asked \in [Tasks -> 0..MaxQuestions]
    /\ work \in [Tasks -> Nat]
    /\ raising \in [Tasks -> SUBSET ErrorReport]
    /\ returned \in [Name -> Sum]
    /\ runs \in [Run -> Nat]

Init ==
    /\ TracerInit
    /\ AccountingInit
    /\ database \in BOOLEAN
    /\ serving = [t \in Tasks |-> "idle"]
    /\ asked = [t \in Tasks |-> 0]
    /\ work = [t \in Tasks |-> 0]
    /\ raising = [t \in Tasks |-> {}]
    /\ returned = [name \in Name |-> [calls |-> 0, input |-> 0, output |-> 0]]
    /\ runs = [run \in Run |-> 0]

\* The innermost block a task is in.
Enclosing(t) == IF frames[t] = <<>> THEN "none" ELSE Top(t).handle.kind

\* The service classifies, hands the question to one handler, and is done.
InPipeline(t) == serving[t] \in {"classifying", "handling", "handled"}

\* A task that may take the next step of its request's code.
Running(t) ==
    /\ serving[t] \in {"classifying", "handling"}
    /\ raising[t] = {}
    /\ Enclosing(t) \in {"none", "request", "routing"}

\* metrics.increment, of a metric with few labels.
Count(run, happens) == runs' = [runs EXCEPT ![run] = IF happens THEN @ + 1 ELSE @]

-----------------------------------------------------------------------------
(* Requests. *)

\* answer_message opens its span and awaits the service; SessionAnswerer.answer
\* awaits the same service under no span.  An HTTP request has its own task, a
\* socket's task answers one question after the other.
Begin(t) ==
    /\ database
    /\ serving[t] = "idle"
    /\ asked[t] < IF t \in HttpTasks THEN 1 ELSE MaxQuestions
    /\ serving' = [serving EXCEPT ![t] = "classifying"]
    /\ asked' = [asked EXCEPT ![t] = @ + 1]
    /\ work' = [work EXCEPT ![t] = 0]
    /\ IF t \in HttpTasks
       THEN OpenSpan(t, "request", <<t, asked[t] + 1>>)
       ELSE UNCHANGED tracerVars
    /\ UNCHANGED <<accountingVars, database, raising, returned, runs>>

\* MUTANT: the span is closed where the reply is returned, not in a finally.
Finish_replied(t) ==
    /\ InPipeline(t)
    /\ raising[t] = {}
    /\ Enclosing(t) = IF t \in HttpTasks THEN "request" ELSE "none"
    /\ serving' = [serving EXCEPT ![t] = "idle"]
    /\ IF t \in HttpTasks THEN CloseSpan(t, "ok") ELSE UNCHANGED tracerVars
    /\ Count("request", t \in HttpTasks)
    /\ UNCHANGED <<accountingVars, database, asked, work, raising, returned>>

\* The pipeline returns or raises to answer_message, which closes its span, or
\* to the socket's answerer, which has none.
Finish(t) ==
    /\ InPipeline(t)
    /\ Enclosing(t) = IF t \in HttpTasks THEN "request" ELSE "none"
    /\ serving' = [serving EXCEPT ![t] = "idle"]
    /\ raising' = [raising EXCEPT ![t] = {}]
    /\ IF t \in HttpTasks
       THEN CloseSpan(t, IF raising[t] = {} THEN "ok" ELSE "error")
       ELSE UNCHANGED tracerVars
    /\ Count("request", t \in HttpTasks /\ raising[t] = {})
    /\ UNCHANGED <<accountingVars, database, asked, work, returned>>

-----------------------------------------------------------------------------
(* The wrappers. *)

\* TracedIntentHandler.handle, up to its await.
Handle(t) ==
    /\ Running(t)
    /\ serving[t] = "classifying"
    /\ serving' = [serving EXCEPT ![t] = "handling"]
    /\ OpenSpan(t, "routing", <<t, asked[t]>>)
    /\ UNCHANGED <<accountingVars, database, asked, work, raising, returned, runs>>

\* TracedIntentHandler.handle, when the handler returned or raised.
Handled(t) ==
    /\ Enclosing(t) = "routing"
    /\ CloseSpan(t, IF raising[t] = {} THEN "ok" ELSE "error")
    /\ Count("handler", raising[t] = {})
    /\ serving' = [serving EXCEPT ![t] = "handled"]
    /\ UNCHANGED <<accountingVars, database, asked, work, raising, returned>>

\* TracedTool.run, up to its await; only the agent's handler runs tools.
RunTool(t) ==
    /\ Running(t)
    /\ Enclosing(t) = "routing"
    /\ work[t] < MAX_CALLS[t]
    /\ work' = [work EXCEPT ![t] = @ + 1]
    /\ OpenSpan(t, "tool", <<t, asked[t]>>)
    /\ UNCHANGED <<accountingVars, database, serving, asked, raising, returned, runs>>

\* TracedTool.run, when the tool returned, raised, or was cancelled by the
\* executor's deadline, which is no Exception: the span is ok and nothing is
\* counted.  The executor around it turns every end into a result.
ToolReturns(t) ==
    /\ Enclosing(t) = "tool"
    /\ \/ CloseSpan(t, "ok") /\ Count("tool_ok", TRUE)
       \/ CloseSpan(t, "error") /\ Count("tool_error", TRUE)
       \/ CloseSpan(t, "ok") /\ UNCHANGED runs
    /\ UNCHANGED <<accountingVars, database, serving, asked, work, raising, returned>>

\* TracedLLMProvider.complete_structured, up to its await.
CallModel(t) ==
    /\ Running(t)
    /\ work[t] < MAX_CALLS[t]
    /\ work' = [work EXCEPT ![t] = @ + 1]
    /\ OpenSpan(t, "llm", <<t, asked[t]>>)
    /\ UNCHANGED <<accountingVars, database, serving, asked, raising, returned, runs>>

\* MUTANT: a call is accounted before it is known to have an answer.
Accounts_always(result) == "response" \in DOMAIN result

\* Whether the call is accounted: _account runs when the provider returned.
Accounts(result) == complete_structured(result).ok

\* A sum of completions, with one more.
plus(sum, usage) ==
    [calls |-> sum.calls + 1, input |-> sum.input + usage.input_tokens,
     output |-> sum.output + usage.output_tokens]

cause(result) == IF "raised" \in DOMAIN result THEN result.raised ELSE "answer"

\* TracedLLMProvider.complete_structured, when the provider returned or raised.
\* The agent's loop, under a handler, catches an LLMError; classification and
\* the knowledge base let it go on.
ModelReturns(t, result) ==
    /\ Enclosing(t) = "llm"
    /\ IF Accounts(result)
       THEN Account(result.response.model, result.response.usage)
       ELSE UNCHANGED accountingVars
    /\ LET outcome == complete_structured(result) IN
       IF outcome.ok
       THEN /\ CloseSpan(t, "ok")
            /\ returned' = [name \in Name |->
                 IF StandsFor(name, outcome.model)
                 THEN plus(returned[name], outcome.usage)
                 ELSE returned[name]]
            /\ UNCHANGED raising
       ELSE /\ CloseSpan(t, "error")
            /\ \/ raising' = [raising EXCEPT ![t] = {report(cause(result), outcome.code)}]
               \/ /\ serving[t] = "handling"
                  /\ UNCHANGED raising
            /\ UNCHANGED returned
    /\ UNCHANGED <<database, serving, asked, work, runs>>

-----------------------------------------------------------------------------
(* Prose, where there is no database: AnswerStreamer._stream_prose consuming *)
(* GroqStreamingProvider.stream_text in one task.                            *)

AskProse(t) ==
    /\ ~database
    /\ t \notin HttpTasks
    /\ serving[t] = "idle"
    /\ asked[t] < MaxQuestions
    /\ serving' = [serving EXCEPT ![t] = "pulling"]
    /\ asked' = [asked EXCEPT ![t] = @ + 1]
    /\ work' = [work EXCEPT ![t] = 0]
    /\ UNCHANGED <<tracerVars, accountingVars, database, raising, returned, runs>>

\* The generator's await on the SDK ends: a delta is handed to the streamer,
\* the stream is over, or it failed and an error frame is to say how.
Pull(t) ==
    /\ serving[t] = "pulling"
    /\ \/ /\ work[t] < MaxDeltas
          /\ work' = [work EXCEPT ![t] = @ + 1]
          /\ serving' = [serving EXCEPT ![t] = "sending"]
          /\ UNCHANGED raising
       \/ /\ serving' = [serving EXCEPT ![t] = "idle"]
          /\ UNCHANGED <<work, raising>>
       \/ \E f \in Failure :
          /\ serving' = [serving EXCEPT ![t] = "failing"]
          /\ raising' = [raising EXCEPT ![t] = {report(f, caught(streaming_clauses, f))}]
          /\ UNCHANGED work
    /\ UNCHANGED <<tracerVars, accountingVars, database, asked, returned, runs>>

\* The streamer's await on the socket ends.  The deadline belongs to the task,
\* not to the generator: passing here it cancels the streamer, which is no
\* LLMError, and the endpoint unwinds without a frame.
Sent(t) ==
    /\ serving[t] = "sending"
    /\ \E next \in {"pulling", "gone"} : serving' = [serving EXCEPT ![t] = next]
    /\ UNCHANGED <<tracerVars, accountingVars, database, asked, work, raising, returned, runs>>

\* The error frame is sent; by then the generator, and its deadline, are over.
Refused(t) ==
    /\ serving[t] = "failing"
    /\ serving' = [serving EXCEPT ![t] = "idle"]
    /\ raising' = [raising EXCEPT ![t] = {}]
    /\ UNCHANGED <<tracerVars, accountingVars, database, asked, work, returned, runs>>

-----------------------------------------------------------------------------

Returns(t) == \E result \in SdkResult : ModelReturns(t, result)

Step(t) ==
    \/ Finish(t) \/ Handled(t) \/ ToolReturns(t) \/ Returns(t)
    \/ Pull(t) \/ Sent(t) \/ Refused(t)

Next ==
    \E t \in Tasks :
        \/ Begin(t) \/ Handle(t) \/ RunTool(t) \/ CallModel(t) \/ AskProse(t)
        \/ Step(t)

Spec == Init /\ [][Next]_vars

\* Every await returns: the executor, the SDK call and the whole stream have a
\* deadline, and a handler does only that much work.
Fairness == \A t \in Tasks : WF_vars(Step(t))

FairSpec == Spec /\ Fairness

-----------------------------------------------------------------------------
(* Properties. *)

Recorded == spans \cup {to_span(h, "ok") : h \in Open}

\* The context is what the with-blocks say, however they ended: a task that is
\* in none has no current span.
ContextFollowsTheBlocks ==
    \A t \in Tasks :
        /\ context[t] = IF frames[t] = <<>> THEN NoSpan ELSE Top(t).handle
        /\ ~InPipeline(t) => frames[t] = <<>>

\* Spans are correlated as the requests are: two spans of one trace belong to
\* one request, all spans of an HTTP request are in one trace, a parent is a
\* span of the same trace, and the next question of a socket starts afresh.
TracesAreRequests ==
    /\ ContextFollowsTheBlocks
    /\ \A a, b \in Recorded :
        /\ a.trace_id = b.trace_id => a.body = b.body
        /\ a.body = b.body /\ a.body[1] \in HttpTasks => a.trace_id = b.trace_id
        /\ a.parent = b.span_id => a.trace_id = b.trace_id /\ a.kind # "request"

\* A series counts the completions its label stands for, or was never kept.
Counted(metric, field) ==
    \A l \in Label :
        IF l \in DOMAIN counters[metric]
        THEN counters[metric][l] = returned[l][field]
        ELSE returned[l].calls > 0 =>
                /\ Cardinality(DOMAIN counters[metric]) = MAX_SERIES
                /\ metric \in dropped

\* The ledger's money is right to half a microdollar for each rounded figure:
\* adding figures that were rounded one by one never drifts further.
CostsAreExactToTheRounding ==
    \A m \in DOMAIN Price :
        LET exact == returned[m].input * Price[m].input + returned[m].output * Price[m].output
            slack == 50 * 2 * returned[m].calls
        IN  /\ 100 * ledger[m].cost <= exact + slack
            /\ 100 * ledger[m].cost >= exact - slack

\* The spans of a kind that ended so.
Ended(kind, status) == Cardinality({s \in spans : s.kind = kind /\ s.status = status})

\* The counters agree with the trace, but for a tool the deadline cancelled.
RunsAgreeWithTheTrace ==
    /\ runs["request"] = Ended("request", "ok")
    /\ runs["handler"] = Ended("routing", "ok")
    /\ runs["tool_error"] = Ended("tool", "error")
    /\ runs["tool_ok"] <= Ended("tool", "ok")

\* Every completion is accounted once: the ledger and the counters add up to
\* what the provider returned, the money but for its rounding.  A metric keeps
\* to its cap, and a series is either counted from its first call on or, the
\* metric being full, never.  The counters of the runs agree with the spans.
CallsAreCountedOnce ==
    /\ \A m \in Model : \A field \in {"calls", "input", "output"} :
            ledger[m][field] = returned[m][field]
    /\ CostsAreExactToTheRounding
    /\ RunsAgreeWithTheTrace
    /\ Counted("llm_calls_total", "calls")
    /\ Counted("llm_input_tokens_total", "input")
    /\ Counted("llm_output_tokens_total", "output")
    /\ \A metric \in Metric : Cardinality(DOMAIN counters[metric]) <= MAX_SERIES

\* An LLMError tells its reader to try again (429, 503, 504) exactly when a
\* later attempt could succeed, although the exception classes overlap, with one
\* exception.  groq_streaming.py:4-7 says that the error translation of
\* groq_provider is reused, since "two copies that will disagree"; it is written
\* a second time, and the copies disagree on a rate limit: in the pipeline it is
\* an LLMRateLimitError (429), in a stream a plain LLMError (500, :82-86).
OnlyTransientFailuresAreRetryable ==
    \A t \in Tasks : \A error \in raising[t] :
        error.retryable <=> error.transient /\ (InPipeline(t) \/ ~error.limited)

\* Every request ends, and with it the spans it opened are recorded.
EveryRequestIsRecorded ==
    \A t \in Tasks : (serving[t] \notin {"idle", "gone"})
                        ~> (serving[t] \in {"idle", "gone"} /\ frames[t] = <<>>)

=============================================================================
