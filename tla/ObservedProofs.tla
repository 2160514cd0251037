--------------------------- MODULE ObservedProofs ---------------------------
(***************************************************************************)
(* Proofs about ObservedCalls: the spans, the ledger, the counters and the *)
(* errors, for any number of tasks, models, prices and series.             *)
(***************************************************************************)
EXTENDS ObservedCalls, FiniteSetTheorems, SequenceTheorems, TLAPS

-----------------------------------------------------------------------------
(* The inductive invariant. *)

\* What a task remembers of one with-block.
Frame == [handle : SpanHandle(Body), token : SpanHandle(Body) \cup {NoSpan}]

\* The types of each part's state, in full.
TracerType ==
    /\ context \in [Tasks -> SpanHandle(Body) \cup {NoSpan}]
    /\ frames \in [Tasks -> Seq(Frame)]
    /\ spans \subseteq Span(Body)
    /\ ids \in [Tasks -> Nat]

AccountingType ==
    /\ ledger \in [Model -> Totals]
    /\ counters = [metric \in Metric |-> counters[metric]]
    /\ \A metric \in Metric :
            /\ DOMAIN counters[metric] \subseteq Label
            /\ counters[metric] \in [DOMAIN counters[metric] -> Nat]
    /\ dropped \subseteq Metric

CallType ==
    /\ database \in BOOLEAN
    /\ serving \in [Tasks -> {"idle", "classifying", "handling", "handled",
                              "pulling", "sending", "failing", "gone"}]
    /\ asked \in [Tasks -> 0..MaxQuestions]
    /\ work \in [Tasks -> Nat]
    /\ raising \in [Tasks -> SUBSET ErrorReport]
    /\ returned \in [Name -> Sum]
    /\ runs \in [Run -> Nat]

ObservedTypeInv == TracerType /\ AccountingType /\ CallType

\* Where a task is in its code, the blocks it is in and its context belong
\* together.
BlocksOf(t) ==
    /\ context[t] = IF frames[t] = <<>> THEN NoSpan ELSE Top(t).handle
    /\ ~InPipeline(t) => frames[t] = <<>>
    /\ raising[t] # {} => InPipeline(t) \/ serving[t] = "failing"
    /\ InPipeline(t) /\ t \in HttpTasks => frames[t] # <<>>
    /\ \A i \in 1..Len(frames[t]) :
        /\ frames[t][i].handle.body = <<t, asked[t]>>
        /\ frames[t][i].handle.kind = "request" <=> i = 1 /\ t \in HttpTasks
        /\ frames[t][i].token = IF i = 1 THEN NoSpan ELSE frames[t][i - 1].handle

BlocksInv == \A t \in Tasks : BlocksOf(t)

\* Identifiers are a task's own, and were given out before now.
IdsInv ==
    \A a \in Recorded :
        LET owner == a.body[1] IN
        /\ a.trace_id[1] = owner /\ a.trace_id[2] <= ids[owner]
        /\ a.span_id[1] = owner /\ a.span_id[2] <= ids[owner]
        /\ a.parent # NoSpan => a.parent[1] = owner /\ a.parent[2] <= ids[owner]
        /\ a.body[2] <= asked[owner]

\* Two spans of which one knows the other.
PairsInv ==
    \A a, b \in Recorded :
        /\ a.span_id = b.span_id => a.trace_id = b.trace_id
        /\ a.trace_id = b.trace_id => a.body = b.body
        /\ a.body = b.body /\ a.body[1] \in HttpTasks => a.trace_id = b.trace_id
        /\ a.parent = b.span_id => a.trace_id = b.trace_id /\ a.kind # "request"

\* No two blocks, and no block and a recorded span, have the same identifier.
FreshInv ==
    /\ IsFiniteSet(spans)
    /\ \A t \in Tasks : \A i, j \in 1..Len(frames[t]) :
            i < j => frames[t][i].handle.span_id[2] < frames[t][j].handle.span_id[2]
    /\ \A t \in Tasks : \A i \in 1..Len(frames[t]) : \A s \in spans :
            s.span_id # frames[t][i].handle.span_id

\* A request's block has no parent.
RootInv == \A a \in Recorded : a.kind = "request" => a.parent = NoSpan

\* A name whose calls were not counted has no tokens either, and the series
\* that are kept are finitely many.
SeriesInv ==
    /\ \A metric \in Metric : IsFiniteSet(DOMAIN counters[metric])
    /\ \A name \in Name :
            returned[name].calls = 0 => returned[name].input = 0 /\ returned[name].output = 0

TraceInv ==
    /\ ObservedTypeInv /\ BlocksInv
    /\ IdsInv /\ PairsInv /\ RootInv /\ FreshInv

-----------------------------------------------------------------------------
(* The errors. *)

\* The least of a set of positions, however it is chosen.
LEMMA LeastIsChosen ==
    ASSUME NEW S, S \subseteq Int, NEW k \in S, \A j \in S : k <= j
    PROVE  (CHOOSE i \in S : \A j \in S : i <= j) = k
<1>1. \A i \in S : (\A j \in S : i <= j) => i = k
  OBVIOUS
<1>2. \E i \in S : \A j \in S : i <= j
  OBVIOUS
<1> DEFINE c == CHOOSE i \in S : \A j \in S : i <= j
<1>3. c \in S /\ \A j \in S : c <= j
  BY <1>2
<1> QED  BY <1>1, <1>3

\* The except clauses of the two providers, one by one.
LEMMA ClauseList ==
    /\ DOMAIN clauses = 1..9
    /\ DOMAIN streaming_clauses = 1..9
    /\ clauses[1] = clause("TimeoutError", "llm_timeout")
    /\ clauses[2] = clause("APITimeoutError", "llm_timeout")
    /\ clauses[3] = clause("RateLimitError", "llm_rate_limited")
    /\ clauses[4] = clause("AccessError", "llm_configuration_error")
    /\ clauses[5] = clause("RejectedError", "llm_request_error")
    /\ clauses[6] = clause("ServerStatus", "llm_unavailable")
    /\ clauses[7] = clause("APIStatusError", "llm_error")
    /\ clauses[8] = clause("APIConnectionError", "llm_unavailable")
    /\ clauses[9] = clause("APIError", "llm_error")
<1>1. DOMAIN clauses = 1..9
  BY DEF clauses
<1>2. DOMAIN streaming_clauses = 1..9
  BY <1>1 DEF streaming_clauses
<1> QED  BY <1>1, <1>2 DEF clauses

\* The first clause that names a class of the failure is the one that catches.
LEMMA FirstClauseCatches ==
    ASSUME NEW list, DOMAIN list = 1..9, NEW f, NEW k \in 1..9,
           list[k].class \in classes(f),
           \A j \in 1..9 : j < k => list[j].class \notin classes(f)
    PROVE  caught(list, f) = list[k].code
<1> DEFINE catches == {i \in DOMAIN list : list[i].class \in classes(f)}
<1>1. k \in catches /\ catches \subseteq Int /\ \A j \in catches : k <= j
  OBVIOUS
<1>2. (CHOOSE i \in catches : \A j \in catches : i <= j) = k
  <2> HIDE DEF catches
  <2> QED  BY <1>1, LeastIsChosen
<1> QED  BY <1>2 DEF caught

\* The position of the clause that catches a failure, on both lists: the
\* classes overlap, and a subclass comes before its base.
position(f) ==
    CASE f = "deadline" -> 1
      [] f = "attempt_timeout" -> 2
      [] f = "rate_limit" -> 3
      [] f \in {"authentication", "permission", "not_found"} -> 4
      [] f \in {"bad_request", "unprocessable"} -> 5
      [] f = "server" -> 6
      [] f = "conflict" -> 7
      [] f = "connection" -> 8
      [] f = "malformed" -> 9

\* A clause of the stream's list catches what the provider's catches, and has
\* its code but for a rate limit.
LEMMA StreamingClause ==
    ASSUME NEW i \in 1..9
    PROVE  /\ streaming_clauses[i].class = clauses[i].class
           /\ i = 3 => streaming_clauses[i].code = "llm_error"
           /\ i # 3 => streaming_clauses[i].code = clauses[i].code
<1>1. clauses[i].class = "RateLimitError" <=> i = 3
  BY ClauseList DEF clause
<1>2. streaming_clauses[i] = IF clauses[i].class = "RateLimitError"
                             THEN [clauses[i] EXCEPT !.code = "llm_error"]
                             ELSE clauses[i]
  BY ClauseList DEF streaming_clauses
<1>3. CASE i # 3
  BY <1>1, <1>2, <1>3
<1>4. CASE i = 3
  <2>1. clauses[i] = [class |-> "RateLimitError", code |-> "llm_rate_limited"]
    BY <1>4, ClauseList DEF clause
  <2>2. streaming_clauses[i] = [class |-> "RateLimitError", code |-> "llm_error"]
    BY <1>2, <2>1
  <2> QED  BY <1>4, <2>1, <2>2
<1> QED  BY <1>3, <1>4

\* The classes the clauses name, in order.
LEMMA ClauseClasses ==
    /\ clauses[1].class = "TimeoutError"
    /\ clauses[2].class = "APITimeoutError"
    /\ clauses[3].class = "RateLimitError"
    /\ clauses[4].class = "AccessError"
    /\ clauses[5].class = "RejectedError"
    /\ clauses[6].class = "ServerStatus"
    /\ clauses[7].class = "APIStatusError"
    /\ clauses[8].class = "APIConnectionError"
    /\ clauses[9].class = "APIError"
BY ClauseList DEF clause

\* The clause at a failure's position catches it, and none before it does.
LEMMA CaughtAtPosition ==
    ASSUME NEW f \in Failure
    PROVE  /\ position(f) \in 1..9
           /\ caught(clauses, f) = clauses[position(f)].code
           /\ caught(streaming_clauses, f) = streaming_clauses[position(f)].code
<1>1. /\ position(f) \in 1..9
      /\ clauses[position(f)].class \in classes(f)
      /\ \A j \in 1..9 : j < position(f) => clauses[j].class \notin classes(f)
  <2>1. CASE f = "deadline"
    <3>1. position(f) = 1
      BY <2>1 DEF position
    <3>2. classes(f) = {"TimeoutError"}
      BY <2>1 DEF classes
    <3> QED  BY <3>1, <3>2, ClauseClasses
  <2>2. CASE f = "attempt_timeout"
    <3>1. position(f) = 2
      BY <2>2 DEF position
    <3>2. classes(f) = {"APITimeoutError", "APIConnectionError", "APIError"}
      BY <2>2 DEF classes
    <3> QED  BY <3>1, <3>2, ClauseClasses
  <2>3. CASE f = "rate_limit"
    <3>1. position(f) = 3
      BY <2>3 DEF position
    <3>2. classes(f) = {"RateLimitError", "APIStatusError", "APIError"}
      BY <2>3 DEF classes
    <3> QED  BY <3>1, <3>2, ClauseClasses
  <2>4. CASE f = "authentication"
    <3>1. position(f) = 4
      BY <2>4 DEF position
    <3>2. classes(f) = {"AccessError", "APIStatusError", "APIError"}
      BY <2>4 DEF classes
    <3> QED  BY <3>1, <3>2, ClauseClasses
  <2>5. CASE f = "permission"
    <3>1. position(f) = 4
      BY <2>5 DEF position
    <3>2. classes(f) = {"AccessError", "APIStatusError", "APIError"}
      BY <2>5 DEF classes
    <3> QED  BY <3>1, <3>2, ClauseClasses
  <2>6. CASE f = "not_found"
    <3>1. position(f) = 4
      BY <2>6 DEF position
    <3>2. classes(f) = {"AccessError", "APIStatusError", "APIError"}
      BY <2>6 DEF classes
    <3> QED  BY <3>1, <3>2, ClauseClasses
  <2>7. CASE f = "bad_request"
    <3>1. position(f) = 5
      BY <2>7 DEF position
    <3>2. classes(f) = {"RejectedError", "APIStatusError", "APIError"}
      BY <2>7 DEF classes
    <3> QED  BY <3>1, <3>2, ClauseClasses
  <2>8. CASE f = "unprocessable"
    <3>1. position(f) = 5
      BY <2>8 DEF position
    <3>2. classes(f) = {"RejectedError", "APIStatusError", "APIError"}
      BY <2>8 DEF classes
    <3> QED  BY <3>1, <3>2, ClauseClasses
  <2>9. CASE f = "conflict"
    <3>1. position(f) = 7
      BY <2>9 DEF position
    <3>2. classes(f) = {"APIStatusError", "APIError"}
      BY <2>9 DEF classes
    <3> QED  BY <3>1, <3>2, ClauseClasses
  <2>10. CASE f = "server"
    <3>1. position(f) = 6
      BY <2>10 DEF position
    <3>2. classes(f) = {"APIStatusError", "ServerStatus", "APIError"}
      BY <2>10 DEF classes
    <3> QED  BY <3>1, <3>2, ClauseClasses
  <2>11. CASE f = "connection"
    <3>1. position(f) = 8
      BY <2>11 DEF position
    <3>2. classes(f) = {"APIConnectionError", "APIError"}
      BY <2>11 DEF classes
    <3> QED  BY <3>1, <3>2, ClauseClasses
  <2>12. CASE f = "malformed"
    <3>1. position(f) = 9
      BY <2>12 DEF position
    <3>2. classes(f) = {"APIError"}
      BY <2>12 DEF classes
    <3> QED  BY <3>1, <3>2, ClauseClasses
  <2> QED  BY <2>1, <2>2, <2>3, <2>4, <2>5, <2>6, <2>7, <2>8, <2>9, <2>10, <2>11, <2>12 DEF Failure
<1>2. \A j \in 1..9 : streaming_clauses[j].class = clauses[j].class
  BY StreamingClause
<1>3. caught(clauses, f) = clauses[position(f)].code
  BY <1>1, ClauseList, FirstClauseCatches
<1>4. caught(streaming_clauses, f) = streaming_clauses[position(f)].code
  BY <1>1, <1>2, ClauseList, FirstClauseCatches
<1> QED  BY <1>1, <1>3, <1>4

\* What a failure becomes on either path, as the status says it: on the
\* pipeline's path the caller is told to retry exactly the transient ones, and
\* on the stream's all of them but a rate limit.
LEMMA StatusOfAFailure ==
    ASSUME NEW f \in Failure
    PROVE  /\ LLMErrorStatus[caught(clauses, f)] \in {429, 503, 504} <=> f \in Transient
           /\ LLMErrorStatus[caught(streaming_clauses, f)] \in {429, 503, 504}
                  <=> f \in Transient /\ f # "rate_limit"
<1>1. /\ LLMErrorStatus["llm_error"] = 500 /\ LLMErrorStatus["llm_timeout"] = 504
      /\ LLMErrorStatus["llm_rate_limited"] = 429 /\ LLMErrorStatus["llm_unavailable"] = 503
      /\ LLMErrorStatus["llm_configuration_error"] = 500
      /\ LLMErrorStatus["llm_request_error"] = 500
  BY DEF LLMErrorStatus
<1>2. CASE f = "deadline"
  <2>1. position(f) = 1
    BY <1>2 DEF position
  <2>2. clauses[1].code = "llm_timeout"
    BY ClauseList DEF clause
  <2>3. streaming_clauses[1].code = "llm_timeout"
    BY <2>2, StreamingClause
  <2>4. caught(clauses, f) = "llm_timeout" /\ caught(streaming_clauses, f) = "llm_timeout"
    BY <2>1, <2>2, <2>3, CaughtAtPosition
  <2> QED  BY <1>1, <1>2, <2>4 DEF Transient
<1>3. CASE f = "attempt_timeout"
  <2>1. position(f) = 2
    BY <1>3 DEF position
  <2>2. clauses[2].code = "llm_timeout"
    BY ClauseList DEF clause
  <2>3. streaming_clauses[2].code = "llm_timeout"
    BY <2>2, StreamingClause
  <2>4. caught(clauses, f) = "llm_timeout" /\ caught(streaming_clauses, f) = "llm_timeout"
    BY <2>1, <2>2, <2>3, CaughtAtPosition
  <2> QED  BY <1>1, <1>3, <2>4 DEF Transient
<1>4. CASE f = "rate_limit"
  <2>1. position(f) = 3
    BY <1>4 DEF position
  <2>2. clauses[3].code = "llm_rate_limited"
    BY ClauseList DEF clause
  <2>3. streaming_clauses[3].code = "llm_error"
    BY <2>2, StreamingClause
  <2>4. caught(clauses, f) = "llm_rate_limited" /\ caught(streaming_clauses, f) = "llm_error"
    BY <2>1, <2>2, <2>3, CaughtAtPosition
  <2> QED  BY <1>1, <1>4, <2>4 DEF Transient
<1>5. CASE f = "authentication"
  <2>1. position(f) = 4
    BY <1>5 DEF position
  <2>2. clauses[4].code = "llm_configuration_error"
    BY ClauseList DEF clause
  <2>3. streaming_clauses[4].code = "llm_configuration_error"
    BY <2>2, StreamingClause
  <2>4. caught(clauses, f) = "llm_configuration_error" /\ caught(streaming_clauses, f) = "llm_configuration_error"
    BY <2>1, <2>2, <2>3, CaughtAtPosition
  <2> QED  BY <1>1, <1>5, <2>4 DEF Transient
<1>6. CASE f = "permission"
  <2>1. position(f) = 4
    BY <1>6 DEF position
  <2>2. clauses[4].code = "llm_configuration_error"
    BY ClauseList DEF clause
  <2>3. streaming_clauses[4].code = "llm_configuration_error"
    BY <2>2, StreamingClause
  <2>4. caught(clauses, f) = "llm_configuration_error" /\ caught(streaming_clauses, f) = "llm_configuration_error"
    BY <2>1, <2>2, <2>3, CaughtAtPosition
  <2> QED  BY <1>1, <1>6, <2>4 DEF Transient
<1>7. CASE f = "not_found"
  <2>1. position(f) = 4
    BY <1>7 DEF position
  <2>2. clauses[4].code = "llm_configuration_error"
    BY ClauseList DEF clause
  <2>3. streaming_clauses[4].code = "llm_configuration_error"
    BY <2>2, StreamingClause
  <2>4. caught(clauses, f) = "llm_configuration_error" /\ caught(streaming_clauses, f) = "llm_configuration_error"
    BY <2>1, <2>2, <2>3, CaughtAtPosition
  <2> QED  BY <1>1, <1>7, <2>4 DEF Transient
<1>8. CASE f = "bad_request"
  <2>1. position(f) = 5
    BY <1>8 DEF position
  <2>2. clauses[5].code = "llm_request_error"
    BY ClauseList DEF clause
  <2>3. streaming_clauses[5].code = "llm_request_error"
    BY <2>2, StreamingClause
  <2>4. caught(clauses, f) = "llm_request_error" /\ caught(streaming_clauses, f) = "llm_request_error"
    BY <2>1, <2>2, <2>3, CaughtAtPosition
  <2> QED  BY <1>1, <1>8, <2>4 DEF Transient
<1>9. CASE f = "unprocessable"
  <2>1. position(f) = 5
    BY <1>9 DEF position
  <2>2. clauses[5].code = "llm_request_error"
    BY ClauseList DEF clause
  <2>3. streaming_clauses[5].code = "llm_request_error"
    BY <2>2, StreamingClause
  <2>4. caught(clauses, f) = "llm_request_error" /\ caught(streaming_clauses, f) = "llm_request_error"
    BY <2>1, <2>2, <2>3, CaughtAtPosition
  <2> QED  BY <1>1, <1>9, <2>4 DEF Transient
<1>10. CASE f = "conflict"
  <2>1. position(f) = 7
    BY <1>10 DEF position
  <2>2. clauses[7].code = "llm_error"
    BY ClauseList DEF clause
  <2>3. streaming_clauses[7].code = "llm_error"
    BY <2>2, StreamingClause
  <2>4. caught(clauses, f) = "llm_error" /\ caught(streaming_clauses, f) = "llm_error"
    BY <2>1, <2>2, <2>3, CaughtAtPosition
  <2> QED  BY <1>1, <1>10, <2>4 DEF Transient
<1>11. CASE f = "server"
  <2>1. position(f) = 6
    BY <1>11 DEF position
  <2>2. clauses[6].code = "llm_unavailable"
    BY ClauseList DEF clause
  <2>3. streaming_clauses[6].code = "llm_unavailable"
    BY <2>2, StreamingClause
  <2>4. caught(clauses, f) = "llm_unavailable" /\ caught(streaming_clauses, f) = "llm_unavailable"
    BY <2>1, <2>2, <2>3, CaughtAtPosition
  <2> QED  BY <1>1, <1>11, <2>4 DEF Transient
<1>12. CASE f = "connection"
  <2>1. position(f) = 8
    BY <1>12 DEF position
  <2>2. clauses[8].code = "llm_unavailable"
    BY ClauseList DEF clause
  <2>3. streaming_clauses[8].code = "llm_unavailable"
    BY <2>2, StreamingClause
  <2>4. caught(clauses, f) = "llm_unavailable" /\ caught(streaming_clauses, f) = "llm_unavailable"
    BY <2>1, <2>2, <2>3, CaughtAtPosition
  <2> QED  BY <1>1, <1>12, <2>4 DEF Transient
<1>13. CASE f = "malformed"
  <2>1. position(f) = 9
    BY <1>13 DEF position
  <2>2. clauses[9].code = "llm_error"
    BY ClauseList DEF clause
  <2>3. streaming_clauses[9].code = "llm_error"
    BY <2>2, StreamingClause
  <2>4. caught(clauses, f) = "llm_error" /\ caught(streaming_clauses, f) = "llm_error"
    BY <2>1, <2>2, <2>3, CaughtAtPosition
  <2> QED  BY <1>1, <1>13, <2>4 DEF Transient
<1> QED  BY <1>2, <1>3, <1>4, <1>5, <1>6, <1>7, <1>8, <1>9, <1>10, <1>11, <1>12, <1>13 DEF Failure

-----------------------------------------------------------------------------
(* Types. *)

\* The full types imply the type invariant the run checks.
LEMMA TypesAreTypeOK ==
    ASSUME ObservedTypeInv PROVE TypeOK
<1>1. ASSUME NEW t \in Tasks, NEW i \in DOMAIN frames[t]
      PROVE  frames[t][i].handle \in SpanHandle(Body)
  <2>1. frames[t] \in Seq(Frame)
    BY DEF ObservedTypeInv, TracerType
  <2>2. frames[t][i] \in Frame
    BY <2>1
  <2> QED  BY <2>2 DEF Frame
<1> QED  BY <1>1 DEF ObservedTypeInv, TracerType, AccountingType, CallType, TypeOK

\* A new handle is a handle, and no handle is None.
LEMMA HandleType ==
    ASSUME ObservedTypeInv, NEW t \in Tasks, NEW kind \in SpanKind, NEW body \in Body
    PROVE  handle_under(t, context[t], kind, body) \in SpanHandle(Body)
<1>1. context[t] \in SpanHandle(Body) \cup {NoSpan} /\ ids[t] \in Nat
  BY DEF ObservedTypeInv, TracerType
<1>2. <<t, ids[t] + 1>> \in Id /\ <<t, ids[t] + 2>> \in Id
  BY <1>1 DEF Id
<1>3. CASE context[t] = NoSpan
  BY <1>2, <1>3 DEF handle_under, SpanHandle
<1>4. CASE context[t] # NoSpan
  <2>1. context[t].trace_id \in Id /\ context[t].span_id \in Id
    BY <1>1, <1>4 DEF SpanHandle
  <2> QED  BY <1>2, <1>4, <2>1 DEF handle_under, SpanHandle
<1> QED  BY <1>3, <1>4

LEMMA HandleIsNotNone == NoSpan \notin SpanHandle(Body)
BY NoSpanAssumption DEF Body

\* Opening a span keeps the tracer's types.
LEMMA OpenKeepsTypes ==
    ASSUME ObservedTypeInv, NEW t \in Tasks, NEW kind \in SpanKind, NEW body \in Body,
           OpenSpan(t, kind, body)
    PROVE  TracerType'
<1>1. PICK h \in SpanHandle(Body) : h = handle_under(t, context[t], kind, body)
  BY HandleType
<1>2. [handle |-> h, token |-> context[t]] \in Frame
  BY DEF Frame, ObservedTypeInv, TracerType
<1>3. frames' = [frames EXCEPT ![t] = Append(@, [handle |-> h, token |-> context[t]])]
  BY <1>1 DEF OpenSpan, inherited
<1>4. frames[t] \in Seq(Frame)
  BY DEF ObservedTypeInv, TracerType
<1>5. Append(frames[t], [handle |-> h, token |-> context[t]]) \in Seq(Frame)
  BY <1>2, <1>4
<1>6. frames' \in [Tasks -> Seq(Frame)]
  BY <1>3, <1>5 DEF ObservedTypeInv, TracerType
<1>7. context' = [context EXCEPT ![t] = h]
  BY <1>1 DEF OpenSpan, inherited
<1> QED  BY <1>6, <1>7 DEF OpenSpan, inherited, ObservedTypeInv, TracerType

\* The innermost block of a task that is in one.
LEMMA TopType ==
    ASSUME ObservedTypeInv, NEW t \in Tasks, frames[t] # <<>>
    PROVE  /\ Top(t) \in Frame
           /\ Top(t).handle \in SpanHandle(Body)
           /\ Top(t).token \in SpanHandle(Body) \cup {NoSpan}
           /\ Len(frames[t]) \in Nat \ {0}
<1>1. frames[t] \in Seq(Frame)
  BY DEF ObservedTypeInv, TracerType
<1>2. Len(frames[t]) \in Nat /\ Len(frames[t]) # 0
  BY <1>1, EmptySeq
<1>3. frames[t][Len(frames[t])] \in Frame
  BY <1>1, <1>2
<1> QED  BY <1>2, <1>3 DEF Top, Frame

\* A recorded span is a span.
LEMMA SpanType ==
    ASSUME NEW h \in SpanHandle(Body), NEW status \in SpanStatus
    PROVE  to_span(h, status) \in Span(Body)
BY DEF to_span, SpanHandle, Span

\* Closing a span keeps the tracer's types.
LEMMA CloseKeepsTypes ==
    ASSUME ObservedTypeInv, NEW t \in Tasks, NEW status \in SpanStatus, CloseSpan(t, status)
    PROVE  TracerType'
<1>1. frames[t] # <<>>
  BY DEF CloseSpan
<1>2. Top(t).token \in SpanHandle(Body) \cup {NoSpan} /\ to_span(Top(t).handle, status) \in Span(Body)
  BY <1>1, TopType, SpanType
<1>3. frames[t] \in Seq(Frame) /\ Len(frames[t]) \in Nat \ {0}
  BY <1>1, TopType DEF ObservedTypeInv, TracerType
<1>4. SubSeq(frames[t], 1, Len(frames[t]) - 1) \in Seq(Frame)
  BY <1>3, SubSeqProperties
<1>5. frames' \in [Tasks -> Seq(Frame)]
  BY <1>4 DEF CloseSpan, ObservedTypeInv, TracerType
<1> QED  BY <1>2, <1>5 DEF CloseSpan, restored, ObservedTypeInv, TracerType

\* What a step of the SDK hands over when it is a completion.
LEMMA CompletionType ==
    ASSUME NEW result \in SdkResult, complete_structured(result).ok
    PROVE  /\ complete_structured(result).model = result.response.model
           /\ complete_structured(result).usage = result.response.usage
           /\ result.response.model \in Model
           /\ result.response.usage \in LLMUsage
           /\ result.response.usage.input_tokens \in Nat
           /\ result.response.usage.output_tokens \in Nat
<1>1. "raised" \notin DOMAIN result
  BY DEF complete_structured, failed
<1>2. result \in [response : Response]
  BY <1>1 DEF SdkResult
<1>3. result.response \in Response
  BY <1>2
<1>4. /\ result.response.model \in Model /\ result.response.usage \in LLMUsage
  BY <1>3 DEF Response
<1>5. result.response.content = "valid"
  BY <1>1 DEF complete_structured, failed
<1>6. complete_structured(result) = completion(result.response.model, result.response.usage)
  BY <1>1, <1>5 DEF complete_structured
<1> QED  BY <1>4, <1>6, UsageAssumption DEF completion

\* A label is a label.
LEMMA LabelType ==
    ASSUME NEW m \in Model PROVE safe_value(m) \in Label
BY DEF safe_value, Label

\* Rounding a price, half up: a natural number, off by at most a half.
LEMMA Rounded ==
    ASSUME NEW n \in Nat
    PROVE  quantize(n) \in Nat /\ 100 * quantize(n) <= n + 50 /\ 100 * quantize(n) >= n - 49
BY DEF quantize

LEMMA EstimateType ==
    ASSUME NEW m \in Model, NEW usage, usage.input_tokens \in Nat, usage.output_tokens \in Nat
    PROVE  estimate_cost(m, usage) \in Totals
<1>1. CASE m \in DOMAIN Price
  <2>1. Price[m].input \in Nat /\ Price[m].output \in Nat
    BY <1>1, AccountingAssumption
  <2>2. usage.input_tokens * Price[m].input \in Nat /\ usage.output_tokens * Price[m].output \in Nat
    BY <2>1
  <2>3. /\ cost_of(usage.input_tokens, Price[m].input) \in Nat
        /\ cost_of(usage.output_tokens, Price[m].output) \in Nat
    BY <2>2, Rounded DEF cost_of
  <2> QED  BY <1>1, <2>3 DEF estimate_cost, Totals
<1>2. CASE m \notin DOMAIN Price
  BY <1>2 DEF estimate_cost, Totals
<1> QED  BY <1>1, <1>2

\* Adding to the ledger adds every field.
LEMMA AddedFields ==
    ASSUME NEW totals \in Totals, NEW estimate \in Totals
    PROVE  added(totals, estimate) =
              [calls |-> totals.calls + estimate.calls, input |-> totals.input + estimate.input,
               output |-> totals.output + estimate.output, cost |-> totals.cost + estimate.cost]
BY DEF added, Totals

LEMMA AddedType ==
    ASSUME NEW totals \in Totals, NEW estimate \in Totals
    PROVE  added(totals, estimate) \in Totals
BY AddedFields DEF Totals

\* Counting keeps the series of a metric a function from labels to numbers.
LEMMA IncrementType ==
    ASSUME NEW store, store \in [DOMAIN store -> Nat], DOMAIN store \subseteq Label,
           NEW label \in Label, NEW by \in Nat
    PROVE  LET new == increment(store, label, by) IN
           /\ DOMAIN new = IF Tracked(store, label) THEN DOMAIN store \cup {label}
                           ELSE DOMAIN store
           /\ new \in [DOMAIN new -> Nat]
           /\ DOMAIN new \subseteq Label
<1>1. CASE ~Tracked(store, label)
  BY <1>1 DEF increment
<1>2. CASE Tracked(store, label)
  BY <1>2 DEF increment
<1> QED  BY <1>1, <1>2

\* What Account makes of one metric's series.
CountedBy(metric, usage) ==
    CASE metric = "llm_calls_total" -> 1
      [] metric = "llm_input_tokens_total" -> usage.input_tokens
      [] metric = "llm_output_tokens_total" -> usage.output_tokens

LEMMA AccountCounters ==
    ASSUME AccountingType, NEW model, NEW usage, Account(model, usage)
    PROVE  counters' = [metric \in Metric |->
              increment(counters[metric], safe_value(model), CountedBy(metric, usage))]
<1>1. DOMAIN counters = Metric
  BY DEF AccountingType
<1>2. CountedBy("llm_calls_total", usage) = 1
      /\ CountedBy("llm_input_tokens_total", usage) = usage.input_tokens
      /\ CountedBy("llm_output_tokens_total", usage) = usage.output_tokens
  BY DEF CountedBy
<1> QED  BY <1>1, <1>2 DEF Account, Metric

LEMMA AccountKeepsTypes ==
    ASSUME ObservedTypeInv, NEW m \in Model, NEW usage,
           usage.input_tokens \in Nat, usage.output_tokens \in Nat, Account(m, usage)
    PROVE  AccountingType'
<1> USE DEF ObservedTypeInv
<1>1. ledger' \in [Model -> Totals]
  <2>1. ledger[m] \in Totals
    BY DEF AccountingType
  <2>2. added(ledger[m], estimate_cost(m, usage)) \in Totals
    BY <2>1, EstimateType, AddedType
  <2> QED  BY <2>2 DEF Account, AccountingType
<1>2. \A metric \in Metric : CountedBy(metric, usage) \in Nat
  BY DEF CountedBy, Metric
<1>3. counters' = [metric \in Metric |->
              increment(counters[metric], safe_value(m), CountedBy(metric, usage))]
  BY AccountCounters
<1>4. ASSUME NEW metric \in Metric
      PROVE  /\ DOMAIN counters'[metric] \subseteq Label
             /\ counters'[metric] \in [DOMAIN counters'[metric] -> Nat]
  <2>1. counters'[metric] = increment(counters[metric], safe_value(m), CountedBy(metric, usage))
    BY <1>3
  <2>2. counters[metric] \in [DOMAIN counters[metric] -> Nat] /\ DOMAIN counters[metric] \subseteq Label
    BY DEF AccountingType
  <2>3. CountedBy(metric, usage) \in Nat /\ safe_value(m) \in Label
    BY <1>2, LabelType
  <2> DEFINE new == increment(counters[metric], safe_value(m), CountedBy(metric, usage))
  <2>4. new \in [DOMAIN new -> Nat] /\ DOMAIN new \subseteq Label
    BY <2>2, <2>3, IncrementType
  <2> QED  BY <2>1, <2>4
<1>5. counters' = [metric \in Metric |-> counters'[metric]]
  BY <1>3
<1>6. dropped' \subseteq Metric
  BY DEF Account, AccountingType
<1> QED  BY <1>1, <1>4, <1>5, <1>6 DEF AccountingType

\* A counter of runs goes up by one or stays.
LEMMA CountType ==
    ASSUME CallType, NEW run \in Run, NEW happens, Count(run, happens)
    PROVE  runs' \in [Run -> Nat]
BY DEF CallType, Count

\* The tracer's types when a step leaves the tracer alone, and so on.
LEMMA UnchangedTypes ==
    ASSUME ObservedTypeInv
    PROVE  /\ UNCHANGED tracerVars => TracerType'
           /\ UNCHANGED accountingVars => AccountingType'
BY DEF ObservedTypeInv, tracerVars, accountingVars, TracerType, AccountingType

\* Every step keeps the types.
LEMMA TypesStep ==
    ASSUME ObservedTypeInv, [Next]_vars
    PROVE  ObservedTypeInv'
<1>b. \A t \in Tasks : asked[t] \in Nat /\ <<t, asked[t]>> \in Body /\ <<t, asked[t] + 1>> \in Body
  BY DEF ObservedTypeInv, CallType, Body
<1>k. {"request", "routing", "tool", "llm"} = SpanKind /\ {"ok", "error"} = SpanStatus
  BY DEF SpanKind, SpanStatus
<1>1. ASSUME NEW t \in Tasks, Begin(t) PROVE ObservedTypeInv'
  <2>1. TracerType'
    <3>1. CASE t \in HttpTasks
      BY <1>1, <1>b, <1>k, <3>1, OpenKeepsTypes DEF Begin
    <3>2. CASE t \notin HttpTasks
      BY <1>1, <3>2, UnchangedTypes DEF Begin
    <3> QED  BY <3>1, <3>2
  <2>2. asked[t] + 1 \in 0..MaxQuestions
    BY <1>1, ObservedAssumption DEF Begin, ObservedTypeInv, CallType
  <2>3. CallType'
    BY <1>1, <2>2 DEF Begin, ObservedTypeInv, CallType
  <2> QED  BY <1>1, <2>1, <2>3, UnchangedTypes DEF Begin, ObservedTypeInv
<1>2. ASSUME NEW t \in Tasks, Finish(t) PROVE ObservedTypeInv'
  <2>1. TracerType'
    <3>1. CASE t \in HttpTasks
      BY <1>2, <1>k, <3>1, CloseKeepsTypes DEF Finish
    <3>2. CASE t \notin HttpTasks
      BY <1>2, <3>2, UnchangedTypes DEF Finish
    <3> QED  BY <3>1, <3>2
  <2>2. runs' \in [Run -> Nat]
    BY <1>2, CountType DEF Finish, ObservedTypeInv, Run
  <2>3. CallType'
    BY <1>2, <2>2 DEF Finish, ObservedTypeInv, CallType
  <2> QED  BY <1>2, <2>1, <2>3, UnchangedTypes DEF Finish, ObservedTypeInv
<1>3. ASSUME NEW t \in Tasks, Handle(t) PROVE ObservedTypeInv'
  <2>1. TracerType'
    BY <1>3, <1>b, <1>k, OpenKeepsTypes DEF Handle
  <2>2. CallType'
    BY <1>3 DEF Handle, ObservedTypeInv, CallType
  <2> QED  BY <1>3, <2>1, <2>2, UnchangedTypes DEF Handle, ObservedTypeInv
<1>4. ASSUME NEW t \in Tasks, Handled(t) PROVE ObservedTypeInv'
  <2>1. TracerType'
    BY <1>4, <1>k, CloseKeepsTypes DEF Handled
  <2>2. runs' \in [Run -> Nat]
    BY <1>4, CountType DEF Handled, ObservedTypeInv, Run
  <2>3. CallType'
    BY <1>4, <2>2 DEF Handled, ObservedTypeInv, CallType
  <2> QED  BY <1>4, <2>1, <2>3, UnchangedTypes DEF Handled, ObservedTypeInv
<1>5. ASSUME NEW t \in Tasks, RunTool(t) PROVE ObservedTypeInv'
  <2>1. TracerType'
    BY <1>5, <1>b, <1>k, OpenKeepsTypes DEF RunTool
  <2>2. CallType'
    BY <1>5 DEF RunTool, ObservedTypeInv, CallType
  <2> QED  BY <1>5, <2>1, <2>2, UnchangedTypes DEF RunTool, ObservedTypeInv
<1>6. ASSUME NEW t \in Tasks, ToolReturns(t) PROVE ObservedTypeInv'
  <2>1. TracerType'
    BY <1>6, <1>k, CloseKeepsTypes DEF ToolReturns
  <2>2. runs' \in [Run -> Nat]
    BY <1>6, CountType DEF ToolReturns, ObservedTypeInv, Run, CallType
  <2>3. CallType'
    BY <1>6, <2>2 DEF ToolReturns, ObservedTypeInv, CallType
  <2> QED  BY <1>6, <2>1, <2>3, UnchangedTypes DEF ToolReturns, ObservedTypeInv
<1>7. ASSUME NEW t \in Tasks, CallModel(t) PROVE ObservedTypeInv'
  <2>1. TracerType'
    BY <1>7, <1>b, <1>k, OpenKeepsTypes DEF CallModel
  <2>2. CallType'
    BY <1>7 DEF CallModel, ObservedTypeInv, CallType
  <2> QED  BY <1>7, <2>1, <2>2, UnchangedTypes DEF CallModel, ObservedTypeInv
<1>8. ASSUME NEW t \in Tasks, NEW result \in SdkResult, ModelReturns(t, result)
      PROVE  ObservedTypeInv'
  <2>1. TracerType'
    BY <1>8, <1>k, CloseKeepsTypes DEF ModelReturns
  <2>2. AccountingType'
    <3>1. CASE Accounts(result)
      BY <1>8, <3>1, CompletionType, AccountKeepsTypes DEF ModelReturns, Accounts
    <3>2. CASE ~Accounts(result)
      BY <1>8, <3>2, UnchangedTypes DEF ModelReturns
    <3> QED  BY <3>1, <3>2
  <2>3. raising' \in [Tasks -> SUBSET ErrorReport]
    <3>1. report(cause(result), complete_structured(result).code) \in ErrorReport
      BY DEF report, ErrorReport
    <3> QED  BY <1>8, <3>1 DEF ModelReturns, ObservedTypeInv, CallType
  <2>4. returned' \in [Name -> Sum]
    <3>1. CASE complete_structured(result).ok
      <4>1. PICK usage : /\ usage = complete_structured(result).usage
                         /\ usage.input_tokens \in Nat /\ usage.output_tokens \in Nat
        BY <3>1, CompletionType
      <4>2. ASSUME NEW sum \in Sum PROVE plus(sum, usage) \in Sum
        BY <4>1 DEF Sum, plus
      <4>3. returned' = [name \in Name |->
                 IF StandsFor(name, complete_structured(result).model)
                 THEN plus(returned[name], usage) ELSE returned[name]]
        BY <1>8, <3>1, <4>1 DEF ModelReturns
      <4>4. \A name \in Name : returned[name] \in Sum
        BY DEF ObservedTypeInv, CallType
      <4> QED  BY <4>2, <4>3, <4>4
    <3>2. CASE ~complete_structured(result).ok
      BY <1>8, <3>2 DEF ModelReturns, ObservedTypeInv, CallType
    <3> QED  BY <3>1, <3>2
  <2>5. CallType'
    BY <1>8, <2>3, <2>4 DEF ModelReturns, ObservedTypeInv, CallType
  <2> QED  BY <2>1, <2>2, <2>5 DEF ObservedTypeInv
<1>9. ASSUME NEW t \in Tasks, AskProse(t) PROVE ObservedTypeInv'
  <2>1. asked[t] + 1 \in 0..MaxQuestions
    BY <1>9, ObservedAssumption DEF AskProse, ObservedTypeInv, CallType
  <2>2. CallType'
    BY <1>9, <2>1 DEF AskProse, ObservedTypeInv, CallType
  <2> QED  BY <1>9, <2>2, UnchangedTypes DEF AskProse, ObservedTypeInv
<1>10. ASSUME NEW t \in Tasks, Pull(t) PROVE ObservedTypeInv'
  <2>1. \A f, c : report(f, c) \in ErrorReport
    BY DEF report, ErrorReport
  <2>2. raising' \in [Tasks -> SUBSET ErrorReport]
    BY <1>10, <2>1 DEF Pull, ObservedTypeInv, CallType
  <2>3. CallType'
    BY <1>10, <2>2 DEF Pull, ObservedTypeInv, CallType
  <2> QED  BY <1>10, <2>3, UnchangedTypes DEF Pull, ObservedTypeInv
<1>11. ASSUME NEW t \in Tasks, Sent(t) PROVE ObservedTypeInv'
  BY <1>11, UnchangedTypes DEF Sent, ObservedTypeInv, CallType
<1>12. ASSUME NEW t \in Tasks, Refused(t) PROVE ObservedTypeInv'
  BY <1>12, UnchangedTypes DEF Refused, ObservedTypeInv, CallType
<1>13. CASE UNCHANGED vars
  BY <1>13, UnchangedTypes DEF vars, callVars, ObservedTypeInv, CallType
<1> QED
  BY <1>1, <1>2, <1>3, <1>4, <1>5, <1>6, <1>7, <1>8, <1>9, <1>10, <1>11, <1>12, <1>13
  DEF Next, Step, Returns

-----------------------------------------------------------------------------
(* The blocks of a task. *)

\* The step has put a task in one more block, with handle h.
Opened(t, h) ==
    /\ context' = [context EXCEPT ![t] = h]
    /\ \A u \in Tasks : u # t => frames'[u] = frames[u]
    /\ frames'[t] \in Seq(Frame)
    /\ Len(frames'[t]) = Len(frames[t]) + 1
    /\ \A i \in 1..Len(frames[t]) : frames'[t][i] = frames[t][i]
    /\ frames'[t][Len(frames[t]) + 1] = [handle |-> h, token |-> context[t]]

\* Opening a span, block by block.
LEMMA OpenFacts ==
    ASSUME ObservedTypeInv, NEW t \in Tasks, NEW kind \in SpanKind, NEW body \in Body,
           OpenSpan(t, kind, body)
    PROVE  \E h \in SpanHandle(Body) :
              /\ h = handle_under(t, context[t], kind, body)
              /\ h.kind = kind /\ h.body = body
              /\ Opened(t, h)
<1>1. PICK h \in SpanHandle(Body) : h = handle_under(t, context[t], kind, body)
  BY HandleType
<1>2. h.kind = kind /\ h.body = body
  BY <1>1 DEF handle_under
<1>3. PICK f : f = [handle |-> h, token |-> context[t]]
  OBVIOUS
<1>4. frames' = [frames EXCEPT ![t] = Append(@, f)] /\ context' = [context EXCEPT ![t] = h]
  BY <1>1, <1>3 DEF OpenSpan, inherited
<1>5. f \in Frame
  BY <1>3 DEF Frame, ObservedTypeInv, TracerType
<1>6. frames \in [Tasks -> Seq(Frame)] /\ frames[t] \in Seq(Frame)
  BY DEF ObservedTypeInv, TracerType
<1>7. frames'[t] = Append(frames[t], f) /\ \A u \in Tasks : u # t => frames'[u] = frames[u]
  BY <1>4, <1>6
<1>8. /\ Append(frames[t], f) \in Seq(Frame)
      /\ Len(Append(frames[t], f)) = Len(frames[t]) + 1
      /\ \A i \in 1..Len(frames[t]) : Append(frames[t], f)[i] = frames[t][i]
      /\ Append(frames[t], f)[Len(frames[t]) + 1] = f
  BY <1>5, <1>6, AppendProperties
<1>9. Opened(t, h)
  BY <1>3, <1>4, <1>7, <1>8 DEF Opened
<1> QED  BY <1>1, <1>2, <1>9

\* Closing a span, block by block.
LEMMA CloseFacts ==
    ASSUME ObservedTypeInv, NEW t \in Tasks, NEW status, CloseSpan(t, status)
    PROVE  /\ frames[t] # <<>>
           /\ context' = [context EXCEPT ![t] = Top(t).token]
           /\ \A u \in Tasks : u # t => frames'[u] = frames[u]
           /\ Len(frames[t]) \in Nat \ {0}
           /\ frames'[t] \in Seq(Frame)
           /\ Len(frames'[t]) = Len(frames[t]) - 1
           /\ \A i \in 1..Len(frames[t]) - 1 : frames'[t][i] = frames[t][i]
<1>1. frames[t] # <<>>
  BY DEF CloseSpan
<1>2. frames \in [Tasks -> Seq(Frame)] /\ frames[t] \in Seq(Frame)
  BY DEF ObservedTypeInv, TracerType
<1>3. Len(frames[t]) \in Nat \ {0}
  BY <1>1, TopType
<1>4. PICK n \in Nat : n = Len(frames[t]) - 1
  BY <1>3
<1>5. frames'[t] = SubSeq(frames[t], 1, n) /\ \A u \in Tasks : u # t => frames'[u] = frames[u]
  BY <1>2, <1>4 DEF CloseSpan
<1>6. \A i \in 1..n : frames[t][i] \in Frame
  BY <1>2, <1>4
<1>7. /\ SubSeq(frames[t], 1, n) \in Seq(Frame)
      /\ Len(SubSeq(frames[t], 1, n)) = n
      /\ \A i \in 1..n : SubSeq(frames[t], 1, n)[i] = frames[t][i]
  BY <1>6, SubSeqProperties
<1>8. context' = [context EXCEPT ![t] = Top(t).token]
  BY DEF CloseSpan, restored
<1> QED  BY <1>1, <1>3, <1>4, <1>5, <1>7, <1>8

\* A task that a step is not about.
LEMMA OthersKeepBlocks ==
    ASSUME NEW u \in Tasks, BlocksOf(u), frames'[u] = frames[u], context'[u] = context[u],
           serving'[u] = serving[u], raising'[u] = raising[u], asked'[u] = asked[u]
    PROVE  BlocksOf(u)'
BY DEF BlocksOf, Top, InPipeline

\* The task that opened a block, and goes on in the pipeline.
LEMMA OpenKeepsBlocks ==
    ASSUME ObservedTypeInv, NEW t \in Tasks, NEW kind \in SpanKind, BlocksOf(t),
           asked'[t] \in Nat, OpenSpan(t, kind, <<t, asked'[t]>>),
           InPipeline(t)',
           frames[t] # <<>> => asked'[t] = asked[t],
           kind = "request" <=> frames[t] = <<>> /\ t \in HttpTasks
    PROVE  BlocksOf(t)'
<1>1. PICK b \in Body : b = <<t, asked'[t]>>
  BY DEF Body
<1>2. PICK h \in SpanHandle(Body) :
              /\ h = handle_under(t, context[t], kind, b)
              /\ h.kind = kind /\ h.body = b
              /\ Opened(t, h)
  <2>1. OpenSpan(t, kind, b)
    BY <1>1
  <2> QED  BY <2>1, OpenFacts
<1>3. PICK n \in Nat : n = Len(frames[t])
  <2>1. frames[t] \in Seq(Frame)
    BY DEF ObservedTypeInv, TracerType
  <2> QED  BY <2>1, LenProperties
<1>4. (frames[t] = <<>>) <=> n = 0
  BY <1>3, EmptySeq DEF ObservedTypeInv, TracerType
<1>5. frames'[t] # <<>>
  BY <1>2, <1>3 DEF Opened
<1>6. context'[t] = h /\ frames'[t][Len(frames'[t])].handle = h
  BY <1>2, <1>3 DEF Opened, ObservedTypeInv, TracerType
<1>7. ASSUME NEW i \in 1..n + 1
      PROVE  /\ frames'[t][i].handle.body = b
             /\ frames'[t][i].handle.kind = "request" <=> i = 1 /\ t \in HttpTasks
             /\ frames'[t][i].token = IF i = 1 THEN NoSpan ELSE frames'[t][i - 1].handle
  <2>1. CASE i = n + 1
    <3>1. frames'[t][i].handle = h /\ frames'[t][i].token = context[t]
      BY <1>2, <1>3, <2>1 DEF Opened
    <3>2. h.kind = "request" <=> i = 1 /\ t \in HttpTasks
      BY <1>2, <1>4, <2>1
    <3>3. context[t] = IF i = 1 THEN NoSpan ELSE frames[t][n].handle
      BY <1>3, <1>4, <2>1 DEF BlocksOf, Top
    <3>4. i # 1 => frames'[t][i - 1] = frames[t][n]
      BY <1>2, <1>3, <2>1 DEF Opened
    <3> QED  BY <1>2, <3>1, <3>2, <3>3, <3>4
  <2>2. CASE i # n + 1
    <3>1. i \in 1..n /\ frames'[t][i] = frames[t][i] /\ (i # 1 => frames'[t][i - 1] = frames[t][i - 1])
      BY <1>2, <1>3, <2>2 DEF Opened
    <3>2. b = <<t, asked[t]>>
      BY <1>1, <1>4, <3>1
    <3> QED  BY <1>3, <3>1, <3>2 DEF BlocksOf
  <2> QED  BY <2>1, <2>2
<1>8. Len(frames'[t]) = n + 1
  BY <1>2, <1>3 DEF Opened
<1> QED  BY <1>1, <1>5, <1>6, <1>7, <1>8 DEF BlocksOf, Top

\* The task that closed a block: in the pipeline, or at the end of its request.
LEMMA CloseKeepsBlocks ==
    ASSUME ObservedTypeInv, NEW t \in Tasks, NEW status, BlocksOf(t), CloseSpan(t, status),
           asked'[t] = asked[t],
           \/ InPipeline(t)' /\ Top(t).handle.kind # "request"
           \/ Top(t).handle.kind = "request" /\ ~InPipeline(t)' /\ raising'[t] = {}
    PROVE  BlocksOf(t)'
<1>1. /\ frames[t] # <<>>
      /\ context' = [context EXCEPT ![t] = Top(t).token]
      /\ frames'[t] \in Seq(Frame)
      /\ Len(frames[t]) \in Nat \ {0}
      /\ Len(frames'[t]) = Len(frames[t]) - 1
      /\ \A i \in 1..Len(frames[t]) - 1 : frames'[t][i] = frames[t][i]
  BY CloseFacts
<1>2. PICK n \in Nat : n = Len(frames[t]) - 1
  BY <1>1
<1>3. context'[t] = Top(t).token
  BY <1>1 DEF ObservedTypeInv, TracerType
<1>4. Top(t) = frames[t][n + 1]
  BY <1>1, <1>2 DEF Top
<1>5. /\ Top(t).handle.kind = "request" <=> n = 0 /\ t \in HttpTasks
      /\ Top(t).token = IF n = 0 THEN NoSpan ELSE frames[t][n].handle
  <2>1. n + 1 \in 1..Len(frames[t]) /\ (n + 1 = 1 <=> n = 0) /\ (n + 1) - 1 = n
    BY <1>1, <1>2
  <2>2. /\ frames[t][n + 1].handle.kind = "request" <=> n + 1 = 1 /\ t \in HttpTasks
        /\ frames[t][n + 1].token = IF n + 1 = 1 THEN NoSpan ELSE frames[t][(n + 1) - 1].handle
    BY <2>1 DEF BlocksOf
  <2> QED  BY <1>4, <2>1, <2>2
<1>6. Len(frames'[t]) = n /\ ((frames'[t] = <<>>) <=> n = 0)
  BY <1>1, <1>2, EmptySeq
<1>7. context'[t] = IF frames'[t] = <<>> THEN NoSpan ELSE frames'[t][Len(frames'[t])].handle
  BY <1>1, <1>2, <1>3, <1>5, <1>6
<1>8. ASSUME NEW i \in 1..n
      PROVE  /\ frames'[t][i].handle.body = <<t, asked[t]>>
             /\ frames'[t][i].handle.kind = "request" <=> i = 1 /\ t \in HttpTasks
             /\ frames'[t][i].token = IF i = 1 THEN NoSpan ELSE frames'[t][i - 1].handle
  <2>1. frames'[t][i] = frames[t][i] /\ (i # 1 => frames'[t][i - 1] = frames[t][i - 1])
    <3>1. i \in 1..Len(frames[t]) - 1 /\ (i # 1 => i - 1 \in 1..Len(frames[t]) - 1)
      BY <1>1, <1>2
    <3> QED  BY <1>1, <3>1
  <2>2. i \in 1..Len(frames[t])
    BY <1>1, <1>2
  <2> QED  BY <2>1, <2>2 DEF BlocksOf
<1>9. /\ ~InPipeline(t)' => frames'[t] = <<>>
      /\ raising'[t] # {} => InPipeline(t)'
      /\ InPipeline(t)' /\ t \in HttpTasks => frames'[t] # <<>>
  BY <1>5, <1>6
<1> QED  BY <1>6, <1>7, <1>8, <1>9 DEF BlocksOf, Top

\* What the innermost block's kind says.
LEMMA EnclosingKind ==
    ASSUME ObservedTypeInv, NEW t \in Tasks
    PROVE  /\ Enclosing(t) = "none" <=> frames[t] = <<>>
           /\ frames[t] # <<>> => Enclosing(t) = Top(t).handle.kind
<1>1. frames[t] # <<>> => Top(t).handle.kind \in SpanKind
  BY TopType DEF SpanHandle
<1> QED  BY <1>1 DEF Enclosing, SpanKind

\* Every step keeps tasks, blocks and contexts together.
LEMMA BlocksStep ==
    ASSUME ObservedTypeInv, BlocksInv, [Next]_vars
    PROVE  BlocksInv'
<1>b. \A t \in Tasks : asked[t] \in Nat
  BY DEF ObservedTypeInv, CallType
<1>k. {"request", "routing", "tool", "llm"} = SpanKind /\ {"ok", "error"} = SpanStatus
  BY DEF SpanKind, SpanStatus
<1>t. /\ serving \in [Tasks -> {"idle", "classifying", "handling", "handled",
                              "pulling", "sending", "failing", "gone"}]
      /\ asked \in [Tasks -> 0..MaxQuestions]
      /\ raising \in [Tasks -> SUBSET ErrorReport]
      /\ context \in [Tasks -> SpanHandle(Body) \cup {NoSpan}]
      /\ frames \in [Tasks -> Seq(Frame)]
  BY DEF ObservedTypeInv, CallType, TracerType
<1>1. ASSUME NEW t \in Tasks, Begin(t) PROVE BlocksInv'
  <2>1. BlocksOf(t) /\ ~InPipeline(t) /\ frames[t] = <<>> /\ raising[t] = {}
    BY <1>1 DEF Begin, BlocksInv, BlocksOf, InPipeline
  <2>2. InPipeline(t)' /\ asked'[t] = asked[t] + 1 /\ asked'[t] \in Nat
    BY <1>1, <1>b, <1>t DEF Begin, InPipeline
  <2>3. BlocksOf(t)'
    <3>1. CASE t \in HttpTasks
      <4>1. OpenSpan(t, "request", <<t, asked'[t]>>)
        BY <1>1, <2>2, <3>1 DEF Begin
      <4> QED  BY <1>k, <2>1, <2>2, <3>1, <4>1, OpenKeepsBlocks
    <3>2. CASE t \notin HttpTasks
      <4>1. frames'[t] = <<>> /\ context'[t] = context[t] /\ Len(frames'[t]) = 0
        BY <1>1, <2>1, <3>2 DEF Begin, tracerVars
      <4> QED  BY <2>1, <2>2, <3>2, <4>1 DEF BlocksOf
    <3> QED  BY <3>1, <3>2
  <2>4. ASSUME NEW u \in Tasks, u # t PROVE BlocksOf(u)'
    <3>1. /\ serving'[u] = serving[u] /\ raising'[u] = raising[u] /\ asked'[u] = asked[u]
          /\ frames'[u] = frames[u] /\ context'[u] = context[u]
      BY <1>1, <1>t, <2>4 DEF Begin, OpenSpan, tracerVars
    <3> QED  BY <3>1, OthersKeepBlocks DEF BlocksInv
  <2> QED  BY <2>3, <2>4 DEF BlocksInv
<1>2. ASSUME NEW t \in Tasks, Finish(t) PROVE BlocksInv'
  <2>1. BlocksOf(t) /\ asked'[t] = asked[t] /\ ~InPipeline(t)' /\ raising'[t] = {}
    BY <1>2, <1>t DEF Finish, BlocksInv, InPipeline
  <2>2. BlocksOf(t)'
    <3>1. CASE t \in HttpTasks
      <4>1. PICK status : CloseSpan(t, status)
        BY <1>2, <3>1 DEF Finish
      <4>2. Top(t).handle.kind = "request"
        BY <1>2, <3>1, EnclosingKind DEF Finish
      <4> QED  BY <2>1, <4>1, <4>2, CloseKeepsBlocks
    <3>2. CASE t \notin HttpTasks
      <4>1. frames[t] = <<>> /\ frames'[t] = <<>> /\ context'[t] = context[t] /\ Len(frames'[t]) = 0
        BY <1>2, <3>2, EnclosingKind DEF Finish, tracerVars
      <4> QED  BY <2>1, <3>2, <4>1 DEF BlocksOf
    <3> QED  BY <3>1, <3>2
  <2>3. ASSUME NEW u \in Tasks, u # t PROVE BlocksOf(u)'
    <3>1. /\ serving'[u] = serving[u] /\ raising'[u] = raising[u] /\ asked'[u] = asked[u]
          /\ frames'[u] = frames[u] /\ context'[u] = context[u]
      BY <1>2, <1>t, <2>3 DEF Finish, CloseSpan, tracerVars
    <3> QED  BY <3>1, OthersKeepBlocks DEF BlocksInv
  <2> QED  BY <2>2, <2>3 DEF BlocksInv
<1>3. ASSUME NEW t \in Tasks, Handle(t) PROVE BlocksInv'
  <2>1. BlocksOf(t) /\ asked'[t] = asked[t] /\ InPipeline(t) /\ InPipeline(t)'
    BY <1>3, <1>t DEF Handle, Running, BlocksInv, InPipeline
  <2>2. t \in HttpTasks => frames[t] # <<>>
    BY <2>1 DEF BlocksOf
  <2>3. OpenSpan(t, "routing", <<t, asked'[t]>>)
    BY <1>3, <2>1 DEF Handle
  <2>4. BlocksOf(t)'
    BY <1>b, <1>k, <2>1, <2>2, <2>3, OpenKeepsBlocks
  <2>5. ASSUME NEW u \in Tasks, u # t PROVE BlocksOf(u)'
    <3>1. /\ serving'[u] = serving[u] /\ raising'[u] = raising[u] /\ asked'[u] = asked[u]
          /\ frames'[u] = frames[u] /\ context'[u] = context[u]
      BY <1>3, <1>t, <2>5 DEF Handle, OpenSpan
    <3> QED  BY <3>1, OthersKeepBlocks DEF BlocksInv
  <2> QED  BY <2>4, <2>5 DEF BlocksInv
<1>4. ASSUME NEW t \in Tasks, Handled(t) PROVE BlocksInv'
  <2>1. PICK status : CloseSpan(t, status)
    BY <1>4 DEF Handled
  <2>2. BlocksOf(t) /\ frames[t] # <<>> /\ Top(t).handle.kind = "routing"
    BY <1>4, <2>1, EnclosingKind DEF Handled, BlocksInv, CloseSpan
  <2>3. InPipeline(t) /\ asked'[t] = asked[t]
    BY <1>4, <2>2 DEF Handled, BlocksOf
  <2>4. InPipeline(t)'
    BY <1>4, <1>t, <2>3 DEF Handled, InPipeline
  <2>5. BlocksOf(t)'
    BY <2>1, <2>2, <2>3, <2>4, CloseKeepsBlocks
  <2>6. ASSUME NEW u \in Tasks, u # t PROVE BlocksOf(u)'
    <3>1. /\ serving'[u] = serving[u] /\ raising'[u] = raising[u] /\ asked'[u] = asked[u]
      BY <1>4, <1>t, <2>6 DEF Handled
    <3>2. frames'[u] = frames[u] /\ context'[u] = context[u]
      BY <1>t, <2>1, <2>6 DEF CloseSpan
    <3> QED  BY <3>1, <3>2, OthersKeepBlocks DEF BlocksInv
  <2> QED  BY <2>5, <2>6 DEF BlocksInv
<1>5. ASSUME NEW t \in Tasks, RunTool(t) PROVE BlocksInv'
  <2>1. BlocksOf(t) /\ asked'[t] = asked[t] /\ InPipeline(t) /\ InPipeline(t)'
    BY <1>5, <1>t DEF RunTool, Running, BlocksInv, InPipeline
  <2>2. t \in HttpTasks => frames[t] # <<>>
    BY <2>1 DEF BlocksOf
  <2>3. OpenSpan(t, "tool", <<t, asked'[t]>>)
    BY <1>5, <2>1 DEF RunTool
  <2>4. BlocksOf(t)'
    BY <1>b, <1>k, <2>1, <2>2, <2>3, OpenKeepsBlocks
  <2>5. ASSUME NEW u \in Tasks, u # t PROVE BlocksOf(u)'
    <3>1. /\ serving'[u] = serving[u] /\ raising'[u] = raising[u] /\ asked'[u] = asked[u]
          /\ frames'[u] = frames[u] /\ context'[u] = context[u]
      BY <1>5, <1>t, <2>5 DEF RunTool, OpenSpan
    <3> QED  BY <3>1, OthersKeepBlocks DEF BlocksInv
  <2> QED  BY <2>4, <2>5 DEF BlocksInv
<1>6. ASSUME NEW t \in Tasks, ToolReturns(t) PROVE BlocksInv'
  <2>1. PICK status : CloseSpan(t, status)
    BY <1>6 DEF ToolReturns
  <2>2. BlocksOf(t) /\ frames[t] # <<>> /\ Top(t).handle.kind = "tool"
    BY <1>6, <2>1, EnclosingKind DEF ToolReturns, BlocksInv, CloseSpan
  <2>3. InPipeline(t) /\ asked'[t] = asked[t]
    BY <1>6, <2>2 DEF ToolReturns, BlocksOf
  <2>4. InPipeline(t)'
    BY <1>6, <1>t, <2>3 DEF ToolReturns, InPipeline
  <2>5. BlocksOf(t)'
    BY <2>1, <2>2, <2>3, <2>4, CloseKeepsBlocks
  <2>6. ASSUME NEW u \in Tasks, u # t PROVE BlocksOf(u)'
    <3>1. /\ serving'[u] = serving[u] /\ raising'[u] = raising[u] /\ asked'[u] = asked[u]
      BY <1>6, <1>t, <2>6 DEF ToolReturns
    <3>2. frames'[u] = frames[u] /\ context'[u] = context[u]
      BY <1>t, <2>1, <2>6 DEF CloseSpan
    <3> QED  BY <3>1, <3>2, OthersKeepBlocks DEF BlocksInv
  <2> QED  BY <2>5, <2>6 DEF BlocksInv
<1>7. ASSUME NEW t \in Tasks, CallModel(t) PROVE BlocksInv'
  <2>1. BlocksOf(t) /\ asked'[t] = asked[t] /\ InPipeline(t) /\ InPipeline(t)'
    BY <1>7, <1>t DEF CallModel, Running, BlocksInv, InPipeline
  <2>2. t \in HttpTasks => frames[t] # <<>>
    BY <2>1 DEF BlocksOf
  <2>3. OpenSpan(t, "llm", <<t, asked'[t]>>)
    BY <1>7, <2>1 DEF CallModel
  <2>4. BlocksOf(t)'
    BY <1>b, <1>k, <2>1, <2>2, <2>3, OpenKeepsBlocks
  <2>5. ASSUME NEW u \in Tasks, u # t PROVE BlocksOf(u)'
    <3>1. /\ serving'[u] = serving[u] /\ raising'[u] = raising[u] /\ asked'[u] = asked[u]
          /\ frames'[u] = frames[u] /\ context'[u] = context[u]
      BY <1>7, <1>t, <2>5 DEF CallModel, OpenSpan
    <3> QED  BY <3>1, OthersKeepBlocks DEF BlocksInv
  <2> QED  BY <2>4, <2>5 DEF BlocksInv
<1>8. ASSUME NEW t \in Tasks, NEW result \in SdkResult, ModelReturns(t, result)
      PROVE BlocksInv'
  <2>1. PICK status : CloseSpan(t, status)
    BY <1>8 DEF ModelReturns
  <2>2. BlocksOf(t) /\ frames[t] # <<>> /\ Top(t).handle.kind = "llm"
    BY <1>8, <2>1, EnclosingKind DEF ModelReturns, BlocksInv, CloseSpan
  <2>3. InPipeline(t) /\ asked'[t] = asked[t]
    BY <1>8, <2>2 DEF ModelReturns, BlocksOf
  <2>4. InPipeline(t)'
    BY <1>8, <1>t, <2>3 DEF ModelReturns, InPipeline
  <2>5. BlocksOf(t)'
    BY <2>1, <2>2, <2>3, <2>4, CloseKeepsBlocks
  <2>6. ASSUME NEW u \in Tasks, u # t PROVE BlocksOf(u)'
    <3>1. /\ serving'[u] = serving[u] /\ raising'[u] = raising[u] /\ asked'[u] = asked[u]
      BY <1>8, <1>t, <2>6 DEF ModelReturns
    <3>2. frames'[u] = frames[u] /\ context'[u] = context[u]
      BY <1>t, <2>1, <2>6 DEF CloseSpan
    <3> QED  BY <3>1, <3>2, OthersKeepBlocks DEF BlocksInv
  <2> QED  BY <2>5, <2>6 DEF BlocksInv
<1>9. ASSUME NEW t \in Tasks, AskProse(t) PROVE BlocksInv'
  <2>1. BlocksOf(t) /\ ~InPipeline(t) /\ frames'[t] = <<>> /\ context'[t] = NoSpan
    BY <1>9 DEF AskProse, BlocksInv, BlocksOf, InPipeline, tracerVars
  <2>2. ~InPipeline(t)' /\ (raising'[t] # {} => serving'[t] = "failing")
    BY <1>9, <1>t, <2>1 DEF AskProse, BlocksOf, InPipeline
  <2>3. BlocksOf(t)'
    BY <2>1, <2>2, EmptySeq DEF BlocksOf
  <2>4. ASSUME NEW u \in Tasks, u # t PROVE BlocksOf(u)'
    <3>1. /\ serving'[u] = serving[u] /\ raising'[u] = raising[u] /\ asked'[u] = asked[u]
          /\ frames'[u] = frames[u] /\ context'[u] = context[u]
      BY <1>9, <1>t, <2>4 DEF AskProse, tracerVars
    <3> QED  BY <3>1, OthersKeepBlocks DEF BlocksInv
  <2> QED  BY <2>3, <2>4 DEF BlocksInv
<1>10. ASSUME NEW t \in Tasks, Pull(t) PROVE BlocksInv'
  <2>1. BlocksOf(t) /\ ~InPipeline(t) /\ frames'[t] = <<>> /\ context'[t] = NoSpan
    BY <1>10 DEF Pull, BlocksInv, BlocksOf, InPipeline, tracerVars
  <2>2. ~InPipeline(t)' /\ (raising'[t] # {} => serving'[t] = "failing")
    BY <1>10, <1>t, <2>1 DEF Pull, BlocksOf, InPipeline
  <2>3. BlocksOf(t)'
    BY <2>1, <2>2, EmptySeq DEF BlocksOf
  <2>4. ASSUME NEW u \in Tasks, u # t PROVE BlocksOf(u)'
    <3>1. /\ serving'[u] = serving[u] /\ raising'[u] = raising[u] /\ asked'[u] = asked[u]
          /\ frames'[u] = frames[u] /\ context'[u] = context[u]
      BY <1>10, <1>t, <2>4 DEF Pull, tracerVars
    <3> QED  BY <3>1, OthersKeepBlocks DEF BlocksInv
  <2> QED  BY <2>3, <2>4 DEF BlocksInv
<1>11. ASSUME NEW t \in Tasks, Sent(t) PROVE BlocksInv'
  <2>1. BlocksOf(t) /\ ~InPipeline(t) /\ frames'[t] = <<>> /\ context'[t] = NoSpan
    BY <1>11 DEF Sent, BlocksInv, BlocksOf, InPipeline, tracerVars
  <2>2. ~InPipeline(t)' /\ (raising'[t] # {} => serving'[t] = "failing")
    BY <1>11, <1>t, <2>1 DEF Sent, BlocksOf, InPipeline
  <2>3. BlocksOf(t)'
    BY <2>1, <2>2, EmptySeq DEF BlocksOf
  <2>4. ASSUME NEW u \in Tasks, u # t PROVE BlocksOf(u)'
    <3>1. /\ serving'[u] = serving[u] /\ raising'[u] = raising[u] /\ asked'[u] = asked[u]
          /\ frames'[u] = frames[u] /\ context'[u] = context[u]
      BY <1>11, <1>t, <2>4 DEF Sent, tracerVars
    <3> QED  BY <3>1, OthersKeepBlocks DEF BlocksInv
  <2> QED  BY <2>3, <2>4 DEF BlocksInv
<1>12. ASSUME NEW t \in Tasks, Refused(t) PROVE BlocksInv'
  <2>1. BlocksOf(t) /\ ~InPipeline(t) /\ frames'[t] = <<>> /\ context'[t] = NoSpan
    BY <1>12 DEF Refused, BlocksInv, BlocksOf, InPipeline, tracerVars
  <2>2. ~InPipeline(t)' /\ (raising'[t] # {} => serving'[t] = "failing")
    BY <1>12, <1>t, <2>1 DEF Refused, BlocksOf, InPipeline
  <2>3. BlocksOf(t)'
    BY <2>1, <2>2, EmptySeq DEF BlocksOf
  <2>4. ASSUME NEW u \in Tasks, u # t PROVE BlocksOf(u)'
    <3>1. /\ serving'[u] = serving[u] /\ raising'[u] = raising[u] /\ asked'[u] = asked[u]
          /\ frames'[u] = frames[u] /\ context'[u] = context[u]
      BY <1>12, <1>t, <2>4 DEF Refused, tracerVars
    <3> QED  BY <3>1, OthersKeepBlocks DEF BlocksInv
  <2> QED  BY <2>3, <2>4 DEF BlocksInv
<1>13. CASE UNCHANGED vars
  BY <1>13, OthersKeepBlocks DEF vars, callVars, tracerVars, BlocksInv
<1> QED
  BY <1>1, <1>2, <1>3, <1>4, <1>5, <1>6, <1>7, <1>8, <1>9, <1>10, <1>11, <1>12, <1>13
  DEF Next, Step, Returns

-----------------------------------------------------------------------------
(* The trees of spans. *)

\* The spans, and their fields.
LEMMA RecordedType ==
    ASSUME ObservedTypeInv, NEW a \in Recorded
    PROVE  /\ a \in Span(Body)
           /\ a.trace_id \in Id /\ a.span_id \in Id /\ a.parent \in Id \cup {NoSpan}
           /\ a.body \in Body /\ a.body[1] \in Tasks /\ a.body[2] \in Nat
           /\ a.trace_id[2] \in Nat /\ a.span_id[2] \in Nat
<1>1. ASSUME a \in spans PROVE a \in Span(Body)
  BY <1>1 DEF ObservedTypeInv, TracerType
<1>2. ASSUME a \notin spans PROVE a \in Span(Body)
  <2>1. PICK t \in Tasks : \E i \in DOMAIN frames[t] : a = to_span(frames[t][i].handle, "ok")
    BY <1>2 DEF Recorded, Open
  <2>2. PICK i \in DOMAIN frames[t] : a = to_span(frames[t][i].handle, "ok")
    BY <2>1
  <2>3. frames[t] \in Seq(Frame)
    BY DEF ObservedTypeInv, TracerType
  <2>4. frames[t][i] \in Frame
    BY <2>3
  <2>5. frames[t][i].handle \in SpanHandle(Body)
    BY <2>4 DEF Frame
  <2> QED  BY <2>2, <2>5, SpanType DEF SpanStatus
<1>3. a \in Span(Body)
  BY <1>1, <1>2
<1>4. /\ a.trace_id \in Id /\ a.span_id \in Id /\ a.parent \in Id \cup {NoSpan}
      /\ a.body \in Body
  BY <1>3 DEF Span
<1> QED  BY <1>3, <1>4 DEF Id, Body

\* An open span is recorded.
LEMMA OpenIsRecorded ==
    ASSUME ObservedTypeInv, NEW t \in Tasks, NEW i \in 1..Len(frames[t])
    PROVE  to_span(frames[t][i].handle, "ok") \in Recorded
<1>1. frames[t] \in Seq(Frame)
  BY DEF ObservedTypeInv, TracerType
<1>2. i \in DOMAIN frames[t]
  BY <1>1
<1> QED  BY <1>2 DEF Recorded, Open

\* Opening adds one span to the tree.
LEMMA OpenRecords ==
    ASSUME ObservedTypeInv, NEW t \in Tasks, NEW h \in SpanHandle(Body),
           Opened(t, h), spans' = spans, NEW a \in Recorded'
    PROVE  a \in Recorded \/ a = to_span(h, "ok")
<1>1. CASE a \in spans'
  BY <1>1 DEF Recorded
<1>2. CASE a \notin spans'
  <2>1. PICK u \in Tasks : \E i \in DOMAIN frames'[u] : a = to_span(frames'[u][i].handle, "ok")
    BY <1>2 DEF Recorded, Open
  <2>2. PICK i \in DOMAIN frames'[u] : a = to_span(frames'[u][i].handle, "ok")
    BY <2>1
  <2>3. CASE u # t
    BY <2>2, <2>3 DEF Opened, Recorded, Open
  <2>4. CASE u = t
    <3>1. PICK n \in Nat : n = Len(frames[t])
      <4>1. frames[t] \in Seq(Frame)
        BY DEF ObservedTypeInv, TracerType
      <4> QED  BY <4>1, LenProperties
    <3>2. i \in 1..n + 1
      BY <2>2, <2>4, <3>1 DEF Opened
    <3>3. CASE i = n + 1
      <4>1. frames'[t][i] = [handle |-> h, token |-> context[t]]
        BY <3>1, <3>3 DEF Opened
      <4> QED  BY <2>2, <2>4, <4>1
    <3>4. CASE i # n + 1
      <4>1. i \in 1..Len(frames[t]) /\ frames'[t][i] = frames[t][i]
        BY <3>1, <3>2, <3>4 DEF Opened
      <4> QED  BY <2>2, <2>4, <4>1, OpenIsRecorded
    <3> QED  BY <3>3, <3>4
  <2> QED  BY <2>3, <2>4
<1> QED  BY <1>1, <1>2

\* Two spans that differ in nothing but how they ended.
Alike(a, b) ==
    /\ a.trace_id = b.trace_id /\ a.span_id = b.span_id /\ a.parent = b.parent
    /\ a.kind = b.kind /\ a.body = b.body

\* Closing adds none: the span that ended was in the tree.
LEMMA CloseRecords ==
    ASSUME ObservedTypeInv, NEW t \in Tasks, NEW status, CloseSpan(t, status),
           NEW a \in Recorded'
    PROVE  \E b \in Recorded : Alike(a, b)
<1>1. /\ frames[t] # <<>>
      /\ \A u \in Tasks : u # t => frames'[u] = frames[u]
      /\ Len(frames[t]) \in Nat \ {0}
      /\ frames'[t] \in Seq(Frame)
      /\ Len(frames'[t]) = Len(frames[t]) - 1
      /\ \A i \in 1..Len(frames[t]) - 1 : frames'[t][i] = frames[t][i]
  BY CloseFacts
<1>2. CASE a \in spans
  BY <1>2 DEF Recorded, Alike
<1>3. CASE a = to_span(Top(t).handle, status)
  <2>1. to_span(Top(t).handle, "ok") \in Recorded
    BY <1>1, OpenIsRecorded DEF Top
  <2>2. Alike(a, to_span(Top(t).handle, "ok"))
    BY <1>3 DEF Alike, to_span
  <2> QED  BY <2>1, <2>2
<1>4. CASE a \notin spans'
  <2>1. PICK u \in Tasks : \E i \in DOMAIN frames'[u] : a = to_span(frames'[u][i].handle, "ok")
    BY <1>4 DEF Recorded, Open
  <2>2. PICK i \in DOMAIN frames'[u] : a = to_span(frames'[u][i].handle, "ok")
    BY <2>1
  <2>3. a \in Recorded
    <3>1. CASE u # t
      BY <1>1, <2>2, <3>1 DEF Recorded, Open
    <3>2. CASE u = t
      <4>1. i \in 1..Len(frames[t]) - 1
        BY <1>1, <2>2, <3>2
      <4>2. i \in 1..Len(frames[t]) /\ frames'[t][i] = frames[t][i]
        BY <1>1, <4>1
      <4> QED  BY <2>2, <3>2, <4>2, OpenIsRecorded
    <3> QED  BY <3>1, <3>2
  <2> QED  BY <2>3 DEF Alike
<1>5. spans' = spans \cup {to_span(Top(t).handle, status)}
  BY DEF CloseSpan
<1> QED  BY <1>2, <1>3, <1>4, <1>5

\* What the span tree promises of a set of identifiers and questions.
TreeInv == IdsInv /\ PairsInv /\ RootInv

\* A step that adds no span, and takes back no identifier and no question.
LEMMA SameTree ==
    ASSUME ObservedTypeInv, ObservedTypeInv', TreeInv,
           \A a \in Recorded' : \E b \in Recorded : Alike(a, b),
           \A u \in Tasks : ids[u] <= ids'[u] /\ asked[u] <= asked'[u]
    PROVE  TreeInv'
<1>n. \A u \in Tasks : /\ ids[u] \in Nat /\ ids'[u] \in Nat
                       /\ asked[u] \in Nat /\ asked'[u] \in Nat
  BY DEF ObservedTypeInv, TracerType, CallType
<1>1. ASSUME NEW a \in Recorded'
      PROVE  /\ a.trace_id[1] = a.body[1] /\ a.trace_id[2] <= ids'[a.body[1]]
             /\ a.span_id[1] = a.body[1] /\ a.span_id[2] <= ids'[a.body[1]]
             /\ a.parent # NoSpan => a.parent[1] = a.body[1] /\ a.parent[2] <= ids'[a.body[1]]
             /\ a.body[2] <= asked'[a.body[1]]
             /\ a.kind = "request" => a.parent = NoSpan
  <2>1. PICK b \in Recorded : Alike(a, b)
    OBVIOUS
  <2>2. /\ b.body[1] \in Tasks /\ b.body[2] \in Nat
        /\ b.trace_id[2] \in Nat /\ b.span_id[2] \in Nat
        /\ b.parent # NoSpan => b.parent[2] \in Nat
    BY RecordedType DEF Id
  <2>3. /\ b.trace_id[1] = b.body[1] /\ b.trace_id[2] <= ids[b.body[1]]
        /\ b.span_id[1] = b.body[1] /\ b.span_id[2] <= ids[b.body[1]]
        /\ b.parent # NoSpan => b.parent[1] = b.body[1] /\ b.parent[2] <= ids[b.body[1]]
        /\ b.body[2] <= asked[b.body[1]]
        /\ b.kind = "request" => b.parent = NoSpan
    BY DEF TreeInv, IdsInv, RootInv
  <2>4. /\ b.trace_id[2] <= ids'[b.body[1]] /\ b.span_id[2] <= ids'[b.body[1]]
        /\ b.body[2] <= asked'[b.body[1]]
        /\ b.parent # NoSpan => b.parent[2] <= ids'[b.body[1]]
    BY <1>n, <2>2, <2>3
  <2> QED  BY <2>1, <2>3, <2>4 DEF Alike
<1>2. IdsInv' /\ RootInv'
  BY <1>1 DEF IdsInv, RootInv
<1>3. ASSUME NEW a \in Recorded', NEW b \in Recorded'
      PROVE  /\ a.span_id = b.span_id => a.trace_id = b.trace_id
             /\ a.trace_id = b.trace_id => a.body = b.body
             /\ a.body = b.body /\ a.body[1] \in HttpTasks => a.trace_id = b.trace_id
             /\ a.parent = b.span_id => a.trace_id = b.trace_id /\ a.kind # "request"
  <2>1. PICK c \in Recorded : Alike(a, c)
    OBVIOUS
  <2>2. PICK d \in Recorded : Alike(b, d)
    OBVIOUS
  <2>3. /\ c.span_id = d.span_id => c.trace_id = d.trace_id
        /\ c.trace_id = d.trace_id => c.body = d.body
        /\ c.body = d.body /\ c.body[1] \in HttpTasks => c.trace_id = d.trace_id
        /\ c.parent = d.span_id => c.trace_id = d.trace_id /\ c.kind # "request"
    BY DEF TreeInv, PairsInv
  <2> QED  BY <2>1, <2>2, <2>3 DEF Alike
<1>4. PairsInv'
  BY <1>3 DEF PairsInv
<1> QED  BY <1>2, <1>4 DEF TreeInv

\* The span that a step opens: at the root of a new trace, or under the
\* innermost open span, whose trace and request it shares.
Grows(t, new) ==
    /\ frames[t] = <<>> =>
          /\ new.trace_id = <<t, ids[t] + 1>> /\ new.span_id = <<t, ids[t] + 2>>
          /\ new.parent = NoSpan
    /\ frames[t] # <<>> =>
          \E p \in Recorded :
             /\ p.body = <<t, asked[t]>>
             /\ new.trace_id = p.trace_id /\ new.span_id = <<t, ids[t] + 1>>
             /\ new.parent = p.span_id

LEMMA NewSpan ==
    ASSUME ObservedTypeInv, NEW t \in Tasks, BlocksOf(t), NEW kind \in SpanKind,
           NEW body \in Body
    PROVE  /\ to_span(handle_under(t, context[t], kind, body), "ok").body = body
           /\ to_span(handle_under(t, context[t], kind, body), "ok").kind = kind
           /\ Grows(t, to_span(handle_under(t, context[t], kind, body), "ok"))
<1>1. CASE frames[t] = <<>>
  <2>1. context[t] = NoSpan
    BY <1>1 DEF BlocksOf
  <2> QED  BY <1>1, <2>1 DEF Grows, handle_under, to_span
<1>2. CASE frames[t] # <<>>
  <2>1. context[t] = Top(t).handle /\ Top(t).handle \in SpanHandle(Body)
    BY <1>2, TopType DEF BlocksOf
  <2>2. context[t] # NoSpan
    BY <2>1, HandleIsNotNone
  <2>3. PICK p : p = to_span(Top(t).handle, "ok")
    OBVIOUS
  <2>4. Len(frames[t]) \in 1..Len(frames[t])
    BY <1>2, TopType
  <2>5. p \in Recorded /\ p.body = <<t, asked[t]>>
    BY <2>3, <2>4, OpenIsRecorded DEF Top, to_span, BlocksOf
  <2>6. p.trace_id = context[t].trace_id /\ p.span_id = context[t].span_id
    BY <2>1, <2>3 DEF to_span
  <2>7. PICK h : h = handle_under(t, context[t], kind, body)
    OBVIOUS
  <2>8. h = [trace_id |-> context[t].trace_id, span_id |-> <<t, ids[t] + 1>>,
             parent |-> context[t].span_id, kind |-> kind, body |-> body]
    BY <2>2, <2>7 DEF handle_under
  <2>9. PICK new : new = to_span(h, "ok")
    OBVIOUS
  <2>10. /\ new.trace_id = p.trace_id /\ new.span_id = <<t, ids[t] + 1>>
         /\ new.parent = p.span_id /\ new.kind = kind /\ new.body = body
    BY <2>6, <2>8, <2>9 DEF to_span
  <2>11. Grows(t, new)
    BY <1>2, <2>5, <2>10 DEF Grows
  <2> QED  BY <2>7, <2>9, <2>10, <2>11
<1> QED  BY <1>1, <1>2

\* Opening a span in the request at hand keeps the tree.
LEMMA OpenKeepsTree ==
    ASSUME ObservedTypeInv, ObservedTypeInv', TreeInv, NEW t \in Tasks, BlocksOf(t),
           NEW kind \in SpanKind, OpenSpan(t, kind, <<t, asked'[t]>>),
           \A u \in Tasks : asked[u] <= asked'[u],
           frames[t] # <<>> => asked'[t] = asked[t] /\ kind # "request",
           frames[t] = <<>> /\ t \in HttpTasks => asked'[t] > asked[t]
    PROVE  TreeInv'
<1>n. \A u \in Tasks : /\ ids[u] \in Nat /\ ids'[u] \in Nat
                       /\ asked[u] \in Nat /\ asked'[u] \in Nat
  BY DEF ObservedTypeInv, TracerType, CallType
<1>1. PICK body \in Body : body = <<t, asked'[t]>>
  BY <1>n DEF Body
<1>2. PICK h \in SpanHandle(Body) :
         h = handle_under(t, context[t], kind, body) /\ Opened(t, h)
  <2>1. OpenSpan(t, kind, body)
    BY <1>1
  <2> QED  BY <2>1, OpenFacts
<1>3. PICK new : new = to_span(h, "ok")
  OBVIOUS
<1>4. \A a \in Recorded' : a \in Recorded \/ a = new
  BY <1>2, <1>3, OpenRecords DEF OpenSpan
<1>5. /\ new.body = body /\ new.kind = kind
      /\ frames[t] = <<>> =>
            /\ new.trace_id = <<t, ids[t] + 1>> /\ new.span_id = <<t, ids[t] + 2>>
            /\ new.parent = NoSpan
      /\ frames[t] # <<>> =>
            \E p \in Recorded :
               /\ p.body = <<t, asked[t]>>
               /\ new.trace_id = p.trace_id /\ new.span_id = <<t, ids[t] + 1>>
               /\ new.parent = p.span_id
  <2>1. new.body = body /\ new.kind = kind /\ Grows(t, new)
    BY <1>2, <1>3, NewSpan
  <2> QED  BY <2>1 DEF Grows
<1>6. /\ frames[t] = <<>> => ids'[t] = ids[t] + 2
      /\ frames[t] # <<>> => ids'[t] = ids[t] + 1
      /\ \A u \in Tasks : ids[u] <= ids'[u]
  <2>1. context[t] = NoSpan <=> frames[t] = <<>>
    BY TopType, HandleIsNotNone DEF BlocksOf
  <2> QED  BY <1>n, <2>1 DEF OpenSpan, inherited, ObservedTypeInv, TracerType
\* What is known of an old span.
<1>7. ASSUME NEW a \in Recorded
      PROVE  /\ a.body[1] \in Tasks /\ a.body \in Body
             /\ a.trace_id \in Id /\ a.span_id \in Id /\ a.parent \in Id \cup {NoSpan}
             /\ a.trace_id[1] = a.body[1] /\ a.trace_id[2] <= ids[a.body[1]]
             /\ a.span_id[1] = a.body[1] /\ a.span_id[2] <= ids[a.body[1]]
             /\ a.parent # NoSpan => a.parent[1] = a.body[1] /\ a.parent[2] <= ids[a.body[1]]
             /\ a.body[2] <= asked[a.body[1]]
             /\ a.kind = "request" => a.parent = NoSpan
  BY RecordedType DEF TreeInv, IdsInv, RootInv
\* What is new about the new one.
<1>8. PICK k \in Nat : k > ids[t] /\ k <= ids'[t] /\ new.span_id = <<t, k>>
  <2>1. CASE frames[t] = <<>>
    BY <1>n, <1>5, <1>6, <2>1
  <2>2. CASE frames[t] # <<>>
    BY <1>n, <1>5, <1>6, <2>2
  <2> QED  BY <2>1, <2>2
<1>9. ASSUME NEW a \in Recorded
      PROVE  a.span_id # new.span_id /\ a.parent # new.span_id
  <2>1. a.span_id # <<t, k>>
    <3> SUFFICES ASSUME a.span_id = <<t, k>> PROVE FALSE
      OBVIOUS
    <3>1. a.span_id[1] = t /\ a.span_id[2] = k
      OBVIOUS
    <3> QED  BY <1>n, <1>7, <1>8, <3>1
  <2>2. a.parent # <<t, k>>
    <3> SUFFICES ASSUME a.parent = <<t, k>> PROVE FALSE
      OBVIOUS
    <3>1. a.parent[1] = t /\ a.parent[2] = k
      OBVIOUS
    <3>2. a.parent # NoSpan
      BY <1>8, NoSpanAssumption DEF Id
    <3> QED  BY <1>n, <1>7, <1>8, <3>1, <3>2
  <2> QED  BY <1>8, <2>1, <2>2
<1>10. ASSUME NEW a \in Recorded
       PROVE  /\ a.trace_id = new.trace_id => a.body = new.body
              /\ a.body = new.body /\ a.body[1] \in HttpTasks => a.trace_id = new.trace_id
              /\ new.parent = a.span_id => new.trace_id = a.trace_id /\ new.kind # "request"
  <2>1. CASE frames[t] = <<>>
    <3>1. a.trace_id # new.trace_id
      <4> SUFFICES ASSUME a.trace_id = <<t, ids[t] + 1>> PROVE FALSE
        BY <1>5, <2>1
      <4>1. a.trace_id[1] = t /\ a.trace_id[2] = ids[t] + 1
        OBVIOUS
      <4> QED  BY <1>n, <1>7, <4>1
    <3>2. a.body = new.body /\ a.body[1] \in HttpTasks => FALSE
      <4> SUFFICES ASSUME a.body = <<t, asked'[t]>>, a.body[1] \in HttpTasks PROVE FALSE
        BY <1>1, <1>5
      <4>1. a.body[1] = t /\ a.body[2] = asked'[t]
        OBVIOUS
      <4> QED  BY <1>n, <1>7, <2>1, <4>1
    <3>3. new.parent # a.span_id
      BY <1>5, <1>7, <2>1, NoSpanAssumption
    <3> QED  BY <3>1, <3>2, <3>3
  <2>2. CASE frames[t] # <<>>
    <3>1. PICK p \in Recorded :
               /\ p.body = <<t, asked[t]>>
               /\ new.trace_id = p.trace_id /\ new.span_id = <<t, ids[t] + 1>>
               /\ new.parent = p.span_id
      BY <1>5, <2>2
    <3>2. new.body = p.body /\ new.kind # "request"
      BY <1>1, <1>5, <2>2, <3>1
    <3>3. /\ a.trace_id = p.trace_id => a.body = p.body
          /\ a.body = p.body /\ a.body[1] \in HttpTasks => a.trace_id = p.trace_id
          /\ p.span_id = a.span_id => p.trace_id = a.trace_id
      BY DEF TreeInv, PairsInv
    <3> QED  BY <3>1, <3>2, <3>3
  <2> QED  BY <2>1, <2>2
<1>11. /\ new.trace_id[1] = t /\ new.trace_id[2] <= ids'[t]
       /\ new.span_id[1] = t /\ new.span_id[2] <= ids'[t]
       /\ new.parent # NoSpan => new.parent[1] = t /\ new.parent[2] <= ids'[t]
       /\ new.parent # new.span_id
       /\ new.kind = "request" => new.parent = NoSpan
  <2>1. CASE frames[t] = <<>>
    BY <1>n, <1>5, <1>6, <1>8, <2>1, NoSpanAssumption DEF Id
  <2>2. CASE frames[t] # <<>>
    <3>1. PICK p \in Recorded :
               /\ p.body = <<t, asked[t]>>
               /\ new.trace_id = p.trace_id /\ new.span_id = <<t, ids[t] + 1>>
               /\ new.parent = p.span_id
      BY <1>5, <2>2
    <3>2. p.body[1] = t
      BY <3>1
    <3>3. p.trace_id[2] \in Nat /\ p.span_id[2] \in Nat
      BY RecordedType
    <3>4. /\ p.trace_id[1] = t /\ p.trace_id[2] <= ids[t]
          /\ p.span_id[1] = t /\ p.span_id[2] <= ids[t]
      BY <1>7, <3>2
    <3>5. p.trace_id[2] <= ids'[t] /\ p.span_id[2] <= ids'[t]
      BY <1>n, <1>6, <3>3, <3>4
    <3>6. new.parent # new.span_id
      BY <1>9, <3>1
    <3> QED  BY <1>5, <1>8, <2>2, <3>1, <3>4, <3>5, <3>6
  <2> QED  BY <2>1, <2>2
<1>12. ASSUME NEW a \in Recorded'
       PROVE  /\ a.trace_id[1] = a.body[1] /\ a.trace_id[2] <= ids'[a.body[1]]
              /\ a.span_id[1] = a.body[1] /\ a.span_id[2] <= ids'[a.body[1]]
              /\ a.parent # NoSpan => a.parent[1] = a.body[1] /\ a.parent[2] <= ids'[a.body[1]]
              /\ a.body[2] <= asked'[a.body[1]]
              /\ a.kind = "request" => a.parent = NoSpan
  <2>1. CASE a = new
    BY <1>n, <1>1, <1>5, <1>11, <2>1
  <2>2. CASE a \in Recorded
    <3>1. /\ a.trace_id[2] \in Nat /\ a.span_id[2] \in Nat /\ a.body[2] \in Nat
          /\ a.parent # NoSpan => a.parent[2] \in Nat
      BY <2>2, RecordedType DEF Id
    <3>2. PICK u \in Tasks : u = a.body[1]
      BY <1>7, <2>2
    <3>3. /\ a.trace_id[2] <= ids[u] /\ a.span_id[2] <= ids[u] /\ a.body[2] <= asked[u]
          /\ a.parent # NoSpan => a.parent[2] <= ids[u]
      BY <1>7, <2>2, <3>2
    <3>4. ids[u] <= ids'[u] /\ asked[u] <= asked'[u]
      BY <1>6
    <3>5. /\ a.trace_id[2] <= ids'[u] /\ a.span_id[2] <= ids'[u] /\ a.body[2] <= asked'[u]
          /\ a.parent # NoSpan => a.parent[2] <= ids'[u]
      BY <1>n, <3>1, <3>3, <3>4
    <3> QED  BY <1>7, <2>2, <3>2, <3>5
  <2> QED  BY <1>4, <2>1, <2>2
<1>13. IdsInv' /\ RootInv'
  BY <1>12 DEF IdsInv, RootInv
<1>14. ASSUME NEW a \in Recorded', NEW b \in Recorded'
       PROVE  /\ a.span_id = b.span_id => a.trace_id = b.trace_id
              /\ a.trace_id = b.trace_id => a.body = b.body
              /\ a.body = b.body /\ a.body[1] \in HttpTasks => a.trace_id = b.trace_id
              /\ a.parent = b.span_id => a.trace_id = b.trace_id /\ a.kind # "request"
  <2>1. CASE a \in Recorded /\ b \in Recorded
    BY <2>1 DEF TreeInv, PairsInv
  <2>2. CASE a \in Recorded /\ b = new
    BY <1>9, <1>10, <2>2
  <2>3. CASE a = new /\ b \in Recorded
    BY <1>9, <1>10, <2>3
  <2>4. CASE a = new /\ b = new
    BY <1>11, <2>4
  <2> QED  BY <1>4, <2>1, <2>2, <2>3, <2>4
<1>15. PairsInv'
  BY <1>14 DEF PairsInv
<1> QED  BY <1>13, <1>15 DEF TreeInv

\* Every step keeps the trees.
LEMMA TreeStep ==
    ASSUME ObservedTypeInv, ObservedTypeInv', BlocksInv, TreeInv, [Next]_vars
    PROVE  TreeInv'
<1>n. \A u \in Tasks : ids[u] \in Nat /\ asked[u] \in Nat /\ asked[u] <= asked[u] /\ ids[u] <= ids[u]
  BY DEF ObservedTypeInv, TracerType, CallType
<1>k. {"request", "routing", "tool", "llm"} = SpanKind
  BY DEF SpanKind
<1>s. ASSUME UNCHANGED tracerVars, \A u \in Tasks : asked[u] <= asked'[u] PROVE TreeInv'
  <2>1. Recorded' = Recorded /\ ids' = ids
    BY <1>s DEF tracerVars, Recorded, Open
  <2>2. \A a \in Recorded' : \E b \in Recorded : Alike(a, b)
    BY <2>1 DEF Alike
  <2> QED  BY <1>n, <1>s, <2>1, <2>2, SameTree
<1>1. ASSUME NEW t \in Tasks, Begin(t) PROVE TreeInv'
  <2>1. /\ asked'[t] = asked[t] + 1 /\ \A u \in Tasks : asked[u] <= asked'[u]
    BY <1>1, <1>n DEF Begin, ObservedTypeInv, CallType
  <2>2. CASE t \in HttpTasks
    <3>1. OpenSpan(t, "request", <<t, asked'[t]>>)
      BY <1>1, <2>1, <2>2 DEF Begin
    <3>2. BlocksOf(t) /\ frames[t] = <<>>
      BY <1>1 DEF Begin, BlocksInv, BlocksOf, InPipeline
    <3>3. asked'[t] > asked[t]
      BY <1>n, <2>1
    <3> QED  BY <1>k, <2>1, <3>1, <3>2, <3>3, OpenKeepsTree
  <2>3. CASE t \notin HttpTasks
    BY <1>1, <1>s, <2>1, <2>3 DEF Begin
  <2> QED  BY <2>2, <2>3
<1>2. ASSUME NEW t \in Tasks, Finish(t) PROVE TreeInv'
  <2>1. CASE t \in HttpTasks
    <3>1. PICK status : CloseSpan(t, status)
      BY <1>2, <2>1 DEF Finish
    <3>2. asked' = asked /\ ids' = ids
      BY <1>2, <3>1 DEF Finish, CloseSpan
    <3> QED  BY <1>n, <3>1, <3>2, CloseRecords, SameTree
  <2>2. CASE t \notin HttpTasks
    BY <1>2, <1>n, <1>s, <2>2 DEF Finish
  <2> QED  BY <2>1, <2>2
<1>3. ASSUME NEW t \in Tasks, Handle(t) PROVE TreeInv'
  <2>1. BlocksOf(t) /\ asked' = asked /\ OpenSpan(t, "routing", <<t, asked[t]>>)
    BY <1>3 DEF Handle, BlocksInv
  <2>2. t \in HttpTasks => frames[t] # <<>>
    BY <1>3, <2>1 DEF Handle, Running, BlocksOf, InPipeline
  <2> QED  BY <1>n, <1>k, <2>1, <2>2, OpenKeepsTree
<1>4. ASSUME NEW t \in Tasks, Handled(t) PROVE TreeInv'
  <2>1. PICK status : CloseSpan(t, status)
    BY <1>4 DEF Handled
  <2>2. asked' = asked /\ ids' = ids
    BY <1>4, <2>1 DEF Handled, CloseSpan
  <2> QED  BY <1>n, <2>1, <2>2, CloseRecords, SameTree
<1>5. ASSUME NEW t \in Tasks, RunTool(t) PROVE TreeInv'
  <2>1. BlocksOf(t) /\ asked' = asked /\ OpenSpan(t, "tool", <<t, asked[t]>>)
    BY <1>5 DEF RunTool, BlocksInv
  <2>2. t \in HttpTasks => frames[t] # <<>>
    BY <1>5, <2>1 DEF RunTool, Running, BlocksOf, InPipeline
  <2> QED  BY <1>n, <1>k, <2>1, <2>2, OpenKeepsTree
<1>6. ASSUME NEW t \in Tasks, ToolReturns(t) PROVE TreeInv'
  <2>1. PICK status : CloseSpan(t, status)
    BY <1>6 DEF ToolReturns
  <2>2. asked' = asked /\ ids' = ids
    BY <1>6, <2>1 DEF ToolReturns, CloseSpan
  <2> QED  BY <1>n, <2>1, <2>2, CloseRecords, SameTree
<1>7. ASSUME NEW t \in Tasks, CallModel(t) PROVE TreeInv'
  <2>1. BlocksOf(t) /\ asked' = asked /\ OpenSpan(t, "llm", <<t, asked[t]>>)
    BY <1>7 DEF CallModel, BlocksInv
  <2>2. t \in HttpTasks => frames[t] # <<>>
    BY <1>7, <2>1 DEF CallModel, Running, BlocksOf, InPipeline
  <2> QED  BY <1>n, <1>k, <2>1, <2>2, OpenKeepsTree
<1>8. ASSUME NEW t \in Tasks, NEW result \in SdkResult, ModelReturns(t, result)
      PROVE TreeInv'
  <2>1. PICK status : CloseSpan(t, status)
    BY <1>8 DEF ModelReturns
  <2>2. asked' = asked /\ ids' = ids
    BY <1>8, <2>1 DEF ModelReturns, CloseSpan
  <2> QED  BY <1>n, <2>1, <2>2, CloseRecords, SameTree
<1>9. ASSUME NEW t \in Tasks, AskProse(t) PROVE TreeInv'
  <2>1. \A u \in Tasks : asked[u] <= asked'[u]
    BY <1>9, <1>n DEF AskProse, ObservedTypeInv, CallType
  <2> QED  BY <1>9, <1>s, <2>1 DEF AskProse
<1>10. ASSUME NEW t \in Tasks, Pull(t) PROVE TreeInv'
  BY <1>10, <1>n, <1>s DEF Pull
<1>11. ASSUME NEW t \in Tasks, Sent(t) PROVE TreeInv'
  BY <1>11, <1>n, <1>s DEF Sent
<1>12. ASSUME NEW t \in Tasks, Refused(t) PROVE TreeInv'
  BY <1>12, <1>n, <1>s DEF Refused
<1>13. CASE UNCHANGED vars
  BY <1>13, <1>n, <1>s DEF vars, callVars
<1> QED
  BY <1>1, <1>2, <1>3, <1>4, <1>5, <1>6, <1>7, <1>8, <1>9, <1>10, <1>11, <1>12, <1>13
  DEF Next, Step, Returns

\* The identifier of an open span is its task's, and was given out.
LEMMA OpenId ==
    ASSUME ObservedTypeInv, BlocksInv, TreeInv, NEW t \in Tasks, NEW i \in 1..Len(frames[t])
    PROVE  LET id == frames[t][i].handle.span_id IN
           id \in Id /\ id[1] = t /\ id[2] \in Nat /\ id[2] <= ids[t]
<1>1. PICK a \in Recorded : a = to_span(frames[t][i].handle, "ok")
  BY OpenIsRecorded
<1>2. a.span_id = frames[t][i].handle.span_id /\ a.body = frames[t][i].handle.body
  BY <1>1 DEF to_span
<1>3. frames[t][i].handle.body = <<t, asked[t]>>
  BY DEF BlocksInv, BlocksOf
<1>4. a.body[1] = t
  BY <1>2, <1>3
<1>5. a.span_id \in Id /\ a.span_id[2] \in Nat
  BY RecordedType
<1>6. a.span_id[1] = t /\ a.span_id[2] <= ids[t]
  BY <1>4 DEF TreeInv, IdsInv
<1> QED  BY <1>2, <1>5, <1>6

\* A span that is about to be recorded has not been.
LEMMA NotYetRecorded ==
    ASSUME ObservedTypeInv, FreshInv, NEW t \in Tasks, NEW status, CloseSpan(t, status)
    PROVE  to_span(Top(t).handle, status) \notin spans
<1>1. Len(frames[t]) \in 1..Len(frames[t])
  BY CloseFacts
<1>2. \A s \in spans : s.span_id # Top(t).handle.span_id
  BY <1>1 DEF FreshInv, Top
<1> QED  BY <1>2 DEF to_span

\* Opening a span takes a new identifier.
LEMMA OpenKeepsFresh ==
    ASSUME ObservedTypeInv, BlocksInv, TreeInv, FreshInv, NEW t \in Tasks,
           NEW kind \in SpanKind, NEW body \in Body, OpenSpan(t, kind, body)
    PROVE  FreshInv'
<1>1. PICK h \in SpanHandle(Body) :
         h = handle_under(t, context[t], kind, body) /\ Opened(t, h)
  BY OpenFacts
<1>2. PICK k \in Nat : k > ids[t] /\ h.span_id = <<t, k>>
  <2>1. ids[t] \in Nat
    BY DEF ObservedTypeInv, TracerType
  <2> QED  BY <1>1, <2>1 DEF handle_under
<1>3. PICK n \in Nat : n = Len(frames[t])
  <2>1. frames[t] \in Seq(Frame)
    BY DEF ObservedTypeInv, TracerType
  <2> QED  BY <2>1, LenProperties
<1>4. /\ Len(frames'[t]) = n + 1 /\ frames'[t][n + 1].handle = h
      /\ \A i \in 1..n : frames'[t][i] = frames[t][i]
      /\ \A u \in Tasks : u # t => frames'[u] = frames[u]
  BY <1>1, <1>3 DEF Opened
<1>5. \A i \in 1..n : frames[t][i].handle.span_id[2] \in Nat /\ frames[t][i].handle.span_id[2] <= ids[t]
  BY <1>3, OpenId
<1>6. ids[t] \in Nat
  BY DEF ObservedTypeInv, TracerType
<1>7. \A i \in 1..n : frames[t][i].handle.span_id[2] < k
  BY <1>2, <1>5, <1>6
<1>8. ASSUME NEW u \in Tasks, NEW i \in 1..Len(frames'[u]), NEW j \in 1..Len(frames'[u]), i < j
      PROVE  frames'[u][i].handle.span_id[2] < frames'[u][j].handle.span_id[2]
  <2>1. CASE u # t
    BY <1>4, <1>8, <2>1 DEF FreshInv
  <2>2. CASE u = t /\ j = n + 1
    <3>1. i \in 1..n
      BY <1>4, <1>8, <2>2
    <3>2. frames'[u][i] = frames[t][i] /\ frames'[u][j].handle.span_id[2] = k
      BY <1>2, <1>4, <2>2, <3>1
    <3> QED  BY <1>7, <3>1, <3>2
  <2>3. CASE u = t /\ j # n + 1
    <3>1. i \in 1..n /\ j \in 1..n
      BY <1>4, <1>8, <2>3
    <3> QED  BY <1>3, <1>4, <1>8, <2>3, <3>1 DEF FreshInv
  <2> QED  BY <2>1, <2>2, <2>3
<1>9. ASSUME NEW u \in Tasks, NEW i \in 1..Len(frames'[u]), NEW s \in spans
      PROVE  s.span_id # frames'[u][i].handle.span_id
  <2>1. CASE u # t
    BY <1>4, <2>1 DEF FreshInv
  <2>2. CASE u = t /\ i # n + 1
    <3>1. i \in 1..n
      BY <1>4, <2>2
    <3> QED  BY <1>3, <1>4, <2>2, <3>1 DEF FreshInv
  <2>3. CASE u = t /\ i = n + 1
    <3> SUFFICES ASSUME s.span_id = <<t, k>> PROVE FALSE
      BY <1>2, <1>4, <2>3
    <3>1. s \in Recorded
      BY DEF Recorded
    <3>2. s.span_id[1] = t /\ s.span_id[2] = k
      OBVIOUS
    <3>3. s.span_id[1] = s.body[1] /\ s.span_id[2] <= ids[s.body[1]]
      BY <3>1 DEF TreeInv, IdsInv
    <3> QED  BY <1>2, <1>6, <3>2, <3>3
  <2> QED  BY <2>1, <2>2, <2>3
<1>10. spans' = spans
  BY DEF OpenSpan
<1> QED  BY <1>8, <1>9, <1>10 DEF FreshInv

\* Closing a span leaves no block with its identifier.
LEMMA CloseKeepsFresh ==
    ASSUME ObservedTypeInv, BlocksInv, TreeInv, FreshInv, NEW t \in Tasks,
           NEW status, CloseSpan(t, status)
    PROVE  FreshInv'
<1>1. PICK n \in Nat : n = Len(frames[t]) - 1
  BY CloseFacts
<1>2. /\ Len(frames[t]) = n + 1 /\ Len(frames'[t]) = n
      /\ \A i \in 1..n : frames'[t][i] = frames[t][i]
      /\ \A u \in Tasks : u # t => frames'[u] = frames[u]
  BY <1>1, CloseFacts
<1>3. PICK new : new = to_span(Top(t).handle, status)
  OBVIOUS
<1>4. new.span_id = frames[t][n + 1].handle.span_id /\ new.span_id[1] = t
  <2>1. new.span_id = frames[t][n + 1].handle.span_id
    BY <1>2, <1>3 DEF Top, to_span
  <2>2. n + 1 \in 1..Len(frames[t])
    BY <1>2
  <2> QED  BY <2>1, <2>2, OpenId
<1>5. spans' = spans \cup {new}
  BY <1>3 DEF CloseSpan
<1>6. IsFiniteSet(spans')
  BY <1>5, FS_AddElement DEF FreshInv
<1>7. ASSUME NEW u \in Tasks, NEW i \in 1..Len(frames'[u])
      PROVE  i \in 1..Len(frames[u]) /\ frames'[u][i] = frames[u][i]
  <2>1. CASE u = t
    BY <1>2, <2>1
  <2>2. CASE u # t
    BY <1>2, <2>2
  <2> QED  BY <2>1, <2>2
<1>8. ASSUME NEW u \in Tasks, NEW i \in 1..Len(frames'[u])
      PROVE  new.span_id # frames'[u][i].handle.span_id
  <2>1. CASE u # t
    <3>1. frames[u][i].handle.span_id[1] = u
      BY <1>7, OpenId
    <3> QED  BY <1>4, <1>7, <2>1, <3>1
  <2>2. CASE u = t
    <3>1. i \in 1..n /\ i < n + 1 /\ n + 1 \in 1..Len(frames[t]) /\ i \in 1..Len(frames[t])
      BY <1>2, <2>2
    <3>2. frames[t][i].handle.span_id[2] < frames[t][n + 1].handle.span_id[2]
      BY <3>1 DEF FreshInv
    <3>3. frames[t][n + 1].handle.span_id[2] \in Nat
      BY <3>1, OpenId
    <3>4. frames[t][i].handle.span_id # frames[t][n + 1].handle.span_id
      BY <3>2, <3>3
    <3> QED  BY <1>4, <1>7, <2>2, <3>4
  <2> QED  BY <2>1, <2>2
<1>9. ASSUME NEW u \in Tasks, NEW i \in 1..Len(frames'[u]), NEW s \in spans'
      PROVE  s.span_id # frames'[u][i].handle.span_id
  <2>1. CASE s \in spans
    BY <1>7, <2>1 DEF FreshInv
  <2>2. CASE s = new
    BY <1>8, <2>2
  <2> QED  BY <1>5, <2>1, <2>2
<1>10. ASSUME NEW u \in Tasks, NEW i \in 1..Len(frames'[u]), NEW j \in 1..Len(frames'[u]), i < j
       PROVE  frames'[u][i].handle.span_id[2] < frames'[u][j].handle.span_id[2]
  BY <1>7, <1>10 DEF FreshInv
<1> QED  BY <1>6, <1>9, <1>10 DEF FreshInv

\* What a step may do to the tracer.
LEMMA TracerSteps ==
    ASSUME ObservedTypeInv, [Next]_vars
    PROVE  \/ \E t \in Tasks, kind \in SpanKind, body \in Body : OpenSpan(t, kind, body)
           \/ \E t \in Tasks, status \in SpanStatus : CloseSpan(t, status)
           \/ UNCHANGED tracerVars
<1>b. \A t \in Tasks : <<t, asked[t]>> \in Body /\ <<t, asked[t] + 1>> \in Body
  BY DEF ObservedTypeInv, CallType, Body
<1>k. {"request", "routing", "tool", "llm"} = SpanKind /\ {"ok", "error"} = SpanStatus
  BY DEF SpanKind, SpanStatus
<1>1. ASSUME NEW t \in Tasks, Begin(t) \/ Handle(t) \/ RunTool(t) \/ CallModel(t)
      PROVE  \/ \E kind \in SpanKind, body \in Body : OpenSpan(t, kind, body)
             \/ UNCHANGED tracerVars
  BY <1>1, <1>b, <1>k DEF Begin, Handle, RunTool, CallModel
<1>2. ASSUME NEW t \in Tasks, Finish(t) \/ Handled(t) \/ ToolReturns(t)
      PROVE  (\E status \in SpanStatus : CloseSpan(t, status)) \/ UNCHANGED tracerVars
  BY <1>2, <1>k DEF Finish, Handled, ToolReturns
<1>3. ASSUME NEW t \in Tasks, Returns(t)
      PROVE  \E status \in SpanStatus : CloseSpan(t, status)
  BY <1>3, <1>k DEF Returns, ModelReturns
<1>4. ASSUME NEW t \in Tasks, AskProse(t) \/ Pull(t) \/ Sent(t) \/ Refused(t)
      PROVE  UNCHANGED tracerVars
  BY <1>4 DEF AskProse, Pull, Sent, Refused
<1>5. UNCHANGED vars => UNCHANGED tracerVars
  BY DEF vars
<1> QED  BY <1>1, <1>2, <1>3, <1>4, <1>5 DEF Next, Step

LEMMA FreshStep ==
    ASSUME ObservedTypeInv, BlocksInv, TreeInv, FreshInv, [Next]_vars
    PROVE  FreshInv'
<1>1. UNCHANGED tracerVars => FreshInv'
  BY DEF tracerVars, FreshInv
<1> QED  BY <1>1, TracerSteps, OpenKeepsFresh, CloseKeepsFresh

-----------------------------------------------------------------------------
(* What holds of the trace in every state. *)

LEMMA TraceInit ==
    Init => TraceInv
<1> SUFFICES ASSUME Init PROVE TraceInv
  OBVIOUS
<1>1. TracerType
  BY EmptySeq DEF Init, TracerInit, TracerType
<1>2. AccountingType
  <2>1. NoCalls \in Totals
    BY DEF NoCalls, Totals
  <2>2. DOMAIN << >> = {} /\ << >> \in [{} -> Nat]
    OBVIOUS
  <2> QED  BY <2>1, <2>2 DEF Init, AccountingInit, AccountingType
<1>3. CallType
  <2>1. [calls |-> 0, input |-> 0, output |-> 0] \in Sum /\ 0 \in 0..MaxQuestions
    BY ObservedAssumption DEF Sum
  <2> QED  BY <2>1 DEF Init, CallType
<1>4. Recorded = {}
  BY DEF Init, TracerInit, Recorded, Open
<1>5. BlocksInv
  BY EmptySeq DEF Init, TracerInit, BlocksInv, BlocksOf, InPipeline
<1>6. FreshInv
  BY FS_EmptySet, EmptySeq DEF Init, TracerInit, FreshInv
<1> QED
  BY <1>1, <1>2, <1>3, <1>4, <1>5, <1>6
  DEF TraceInv, ObservedTypeInv, IdsInv, PairsInv, RootInv

LEMMA TraceStep ==
    TraceInv /\ [Next]_vars => TraceInv'
BY TypesStep, BlocksStep, TreeStep, FreshStep DEF TraceInv, TreeInv

\* The variables of the requests, of the tracer and of the accounting keep
\* their types however requests, questions, tools and model calls interleave.
THEOREM ObservedTypeCorrect == Spec => []TypeOK
<1>1. TraceInv => TypeOK
  BY TypesAreTypeOK DEF TraceInv
<1> QED  BY <1>1, TraceInit, TraceStep, PTL DEF Spec

\* A trace holds the spans of one request and an HTTP request has one trace, a
\* parent is a span of the same trace, a request's span has none, and when a
\* with-block ends, the context is the one it found: Tracer.span and the
\* wrappers around it, for any number of tasks and questions.
THEOREM TracesBelongToRequests == Spec => []TracesAreRequests
<1>1. ASSUME TraceInv PROVE TracesAreRequests
  <2>1. ContextFollowsTheBlocks
    BY <1>1 DEF TraceInv, BlocksInv, BlocksOf, ContextFollowsTheBlocks
  <2> QED  BY <1>1, <2>1 DEF TraceInv, PairsInv, TracesAreRequests
<1> QED  BY <1>1, TraceInit, TraceStep, PTL DEF Spec

-----------------------------------------------------------------------------
(* The errors that reach a caller. *)

\* An error on its way out says to retry exactly what a retry could fix, but for
\* a rate limit that ends a stream, which is reported as a server error: the
\* clauses of both providers, and every path between a provider and the end of
\* the request.
THEOREM RetryIsToldTruly == Spec => []OnlyTransientFailuresAreRetryable
<1> DEFINE Inv == TraceInv /\ OnlyTransientFailuresAreRetryable
<1>1. Init => Inv
  <2> SUFFICES ASSUME Init PROVE Inv
    OBVIOUS
  <2>1. OnlyTransientFailuresAreRetryable
    BY DEF Init, OnlyTransientFailuresAreRetryable
  <2> QED  BY <2>1, TraceInit
<1>2. ASSUME Inv, [Next]_vars PROVE OnlyTransientFailuresAreRetryable'
  <2>1. /\ raising \in [Tasks -> SUBSET ErrorReport]
        /\ serving \in [Tasks -> {"idle", "classifying", "handling", "handled",
                              "pulling", "sending", "failing", "gone"}]
    BY <1>2 DEF TraceInv, ObservedTypeInv, CallType
  <2>2. \A t \in Tasks : ~InPipeline(t) /\ serving[t] # "failing" => raising[t] = {}
    BY <1>2 DEF TraceInv, BlocksInv, BlocksOf
  \* A task that goes on with the error it had, or with none.
  <2>3. ASSUME NEW t \in Tasks,
               raising'[t] = {} \/ (raising'[t] = raising[t] /\ (InPipeline(t)' <=> InPipeline(t)))
        PROVE  \A error \in raising'[t] :
                  error.retryable <=> error.transient /\ (InPipeline(t)' \/ ~error.limited)
    BY <1>2, <2>3 DEF OnlyTransientFailuresAreRetryable
  <2>4. CASE \E t \in Tasks : Begin(t) \/ Finish(t) \/ Handle(t) \/ Handled(t) \/ RunTool(t)
                              \/ ToolReturns(t) \/ CallModel(t) \/ AskProse(t) \/ Sent(t)
                              \/ Refused(t)
    <3>1. PICK t \in Tasks : Begin(t) \/ Finish(t) \/ Handle(t) \/ Handled(t) \/ RunTool(t)
                             \/ ToolReturns(t) \/ CallModel(t) \/ AskProse(t) \/ Sent(t)
                             \/ Refused(t)
      BY <2>4
    <3>2. ASSUME NEW u \in Tasks
          PROVE  raising'[u] = {} \/ (raising'[u] = raising[u] /\ (InPipeline(u)' <=> InPipeline(u)))
      <4>1. CASE u # t
        BY <2>1, <3>1, <4>1
        DEF Begin, Finish, Handle, Handled, RunTool, ToolReturns, CallModel, AskProse, Sent,
            Refused, InPipeline
      <4>2. CASE u = t /\ Begin(t)
        BY <2>2, <4>2 DEF Begin, InPipeline
      <4>3. CASE u = t /\ (Finish(t) \/ Refused(t))
        BY <2>1, <4>3 DEF Finish, Refused
      <4>4. CASE u = t /\ (Handle(t) \/ RunTool(t) \/ ToolReturns(t) \/ CallModel(t))
        BY <2>1, <4>4 DEF Handle, Running, RunTool, ToolReturns, CallModel, InPipeline
      <4>5. CASE u = t /\ Handled(t)
        <5>1. frames[t] # <<>>
          BY <4>5, CloseFacts, <1>2 DEF Handled, CloseSpan
        <5>2. InPipeline(t)
          BY <1>2, <5>1 DEF TraceInv, BlocksInv, BlocksOf
        <5> QED  BY <2>1, <4>5, <5>2 DEF Handled, InPipeline
      <4>6. CASE u = t /\ (AskProse(t) \/ Sent(t))
        BY <2>1, <4>6 DEF AskProse, Sent, InPipeline
      <4> QED  BY <3>1, <4>1, <4>2, <4>3, <4>4, <4>5, <4>6
    <3> QED  BY <2>3, <3>2 DEF OnlyTransientFailuresAreRetryable
  <2>5. ASSUME NEW t \in Tasks, Pull(t) PROVE OnlyTransientFailuresAreRetryable'
    <3>1. ~InPipeline(t) /\ ~InPipeline(t)'
      BY <2>1, <2>5 DEF Pull, InPipeline
    <3>2. ASSUME NEW error \in raising'[t]
          PROVE  error.retryable <=> error.transient /\ ~error.limited
      <4>1. CASE raising'[t] = raising[t]
        BY <1>2, <3>1, <4>1 DEF OnlyTransientFailuresAreRetryable
      <4>2. CASE raising'[t] # raising[t]
        <5>1. PICK f \in Failure : raising'[t] = {report(f, caught(streaming_clauses, f))}
          BY <2>1, <2>5, <4>2 DEF Pull
        <5>2. error = report(f, caught(streaming_clauses, f))
          BY <5>1
        <5>3. /\ error.transient <=> f \in Transient
              /\ error.limited <=> f = "rate_limit"
              /\ error.retryable <=>
                    LLMErrorStatus[caught(streaming_clauses, f)] \in {429, 503, 504}
          BY <5>2 DEF report
        <5> QED  BY <5>3, StatusOfAFailure
      <4> QED  BY <4>1, <4>2
    <3>3. ASSUME NEW u \in Tasks, u # t
          PROVE  raising'[u] = raising[u] /\ (InPipeline(u)' <=> InPipeline(u))
      BY <2>1, <2>5, <3>3 DEF Pull, InPipeline
    <3> QED  BY <2>3, <3>1, <3>2, <3>3 DEF OnlyTransientFailuresAreRetryable
  <2>6. ASSUME NEW t \in Tasks, NEW result \in SdkResult, ModelReturns(t, result)
        PROVE  OnlyTransientFailuresAreRetryable'
    <3>1. serving' = serving /\ \A u \in Tasks : InPipeline(u)' <=> InPipeline(u)
      BY <2>6 DEF ModelReturns, InPipeline
    <3>2. CASE raising' = raising
      BY <2>3, <3>1, <3>2 DEF OnlyTransientFailuresAreRetryable
    <3>3. CASE raising' # raising
      <4>1. /\ ~complete_structured(result).ok
            /\ raising' = [raising EXCEPT ![t] =
                    {report(cause(result), complete_structured(result).code)}]
        BY <2>6, <3>3 DEF ModelReturns
      <4>2. PICK error : /\ error = report(cause(result), complete_structured(result).code)
                         /\ raising'[t] = {error}
        BY <2>1, <4>1
      <4>3. error.retryable <=> error.transient
        <5>1. CASE "raised" \in DOMAIN result
          <6>1. result.raised \in Failure
            BY <5>1 DEF SdkResult
          <6>2. complete_structured(result).code = caught(clauses, result.raised)
            BY <5>1 DEF complete_structured, failed
          <6> QED  BY <4>2, <5>1, <6>1, <6>2, StatusOfAFailure DEF cause, report
        <5>2. CASE "raised" \notin DOMAIN result
          <6>1. complete_structured(result) = failed("llm_invalid_output")
            BY <4>1, <5>2 DEF complete_structured, completion
          <6>2. complete_structured(result).code = "llm_invalid_output"
            BY <6>1 DEF failed
          <6>3. LLMErrorStatus["llm_invalid_output"] = 500 /\ "answer" \notin Transient
            BY DEF LLMErrorStatus, Transient
          <6> QED  BY <4>2, <5>2, <6>2, <6>3 DEF cause, report
        <5> QED  BY <5>1, <5>2
      <4>4. \A u \in Tasks : u # t => raising'[u] = raising[u]
        BY <2>1, <4>1
      <4>5. InPipeline(t)'
        <5>1. frames[t] # <<>>
          BY <2>6 DEF ModelReturns, Enclosing
        <5> QED  BY <1>2, <3>1, <5>1 DEF TraceInv, BlocksInv, BlocksOf
      <4> QED  BY <2>3, <3>1, <4>2, <4>3, <4>4, <4>5 DEF OnlyTransientFailuresAreRetryable
    <3> QED  BY <3>2, <3>3
  <2>7. CASE UNCHANGED vars
    BY <1>2, <2>7 DEF vars, callVars, InPipeline, OnlyTransientFailuresAreRetryable
  <2> QED  BY <1>2, <2>4, <2>5, <2>6, <2>7 DEF Next, Step, Returns
<1>3. Inv /\ [Next]_vars => Inv'
  BY <1>2, TraceStep
<1> QED  BY <1>1, <1>3, PTL DEF Spec

-----------------------------------------------------------------------------
(* What is counted. *)

\* Recording a span adds one to those that ended as it did.
LEMMA EndedOnClose ==
    ASSUME ObservedTypeInv, FreshInv, NEW t \in Tasks, NEW status \in SpanStatus,
           CloseSpan(t, status), NEW kind, NEW st
    PROVE  /\ Ended(kind, st) \in Nat
           /\ Ended(kind, st)' = IF Top(t).handle.kind = kind /\ status = st
                                 THEN Ended(kind, st) + 1 ELSE Ended(kind, st)
<1>1. PICK new : new = to_span(Top(t).handle, status)
  OBVIOUS
<1>2. spans' = spans \cup {new} /\ new \notin spans
  BY <1>1, NotYetRecorded DEF CloseSpan
<1>3. new.kind = Top(t).handle.kind /\ new.status = status
  BY <1>1 DEF to_span
<1>4. PICK S : S = {s \in spans : s.kind = kind /\ s.status = st}
  OBVIOUS
<1>5. IsFiniteSet(S) /\ new \notin S /\ Cardinality(S) \in Nat
  <2>1. S \subseteq spans
    BY <1>4
  <2>2. IsFiniteSet(S)
    BY <2>1, FS_Subset DEF FreshInv
  <2> QED  BY <1>2, <2>1, <2>2, FS_CardinalityType
<1>6. Cardinality(S \cup {new}) = Cardinality(S) + 1
  BY <1>5, FS_AddElement
<1>7. Ended(kind, st) = Cardinality(S)
  BY <1>4 DEF Ended
<1>8. CASE Top(t).handle.kind = kind /\ status = st
  <2>1. {s \in spans' : s.kind = kind /\ s.status = st} = S \cup {new}
    BY <1>2, <1>3, <1>4, <1>8
  <2>2. Ended(kind, st)' = Cardinality(S \cup {new})
    BY <2>1 DEF Ended
  <2> QED  BY <1>5, <1>6, <1>7, <1>8, <2>2
<1>9. CASE ~(Top(t).handle.kind = kind /\ status = st)
  <2>1. {s \in spans' : s.kind = kind /\ s.status = st} = S
    BY <1>2, <1>3, <1>4, <1>9
  <2>2. Ended(kind, st)' = Cardinality(S)
    BY <2>1 DEF Ended
  <2> QED  BY <1>5, <1>7, <1>9, <2>2
<1> QED  BY <1>8, <1>9

\* Nothing ends where no span is recorded.
LEMMA EndedUnchanged ==
    ASSUME spans' = spans, runs' = runs, RunsAgreeWithTheTrace
    PROVE  RunsAgreeWithTheTrace'
BY DEF RunsAgreeWithTheTrace, Ended

LEMMA RunsStep ==
    ASSUME TraceInv, RunsAgreeWithTheTrace, [Next]_vars
    PROVE  RunsAgreeWithTheTrace'
<1>t. ObservedTypeInv /\ FreshInv /\ runs \in [Run -> Nat] /\ BlocksInv
  BY DEF TraceInv, ObservedTypeInv, CallType
<1>k. /\ "ok" \in SpanStatus /\ "error" \in SpanStatus
      /\ {"request", "handler", "tool_ok", "tool_error"} = Run
  BY DEF SpanStatus, Run
<1>n. \A run \in Run : runs[run] \in Nat
  BY <1>t
<1>c. ASSUME NEW t \in Tasks, NEW status \in SpanStatus, CloseSpan(t, status)
      PROVE  /\ Ended("request", "ok") \in Nat /\ Ended("routing", "ok") \in Nat
             /\ Ended("tool", "error") \in Nat /\ Ended("tool", "ok") \in Nat
             /\ Ended("request", "ok")' = IF Top(t).handle.kind = "request" /\ status = "ok"
                    THEN Ended("request", "ok") + 1 ELSE Ended("request", "ok")
             /\ Ended("routing", "ok")' = IF Top(t).handle.kind = "routing" /\ status = "ok"
                    THEN Ended("routing", "ok") + 1 ELSE Ended("routing", "ok")
             /\ Ended("tool", "error")' = IF Top(t).handle.kind = "tool" /\ status = "error"
                    THEN Ended("tool", "error") + 1 ELSE Ended("tool", "error")
             /\ Ended("tool", "ok")' = IF Top(t).handle.kind = "tool" /\ status = "ok"
                    THEN Ended("tool", "ok") + 1 ELSE Ended("tool", "ok")
  BY <1>t, <1>c, EndedOnClose
<1>e. ASSUME NEW t \in Tasks, frames[t] # <<>> PROVE Top(t).handle.kind = Enclosing(t)
  BY <1>t, <1>e, EnclosingKind
<1>1. ASSUME NEW t \in Tasks, Begin(t) \/ Handle(t) \/ RunTool(t) \/ CallModel(t)
      PROVE  RunsAgreeWithTheTrace'
  BY <1>1, EndedUnchanged DEF Begin, Handle, RunTool, CallModel, OpenSpan, tracerVars
<1>2. ASSUME NEW t \in Tasks, Finish(t) PROVE RunsAgreeWithTheTrace'
  <2>1. CASE t \in HttpTasks
    <3>1. PICK status \in SpanStatus : /\ CloseSpan(t, status)
                                       /\ status = IF raising[t] = {} THEN "ok" ELSE "error"
      BY <1>2, <1>k, <2>1 DEF Finish
    <3>2. Top(t).handle.kind = "request"
      BY <1>2, <1>e, <2>1, <3>1 DEF Finish, CloseSpan
    <3>3. runs' = [runs EXCEPT !["request"] = IF status = "ok" THEN @ + 1 ELSE @]
      BY <1>2, <2>1, <3>1 DEF Finish, Count
    <3> QED  BY <1>c, <1>k, <1>t, <3>1, <3>2, <3>3 DEF RunsAgreeWithTheTrace
  <2>2. CASE t \notin HttpTasks
    <3>1. spans' = spans /\ runs' = runs
      BY <1>2, <1>k, <1>t, <2>2 DEF Finish, Count, tracerVars
    <3> QED  BY <3>1, EndedUnchanged
  <2> QED  BY <2>1, <2>2
<1>3. ASSUME NEW t \in Tasks, Handled(t) PROVE RunsAgreeWithTheTrace'
  <2>1. PICK status \in SpanStatus : /\ CloseSpan(t, status)
                                     /\ status = IF raising[t] = {} THEN "ok" ELSE "error"
    BY <1>3, <1>k DEF Handled
  <2>2. Top(t).handle.kind = "routing"
    BY <1>3, <1>e, <2>1 DEF Handled, CloseSpan
  <2>3. runs' = [runs EXCEPT !["handler"] = IF status = "ok" THEN @ + 1 ELSE @]
    BY <1>3, <2>1 DEF Handled, Count
  <2> QED  BY <1>c, <1>k, <1>t, <2>1, <2>2, <2>3 DEF RunsAgreeWithTheTrace
<1>4. ASSUME NEW t \in Tasks, ToolReturns(t) PROVE RunsAgreeWithTheTrace'
  <2>1. CASE CloseSpan(t, "ok") /\ Count("tool_ok", TRUE)
    <3>1. Top(t).handle.kind = "tool"
      BY <1>4, <1>e, <2>1 DEF ToolReturns, CloseSpan
    <3>2. runs' = [runs EXCEPT !["tool_ok"] = @ + 1]
      BY <2>1 DEF Count
    <3> QED  BY <1>c, <1>k, <1>n, <1>t, <2>1, <3>1, <3>2 DEF RunsAgreeWithTheTrace
  <2>2. CASE CloseSpan(t, "error") /\ Count("tool_error", TRUE)
    <3>1. Top(t).handle.kind = "tool"
      BY <1>4, <1>e, <2>2 DEF ToolReturns, CloseSpan
    <3>2. runs' = [runs EXCEPT !["tool_error"] = @ + 1]
      BY <2>2 DEF Count
    <3> QED  BY <1>c, <1>k, <1>n, <1>t, <2>2, <3>1, <3>2 DEF RunsAgreeWithTheTrace
  <2>3. CASE CloseSpan(t, "ok") /\ runs' = runs
    <3>1. Top(t).handle.kind = "tool"
      BY <1>4, <1>e, <2>3 DEF ToolReturns, CloseSpan
    <3> QED  BY <1>c, <1>k, <1>n, <1>t, <2>3, <3>1 DEF RunsAgreeWithTheTrace
  <2> QED  BY <1>4, <2>1, <2>2, <2>3 DEF ToolReturns
<1>5. ASSUME NEW t \in Tasks, Returns(t) PROVE RunsAgreeWithTheTrace'
  <2>1. PICK result \in SdkResult : ModelReturns(t, result)
    BY <1>5 DEF Returns
  <2>2. PICK status \in SpanStatus : CloseSpan(t, status)
    BY <1>k, <2>1 DEF ModelReturns
  <2>3. Top(t).handle.kind = "llm" /\ runs' = runs
    BY <1>e, <2>1, <2>2 DEF ModelReturns, CloseSpan
  <2> QED  BY <1>c, <2>2, <2>3 DEF RunsAgreeWithTheTrace
<1>6. ASSUME NEW t \in Tasks, AskProse(t) \/ Pull(t) \/ Sent(t) \/ Refused(t)
      PROVE  RunsAgreeWithTheTrace'
  BY <1>6, EndedUnchanged DEF AskProse, Pull, Sent, Refused, tracerVars
<1>7. CASE UNCHANGED vars
  BY <1>7, EndedUnchanged DEF vars, callVars, tracerVars
<1> QED  BY <1>1, <1>2, <1>3, <1>4, <1>5, <1>6, <1>7 DEF Next, Step

\* The ledger and the series against what was returned; the counters of the
\* runs have a proof of their own above.
CountingInv ==
    /\ SeriesInv
    /\ \A m \in Model :
            /\ ledger[m].calls = returned[m].calls /\ ledger[m].input = returned[m].input
            /\ ledger[m].output = returned[m].output
    /\ CostsAreExactToTheRounding
    /\ Counted("llm_calls_total", "calls")
    /\ Counted("llm_input_tokens_total", "input")
    /\ Counted("llm_output_tokens_total", "output")
    /\ \A metric \in Metric : Cardinality(DOMAIN counters[metric]) <= MAX_SERIES

\* The names a completion counts under: its model, and its label.
LEMMA StandsForLabel ==
    ASSUME NEW m \in Model
    PROVE  /\ \A name \in Model : StandsFor(name, m) <=> name = m
           /\ \A l \in Label : StandsFor(l, m) <=> l = safe_value(m)
BY AccountingAssumption DEF StandsFor, safe_value, Label

\* One series of one metric, after one completion: it was counted all along, or
\* is counted from its first call on, or the metric was full before that call.
LEMMA CountedStep ==
    ASSUME ObservedTypeInv, SeriesInv, NEW m \in Model, NEW metric \in Metric,
           NEW field \in {"calls", "input", "output"}, NEW by \in Nat, NEW usage,
           Counted(metric, field), Cardinality(DOMAIN counters[metric]) <= MAX_SERIES,
           Account(m, usage), by = CountedBy(metric, usage),
           \A l \in Label :
              /\ l = safe_value(m) => /\ returned'[l][field] = returned[l][field] + by
                                      /\ returned'[l].calls = returned[l].calls + 1
              /\ l # safe_value(m) => returned'[l] = returned[l]
    PROVE  /\ Counted(metric, field)'
           /\ IsFiniteSet(DOMAIN counters'[metric])
           /\ Cardinality(DOMAIN counters'[metric]) <= MAX_SERIES
<1>1. PICK label \in Label : label = safe_value(m)
  BY LabelType
<1>2. PICK store : store = counters[metric]
  OBVIOUS
<1>3. /\ store \in [DOMAIN store -> Nat] /\ DOMAIN store \subseteq Label
      /\ IsFiniteSet(DOMAIN store) /\ Cardinality(DOMAIN store) \in Nat
      /\ Cardinality(DOMAIN store) <= MAX_SERIES /\ MAX_SERIES \in Nat
  <2>1. IsFiniteSet(DOMAIN store)
    BY <1>2 DEF SeriesInv
  <2> QED  BY <1>2, <2>1, FS_CardinalityType, AccountingAssumption DEF ObservedTypeInv, AccountingType
<1>4. PICK new : new = increment(store, label, by)
  OBVIOUS
<1>5. counters'[metric] = new
  BY <1>1, <1>2, <1>4, AccountCounters DEF ObservedTypeInv
<1>6. dropped' = dropped \cup {x \in Metric : ~Tracked(counters[x], label)}
  BY <1>1 DEF Account
<1>7. \A l \in Label : returned[l].calls \in Nat /\ returned[l][field] \in Nat
  <2>1. Label \subseteq Name
    BY DEF Label, Name
  <2> QED  BY <2>1 DEF ObservedTypeInv, CallType, Sum
<1>8. CASE ~Tracked(store, label)
  <2>1. new = store /\ label \notin DOMAIN store /\ Cardinality(DOMAIN store) = MAX_SERIES
    BY <1>3, <1>4, <1>8 DEF increment, Tracked
  <2>2. metric \in dropped'
    BY <1>2, <1>6, <1>8
  <2>3. ASSUME NEW l \in Label
        PROVE  IF l \in DOMAIN new THEN new[l] = returned'[l][field]
               ELSE returned'[l].calls > 0 =>
                       Cardinality(DOMAIN new) = MAX_SERIES /\ metric \in dropped'
    <3>1. CASE l \in DOMAIN store
      BY <1>1, <1>2, <2>1, <3>1 DEF Counted
    <3>2. CASE l \notin DOMAIN store
      BY <2>1, <2>2, <3>2
    <3> QED  BY <3>1, <3>2
  <2> QED  BY <1>3, <1>5, <2>1, <2>3 DEF Counted
<1>9. CASE Tracked(store, label)
  <2>1. new = [l \in DOMAIN store \cup {label} |->
             (IF l \in DOMAIN store THEN store[l] ELSE 0) + (IF l = label THEN by ELSE 0)]
    BY <1>4, <1>9 DEF increment
  <2>2. DOMAIN new = DOMAIN store \cup {label}
    BY <2>1
  <2>3. /\ IsFiniteSet(DOMAIN new)
        /\ label \in DOMAIN store => DOMAIN new = DOMAIN store
        /\ label \notin DOMAIN store => Cardinality(DOMAIN new) = Cardinality(DOMAIN store) + 1
    <3>1. label \in DOMAIN store => DOMAIN store \cup {label} = DOMAIN store
      OBVIOUS
    <3>2. /\ IsFiniteSet(DOMAIN store \cup {label})
          /\ label \notin DOMAIN store =>
                Cardinality(DOMAIN store \cup {label}) = Cardinality(DOMAIN store) + 1
      BY <1>3, FS_AddElement
    <3> QED  BY <2>2, <3>1, <3>2
  <2>4. Cardinality(DOMAIN new) <= MAX_SERIES
    BY <1>3, <1>9, <2>3 DEF Tracked
  <2>5. ASSUME NEW l \in Label
        PROVE  IF l \in DOMAIN new THEN new[l] = returned'[l][field]
               ELSE returned'[l].calls > 0 =>
                       Cardinality(DOMAIN new) = MAX_SERIES /\ metric \in dropped'
    <3>1. CASE l \in DOMAIN store
      <4>1. store[l] = returned[l][field] /\ store[l] \in Nat
        BY <1>2, <1>3, <3>1 DEF Counted
      <4>2. new[l] = store[l] + (IF l = label THEN by ELSE 0)
        BY <2>1, <3>1
      <4>3. CASE l = label
        BY <1>1, <2>2, <3>1, <4>1, <4>2, <4>3
      <4>4. CASE l # label
        BY <1>1, <2>2, <3>1, <4>1, <4>2, <4>4
      <4> QED  BY <4>3, <4>4
    <3>2. CASE l \notin DOMAIN store /\ l = label
      <4>1. Cardinality(DOMAIN store) < MAX_SERIES
        BY <1>9, <3>2 DEF Tracked
      <4>2. ~(returned[l].calls > 0)
        BY <1>2, <1>3, <3>2, <4>1 DEF Counted
      <4>3. returned[l].calls = 0
        BY <1>7, <4>2
      <4>4. l \in Name
        BY DEF Label, Name
      <4>5. returned[l][field] = 0
        BY <4>3, <4>4 DEF SeriesInv
      <4>6. new[l] = by /\ l \in DOMAIN new
        BY <2>1, <3>2
      <4>7. returned'[l][field] = by
        BY <1>1, <3>2, <4>5
      <4> QED  BY <4>6, <4>7
    <3>3. CASE l \notin DOMAIN store /\ l # label
      <4>1. returned'[l] = returned[l] /\ l \notin DOMAIN new
        BY <1>1, <2>2, <3>3
      <4>2. returned[l].calls > 0 => Cardinality(DOMAIN store) = MAX_SERIES /\ metric \in dropped
        BY <1>2, <3>3 DEF Counted
      <4>3. Cardinality(DOMAIN store) = MAX_SERIES => DOMAIN new = DOMAIN store
        BY <1>3, <1>9, <2>3 DEF Tracked
      <4> QED  BY <1>6, <4>1, <4>2, <4>3
    <3> QED  BY <3>1, <3>2, <3>3
  <2> QED  BY <1>5, <2>3, <2>4, <2>5 DEF Counted
<1> QED  BY <1>8, <1>9

\* A cost is right to half a microdollar for each rounded figure.
Within(cost, calls, input, output, pi, po) ==
    /\ 100 * cost <= (input * pi + output * po) + 50 * 2 * calls
    /\ 100 * cost >= (input * pi + output * po) - 50 * 2 * calls

\* The price of one more call: the two products are rounded apart, and each is
\* off by at most half a microdollar.
LEMMA OneMorePrice ==
    ASSUME NEW ri \in Nat, NEW ro \in Nat, NEW i \in Nat, NEW o \in Nat,
           NEW pi \in Nat, NEW po \in Nat, NEW calls \in Nat, NEW cost \in Nat,
           Within(cost, calls, ri, ro, pi, po)
    PROVE  Within(cost + (cost_of(i, pi) + cost_of(o, po)), calls + 1, ri + i, ro + o, pi, po)
<1>1. (ri + i) * pi = ri * pi + i * pi
  OBVIOUS
<1>2. (ro + o) * po = ro * po + o * po
  OBVIOUS
<1>3. PICK a \in Nat : a = ri * pi
  OBVIOUS
<1>4. PICK b \in Nat : b = ro * po
  OBVIOUS
<1>5. PICK x \in Nat : x = i * pi
  OBVIOUS
<1>6. PICK y \in Nat : y = o * po
  OBVIOUS
<1>7. PICK q \in Nat : q = cost_of(i, pi) /\ 100 * q <= x + 50 /\ 100 * q >= x - 49
  BY <1>5, Rounded DEF cost_of
<1>8. PICK r \in Nat : r = cost_of(o, po) /\ 100 * r <= y + 50 /\ 100 * r >= y - 49
  BY <1>6, Rounded DEF cost_of
<1>9. /\ 100 * (cost + (q + r)) <= ((a + x) + (b + y)) + 50 * 2 * (calls + 1)
      /\ 100 * (cost + (q + r)) >= ((a + x) + (b + y)) - 50 * 2 * (calls + 1)
  <2>1. 100 * cost <= (a + b) + 50 * 2 * calls /\ 100 * cost >= (a + b) - 50 * 2 * calls
    BY <1>3, <1>4 DEF Within
  <2> QED  BY <1>7, <1>8, <2>1
<1> QED  BY <1>1, <1>2, <1>3, <1>4, <1>5, <1>6, <1>7, <1>8, <1>9 DEF Within

\* A step that accounts nothing.
LEMMA CountingUnchanged ==
    ASSUME CountingInv, UNCHANGED accountingVars, returned' = returned
    PROVE  CountingInv'
BY DEF CountingInv, accountingVars, SeriesInv, CostsAreExactToTheRounding, Counted

\* A completion is accounted once, in the ledger, its cost and three series.
LEMMA CompletionCounted ==
    ASSUME ObservedTypeInv, CountingInv, NEW m \in Model, NEW usage,
           usage.input_tokens \in Nat, usage.output_tokens \in Nat, Account(m, usage),
           returned' = [name \in Name |->
                 IF StandsFor(name, m) THEN plus(returned[name], usage) ELSE returned[name]]
    PROVE  CountingInv'
<1>1. PICK i \in Nat : i = usage.input_tokens
  OBVIOUS
<1>2. PICK o \in Nat : o = usage.output_tokens
  OBVIOUS
<1>3. \A name \in Name : returned[name] \in Sum
  BY DEF ObservedTypeInv, CallType
<1>4. ASSUME NEW name \in Name
      PROVE  /\ returned[name].calls \in Nat /\ returned[name].input \in Nat
             /\ returned[name].output \in Nat
             /\ StandsFor(name, m) => /\ returned'[name].calls = returned[name].calls + 1
                                      /\ returned'[name].input = returned[name].input + i
                                      /\ returned'[name].output = returned[name].output + o
             /\ ~StandsFor(name, m) => returned'[name] = returned[name]
  BY <1>1, <1>2, <1>3 DEF Sum, plus
<1>5. Model \subseteq Name /\ Label \subseteq Name
  BY DEF Name, Label
<1>6. \A l \in Label :
        /\ l = safe_value(m) => /\ returned'[l].calls = returned[l].calls + 1
                                /\ returned'[l].input = returned[l].input + i
                                /\ returned'[l].output = returned[l].output + o
        /\ l # safe_value(m) => returned'[l] = returned[l]
  BY <1>4, <1>5, StandsForLabel
<1>7. \A name \in Model :
        /\ name = m => /\ returned'[name].calls = returned[name].calls + 1
                       /\ returned'[name].input = returned[name].input + i
                       /\ returned'[name].output = returned[name].output + o
        /\ name # m => returned'[name] = returned[name]
  BY <1>4, <1>5, StandsForLabel
<1>8. PICK est \in Totals : est = estimate_cost(m, usage)
  BY EstimateType
<1>9. est.calls = 1 /\ est.input = i /\ est.output = o
  BY <1>1, <1>2, <1>8 DEF estimate_cost
<1>10. ledger' = [ledger EXCEPT ![m] = added(@, est)] /\ ledger \in [Model -> Totals]
  BY <1>8 DEF Account, ObservedTypeInv, AccountingType
<1>11. /\ ledger'[m] = [calls |-> ledger[m].calls + 1, input |-> ledger[m].input + i,
                        output |-> ledger[m].output + o, cost |-> ledger[m].cost + est.cost]
       /\ \A name \in Model : name # m => ledger'[name] = ledger[name]
  <2>1. ledger[m] \in Totals
    BY <1>10
  <2>2. ledger'[m] = added(ledger[m], est)
    BY <1>10
  <2>3. added(ledger[m], est) = [calls |-> ledger[m].calls + est.calls, input |-> ledger[m].input + est.input,
           output |-> ledger[m].output + est.output, cost |-> ledger[m].cost + est.cost]
    BY <2>1, AddedFields
  <2> QED  BY <1>9, <1>10, <2>2, <2>3
<1>12. ASSUME NEW name \in Model
       PROVE  /\ ledger'[name].calls = returned'[name].calls
              /\ ledger'[name].input = returned'[name].input
              /\ ledger'[name].output = returned'[name].output
  <2>1. /\ ledger[name].calls = returned[name].calls /\ ledger[name].input = returned[name].input
        /\ ledger[name].output = returned[name].output
    BY DEF CountingInv
  <2>2. CASE name = m
    BY <1>7, <1>11, <2>1, <2>2
  <2>3. CASE name # m
    BY <1>7, <1>11, <2>1, <2>3
  <2> QED  BY <2>2, <2>3
<1>13. ASSUME NEW name \in DOMAIN Price
       PROVE  Within(ledger'[name].cost, returned'[name].calls, returned'[name].input,
                     returned'[name].output, Price[name].input, Price[name].output)
  <2>1. name \in Model /\ Price[name].input \in Nat /\ Price[name].output \in Nat
    BY AccountingAssumption
  <2>2. Within(ledger[name].cost, returned[name].calls, returned[name].input,
               returned[name].output, Price[name].input, Price[name].output)
    BY DEF CountingInv, CostsAreExactToTheRounding, Within
  <2>3. CASE name # m
    BY <1>7, <1>11, <2>1, <2>2, <2>3
  <2>4. CASE name = m
    <3>1. PICK pi \in Nat : pi = Price[name].input
      BY <2>1
    <3>2. PICK po \in Nat : po = Price[name].output
      BY <2>1
    <3>3. PICK ri \in Nat : ri = returned[name].input
      BY <1>4, <1>5, <2>1
    <3>4. PICK ro \in Nat : ro = returned[name].output
      BY <1>4, <1>5, <2>1
    <3>5. PICK calls \in Nat : calls = returned[name].calls
      BY <1>4, <1>5, <2>1
    <3>6. PICK cost \in Nat : cost = ledger[name].cost
      <4>1. ledger[name] \in Totals
        BY <1>10, <2>1
      <4> QED  BY <4>1 DEF Totals
    <3>7. est.cost = cost_of(i, pi) + cost_of(o, po)
      BY <1>1, <1>2, <1>8, <2>4, <3>1, <3>2 DEF estimate_cost
    <3>8. Within(cost, calls, ri, ro, pi, po)
      BY <2>2, <3>1, <3>2, <3>3, <3>4, <3>5, <3>6
    <3>9. PICK next : next = cost + (cost_of(i, pi) + cost_of(o, po))
      OBVIOUS
    <3>10. Within(next, calls + 1, ri + i, ro + o, pi, po)
      BY <3>8, <3>9, OneMorePrice
    <3>11. ledger'[name].cost = next
      BY <1>11, <2>4, <3>6, <3>7, <3>9
    <3>12. /\ returned'[name].calls = calls + 1 /\ returned'[name].input = ri + i
           /\ returned'[name].output = ro + o
      BY <1>7, <2>1, <2>4, <3>3, <3>4, <3>5
    <3> QED  BY <3>1, <3>2, <3>10, <3>11, <3>12
  <2> QED  BY <2>3, <2>4
<1>14. CostsAreExactToTheRounding'
  BY <1>13 DEF CostsAreExactToTheRounding, Within
<1>15. /\ CountedBy("llm_calls_total", usage) = 1
       /\ CountedBy("llm_input_tokens_total", usage) = i
       /\ CountedBy("llm_output_tokens_total", usage) = o
  BY <1>1, <1>2 DEF CountedBy
<1>16. SeriesInv /\ \A metric \in Metric : Cardinality(DOMAIN counters[metric]) <= MAX_SERIES
  BY DEF CountingInv
<1>17. /\ Counted("llm_calls_total", "calls")'
       /\ IsFiniteSet(DOMAIN counters'["llm_calls_total"])
       /\ Cardinality(DOMAIN counters'["llm_calls_total"]) <= MAX_SERIES
  <2>1. "llm_calls_total" \in Metric /\ "calls" \in {"calls", "input", "output"} /\ 1 \in Nat
    BY DEF Metric
  <2>2. Counted("llm_calls_total", "calls")
    BY DEF CountingInv
  <2> QED  BY <1>6, <1>15, <1>16, <2>1, <2>2, CountedStep
<1>18. /\ Counted("llm_input_tokens_total", "input")'
       /\ IsFiniteSet(DOMAIN counters'["llm_input_tokens_total"])
       /\ Cardinality(DOMAIN counters'["llm_input_tokens_total"]) <= MAX_SERIES
  <2>1. "llm_input_tokens_total" \in Metric /\ "input" \in {"calls", "input", "output"}
    BY DEF Metric
  <2>2. Counted("llm_input_tokens_total", "input")
    BY DEF CountingInv
  <2> QED  BY <1>6, <1>15, <1>16, <2>1, <2>2, CountedStep
<1>19. /\ Counted("llm_output_tokens_total", "output")'
       /\ IsFiniteSet(DOMAIN counters'["llm_output_tokens_total"])
       /\ Cardinality(DOMAIN counters'["llm_output_tokens_total"]) <= MAX_SERIES
  <2>1. "llm_output_tokens_total" \in Metric /\ "output" \in {"calls", "input", "output"}
    BY DEF Metric
  <2>2. Counted("llm_output_tokens_total", "output")
    BY DEF CountingInv
  <2> QED  BY <1>6, <1>15, <1>16, <2>1, <2>2, CountedStep
<1>20. ASSUME NEW name \in Name, returned'[name].calls = 0
       PROVE  returned'[name].input = 0 /\ returned'[name].output = 0
  <2>1. ~StandsFor(name, m)
    BY <1>4, <1>20
  <2> QED  BY <1>4, <1>16, <1>20, <2>1 DEF SeriesInv
<1>21. SeriesInv'
  BY <1>17, <1>18, <1>19, <1>20 DEF SeriesInv, Metric
<1> QED  BY <1>12, <1>14, <1>17, <1>18, <1>19, <1>21 DEF CountingInv, Metric

LEMMA CountingStep ==
    ASSUME ObservedTypeInv, CountingInv, [Next]_vars
    PROVE  CountingInv'
<1>1. ASSUME NEW t \in Tasks, NEW result \in SdkResult, ModelReturns(t, result)
      PROVE  CountingInv'
  <2>1. CASE complete_structured(result).ok
    <3>1. PICK m \in Model : m = result.response.model /\ m = complete_structured(result).model
      BY <2>1, CompletionType
    <3>2. PICK usage : /\ usage = result.response.usage
                       /\ usage = complete_structured(result).usage
                       /\ usage.input_tokens \in Nat /\ usage.output_tokens \in Nat
      BY <2>1, CompletionType
    <3>3. Account(m, usage)
      BY <1>1, <2>1, <3>1, <3>2 DEF ModelReturns, Accounts
    <3>4. returned' = [name \in Name |->
                 IF StandsFor(name, m) THEN plus(returned[name], usage) ELSE returned[name]]
      BY <1>1, <2>1, <3>1, <3>2 DEF ModelReturns
    <3> QED  BY <3>2, <3>3, <3>4, CompletionCounted
  <2>2. CASE ~complete_structured(result).ok
    BY <1>1, <2>2, CountingUnchanged DEF ModelReturns, Accounts
  <2> QED  BY <2>1, <2>2
<1>2. ASSUME NEW t \in Tasks,
             Begin(t) \/ Finish(t) \/ Handle(t) \/ Handled(t) \/ RunTool(t) \/ ToolReturns(t)
             \/ CallModel(t) \/ AskProse(t) \/ Pull(t) \/ Sent(t) \/ Refused(t)
      PROVE  CountingInv'
  BY <1>2, CountingUnchanged
  DEF Begin, Finish, Handle, Handled, RunTool, ToolReturns, CallModel, AskProse, Pull, Sent, Refused
<1>3. CASE UNCHANGED vars
  BY <1>3, CountingUnchanged DEF vars, callVars
<1> QED  BY <1>1, <1>2, <1>3 DEF Next, Step, Returns

\* The ledger and the metrics add up to what the provider returned, the money
\* to its rounding, whatever succeeded, failed or was cancelled in between; no
\* metric has more series than its cap; and the counters of requests, handlers
\* and tools agree with the spans: for any number of tasks, models and prices.
THEOREM EveryCallIsCountedOnce == Spec => []CallsAreCountedOnce
<1> DEFINE Inv == TraceInv /\ CountingInv /\ RunsAgreeWithTheTrace
<1>1. Init => Inv
  <2> SUFFICES ASSUME Init PROVE Inv
    OBVIOUS
  <2>1. SeriesInv
    BY FS_EmptySet DEF Init, AccountingInit, SeriesInv
  <2>2. \A metric \in Metric : DOMAIN counters[metric] = {} /\ Cardinality(DOMAIN counters[metric]) = 0
    BY FS_EmptySet DEF Init, AccountingInit
  <2>3. Label \subseteq Name /\ Model \subseteq Name
    BY DEF Label, Name
  <2>4. \A name \in Name : returned[name] = [calls |-> 0, input |-> 0, output |-> 0]
    BY DEF Init
  <2>5. \A metric \in Metric, field \in {"calls", "input", "output"} : Counted(metric, field)
    BY <2>2, <2>3, <2>4 DEF Counted
  <2>6. CostsAreExactToTheRounding
    <3>1. ASSUME NEW m \in DOMAIN Price
          PROVE  /\ ledger[m].cost = 0 /\ returned[m].input = 0 /\ returned[m].output = 0
                 /\ returned[m].calls = 0 /\ Price[m].input \in Nat /\ Price[m].output \in Nat
      BY <2>3, <2>4, AccountingAssumption DEF Init, AccountingInit, NoCalls
    <3>2. \A n \in Nat : 0 * n = 0
      OBVIOUS
    <3> QED  BY <3>1, <3>2 DEF CostsAreExactToTheRounding
  <2>7. MAX_SERIES \in Nat
    BY AccountingAssumption
  <2>8. CountingInv
    BY <2>1, <2>2, <2>3, <2>4, <2>5, <2>6, <2>7
    DEF CountingInv, Metric, Init, AccountingInit, NoCalls
  <2>9. RunsAgreeWithTheTrace
    <3>1. \A kind, st : {s \in spans : s.kind = kind /\ s.status = st} = {}
      BY DEF Init, TracerInit
    <3>2. \A kind, st : Ended(kind, st) = 0
      BY <3>1, FS_EmptySet DEF Ended
    <3> QED  BY <3>2 DEF Init, Run, RunsAgreeWithTheTrace
  <2> QED  BY <2>8, <2>9, TraceInit
<1>2. Inv /\ [Next]_vars => Inv'
  BY TraceStep, CountingStep, RunsStep DEF TraceInv
<1>3. Inv => CallsAreCountedOnce
  <2> SUFFICES ASSUME CountingInv, RunsAgreeWithTheTrace PROVE CallsAreCountedOnce
    OBVIOUS
  <2>1. \A m \in Model : \A field \in {"calls", "input", "output"} :
            ledger[m][field] = returned[m][field]
    BY DEF CountingInv
  <2> QED  BY <2>1 DEF CountingInv, CallsAreCountedOnce
<1> QED  BY <1>1, <1>2, <1>3, PTL DEF Spec

=============================================================================
