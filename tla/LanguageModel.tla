--------------------------- MODULE LanguageModel ----------------------------
(***************************************************************************)
(* One call of a language-model provider: what the SDK may return or       *)
(* raise, and what GroqProvider and GroqStreamingProvider make of it.  The *)
(* SDK is external: an exception is the set of classes it is an instance   *)
(* of, because the except clauses are tried in order and the first that    *)
(* catches wins.                                                           *)
(***************************************************************************)
EXTENDS Integers, Sequences, FiniteSets

CONSTANTS
    Model,      \* the model names a response may carry
    LLMUsage    \* the token counts it may report: zeros when there are none

ASSUME UsageAssumption == LLMUsage \subseteq [input_tokens : Nat, output_tokens : Nat]

\* llm.errors: the code of each LLMError, and the HTTP status it is given.
LLMErrorStatus ==
    [llm_error |-> 500, llm_configuration_error |-> 500, llm_rate_limited |-> 429,
     llm_timeout |-> 504, llm_unavailable |-> 503, llm_request_error |-> 500,
     llm_invalid_output |-> 500]

LLMErrorCode == DOMAIN LLMErrorStatus

-----------------------------------------------------------------------------
(* The SDK. *)

\* What the awaited call may raise: asyncio's deadline, or an SDK failure.
Failure == {"deadline", "attempt_timeout", "rate_limit", "authentication",
            "permission", "not_found", "bad_request", "unprocessable",
            "conflict", "server", "connection", "malformed"}

\* The classes a failure is an instance of.
classes(f) ==
    CASE f = "deadline" -> {"TimeoutError"}
      [] f = "attempt_timeout" -> {"APITimeoutError", "APIConnectionError", "APIError"}
      [] f = "rate_limit" -> {"RateLimitError", "APIStatusError", "APIError"}
      [] f \in {"authentication", "permission", "not_found"} ->
             {"AccessError", "APIStatusError", "APIError"}
      [] f \in {"bad_request", "unprocessable"} ->
             {"RejectedError", "APIStatusError", "APIError"}
      [] f = "conflict" -> {"APIStatusError", "APIError"}
      [] f = "server" -> {"APIStatusError", "ServerStatus", "APIError"}
      [] f = "connection" -> {"APIConnectionError", "APIError"}
      [] f = "malformed" -> {"APIError"}

\* The failures a later attempt could get past.
Transient == {"deadline", "attempt_timeout", "rate_limit", "server", "connection"}

\* A response: its text, its token counts, the model it names.
Response == [content : {"none", "off_schema", "valid"}, usage : LLMUsage, model : Model]

\* What complete_structured's await on the SDK ends with.
SdkResult == [raised : Failure] \cup [response : Response]

-----------------------------------------------------------------------------
(* The providers. *)

clause(class, code) == [class |-> class, code |-> code]

\* MUTANT: the clause of a base class before the one of its subclass.
clauses_base_first ==
    << clause("TimeoutError", "llm_timeout"),
       clause("APIConnectionError", "llm_unavailable"),
       clause("APITimeoutError", "llm_timeout"),
       clause("APIStatusError", "llm_error"),
       clause("RateLimitError", "llm_rate_limited"),
       clause("APIError", "llm_error") >>

\* The except clauses of GroqProvider._request, in order; the one for
\* APIStatusError looks at the status.
clauses ==
    << clause("TimeoutError", "llm_timeout"),
       clause("APITimeoutError", "llm_timeout"),
       clause("RateLimitError", "llm_rate_limited"),
       clause("AccessError", "llm_configuration_error"),
       clause("RejectedError", "llm_request_error"),
       clause("ServerStatus", "llm_unavailable"),
       clause("APIStatusError", "llm_error"),
       clause("APIConnectionError", "llm_unavailable"),
       clause("APIError", "llm_error") >>

\* The clauses of GroqStreamingProvider.stream_text: the same list written out
\* again, in which a rate limit is an llm_error.
streaming_clauses ==
    [i \in DOMAIN clauses |->
        IF clauses[i].class = "RateLimitError"
        THEN [clauses[i] EXCEPT !.code = "llm_error"]
        ELSE clauses[i]]

\* The code of the first clause that catches failure f.
caught(list, f) ==
    LET catches == {i \in DOMAIN list : list[i].class \in classes(f)}
    IN  list[CHOOSE i \in catches : \A j \in catches : i <= j].code

\* What a caller of complete_structured gets: a completion, or an LLMError.
Outcome ==
    [ok : {TRUE}, model : Model, usage : LLMUsage] \cup [ok : {FALSE}, code : LLMErrorCode]

completion(model, usage) == [ok |-> TRUE, model |-> model, usage |-> usage]

failed(code) == [ok |-> FALSE, code |-> code]

\* GroqProvider.complete_structured: a failure is translated, and a response
\* without text, or with text that does not validate, is no answer.
complete_structured(result) ==
    IF "raised" \in DOMAIN result THEN failed(caught(clauses, result.raised))
    ELSE IF result.response.content = "valid"
    THEN completion(result.response.model, result.response.usage)
    ELSE failed("llm_invalid_output")

=============================================================================
