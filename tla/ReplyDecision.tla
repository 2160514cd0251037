---------------------------- MODULE ReplyDecision ----------------------------
(***************************************************************************)
(* The deterministic decisions about a reply: which handler answers        *)
(* (backend/app/routing), what policy makes of the answer                  *)
(* (backend/app/policy), whether a person is asked                         *)
(* (backend/app/escalation/criteria.py).                                   *)
(*                                                                         *)
(* A text is abstracted to what these rules look at: whether it commits to *)
(* a financial outcome, whether it mentions a support agent, whether it is *)
(* one of the fixed texts.  Confidence is a number on a scale on which the *)
(* threshold lies too.                                                     *)
(***************************************************************************)
EXTENDS Integers, Sequences

CONSTANTS
    Confidence,    \* the confidence values a classification may report
    MinConfidence  \* settings.routing_min_confidence

ASSUME ConfidenceAssumption == Confidence \subseteq Int /\ MinConfidence \in Int

IntentCategory ==
    {"billing", "technical_support", "account", "product_question",
     "complaint", "other"}

IntentAnalysis == [intent : IntentCategory, confidence : Confidence]

\* What a model may write: an answer, one that mentions a support agent, one
\* that matches COMMITMENT_PATTERNS.
ModelText == {"answer", "referral", "promise"}

\* The fixed texts: NO_SOURCES_ANSWER, BUDGET_ANSWER and PROVIDER_ANSWER are
\* "apology"; UNRESOLVED; REVIEW_REPLY; "noticed" ends in HANDOFF_NOTICE.
Text == ModelText \cup {"apology", "unresolved", "review", "noticed"}

EscalationReason ==
    {"unresolved", "complaint", "uncategorised", "low_confidence", "policy"}

-----------------------------------------------------------------------------
(* Handlers and the responses each of them can give. *)

response(reply, handled, cited) ==
    [reply |-> reply, handled |-> handled, cited |-> cited]

\* AnswerService.answer: without sources it says so; with sources the model
\* answers, says whether it could, and cites some of them or none.
KnowledgeBase ==
    {response("apology", FALSE, FALSE)}
        \cup [reply : ModelText, handled : BOOLEAN, cited : BOOLEAN]

\* AgentLoop.run: an answer, or BUDGET_ANSWER in place of an empty one, is a
\* completed run; a spent budget or a failing provider is not.
Agent ==
    {response("apology", FALSE, FALSE)}
        \cup [reply : ModelText \cup {"apology"}, handled : {TRUE}, cited : {FALSE}]

\* The agent is asked when the documents do not have the answer.
DocumentedFirst == {d \in KnowledgeBase : d.handled} \cup Agent

Fallback == {response("unresolved", FALSE, FALSE)}

Responses ==
    [knowledge_base |-> KnowledgeBase,
     agent |-> Agent,
     documented_first |-> DocumentedFirst,
     fallback |-> Fallback]

\* build_router: the registry covers every category (require_complete).
registry ==
    [product_question |-> "knowledge_base",
     account |-> "knowledge_base",
     billing |-> "documented_first",
     technical_support |-> "agent",
     complaint |-> "agent",
     other |-> "fallback"]

\* IntentRouter.decide: the handler that is asked.
decide(analysis) ==
    IF analysis.intent = "other" \/ analysis.confidence < MinConfidence
    THEN "fallback"
    ELSE registry[analysis.intent]

-----------------------------------------------------------------------------
(* Policy and escalation. *)

\* DEFAULT_RULES, any of which replaces the reply by REVIEW_REPLY.
PolicyReplaces(analysis, r) ==
    \/ r.reply = "promise"
    \/ analysis.intent = "complaint"
    \/ ~r.handled

\* PolicyEnforcer.enforce and the end of IntentRouter.route: a reply that was
\* changed loses its citations.
enforce(analysis, r) ==
    LET reply == IF PolicyReplaces(analysis, r) THEN "review" ELSE r.reply IN
    [reply |-> reply,
     handled |-> r.handled,
     modified |-> reply # r.reply,
     cited |-> r.cited /\ reply = r.reply]

\* MUTANT: that policy stepped in is no reason to escalate.
evaluate_without_policy(analysis, routed) ==
    LET when(holds, reason) == IF holds THEN <<reason>> ELSE <<>> IN
       when(~routed.handled, "unresolved")
    \o when(analysis.intent = "complaint", "complaint")
    \o when(analysis.intent = "other", "uncategorised")
    \o when(analysis.intent # "other" /\ analysis.confidence < MinConfidence,
            "low_confidence")

\* EscalationCriteria.evaluate: the reasons, the primary one first.
evaluate(analysis, routed) ==
    LET when(holds, reason) == IF holds THEN <<reason>> ELSE <<>> IN
       when(~routed.handled, "unresolved")
    \o when(analysis.intent = "complaint", "complaint")
    \o when(analysis.intent = "other", "uncategorised")
    \o when(analysis.intent # "other" /\ analysis.confidence < MinConfidence,
            "low_confidence")
    \o when(routed.modified, "policy")

\* _with_notice: said only to a customer who was not told already.
with_notice(reply) ==
    IF reply \in {"referral", "unresolved", "review"} THEN reply ELSE "noticed"

=============================================================================
