----------------------------- MODULE Accounting -----------------------------
(***************************************************************************)
(* What a model call cost: estimate_cost against the configured price      *)
(* list, the UsageLedger that adds the estimates up, and InMemoryMetrics,  *)
(* which keeps at most MAX_SERIES label combinations of each metric.       *)
(* Money is in microdollars; a price is in hundredths of a dollar per      *)
(* million tokens, so a token costs Price/100 microdollars.                *)
(***************************************************************************)
EXTENDS LanguageModel

CONSTANTS
    Price,      \* PricingTable: some models -> [input, output]
    Prose,      \* the model names that hold whitespace
    Omitted,    \* what sanitise_attributes puts in their place
    MAX_SERIES  \* MAX_SERIES_PER_METRIC

ASSUME AccountingAssumption ==
    /\ DOMAIN Price \subseteq Model
    /\ \A m \in DOMAIN Price : Price[m] \in [input : Nat, output : Nat]
    /\ Prose \subseteq Model
    /\ Omitted \notin Model
    /\ MAX_SERIES \in Nat \ {0}

VARIABLES
    ledger,     \* UsageLedger: what its entries for each model add up to
    counters,   \* InMemoryMetrics._counters: metric -> labels -> count
    dropped     \* InMemoryMetrics._dropped

accountingVars == <<ledger, counters, dropped>>

Metric == {"llm_calls_total", "llm_input_tokens_total", "llm_output_tokens_total"}

\* MUTANT: an attribute is taken as it comes.
safe_value_raw(name) == name

\* safe_value, for a model name: prose is replaced.
safe_value(name) == IF name \in Prose THEN Omitted ELSE name

\* _labels: the provider is the same for every call, the model is not.
Label == (Model \ Prose) \cup {Omitted}

\* Decimal.quantize(COST_PRECISION, ROUND_HALF_UP), of a quotient by 100.
quantize(hundredths) == (hundredths + 50) \div 100

cost_of(tokens, price) == quantize(tokens * price)

\* UsageLedger.calls, input_tokens, output_tokens and by_model.
Totals == [calls : Nat, input : Nat, output : Nat, cost : Nat]

NoCalls == [calls |-> 0, input |-> 0, output |-> 0, cost |-> 0]

\* estimate_cost: input and output are priced and rounded apart; a model that
\* has no price costs nothing, and a call that reports no usage has none.
estimate_cost(model, usage) ==
    [calls |-> 1, input |-> usage.input_tokens, output |-> usage.output_tokens,
     cost |-> IF model \in DOMAIN Price
              THEN cost_of(usage.input_tokens, Price[model].input)
                   + cost_of(usage.output_tokens, Price[model].output)
              ELSE 0]

\* UsageLedger.add
added(totals, estimate) ==
    [field \in DOMAIN totals |-> totals[field] + estimate[field]]

AccountingInit ==
    /\ ledger = [m \in Model |-> NoCalls]
    /\ counters = [metric \in Metric |-> <<>>]
    /\ dropped = {}

\* InMemoryMetrics._key: a series that exists goes on, a new one needs room.
Tracked(store, label) ==
    label \in DOMAIN store \/ Cardinality(DOMAIN store) < MAX_SERIES

\* InMemoryMetrics.increment, on the series of one metric.
increment(store, label, by) ==
    IF ~Tracked(store, label) THEN store
    ELSE [l \in DOMAIN store \cup {label} |->
             (IF l \in DOMAIN store THEN store[l] ELSE 0) + (IF l = label THEN by ELSE 0)]

\* TracedLLMProvider._account, after a completion.
Account(model, usage) ==
    LET label == safe_value(model) IN
    /\ ledger' = [ledger EXCEPT ![model] = added(@, estimate_cost(model, usage))]
    /\ counters' =
         [counters EXCEPT
            !["llm_calls_total"] = increment(@, label, 1),
            !["llm_input_tokens_total"] = increment(@, label, usage.input_tokens),
            !["llm_output_tokens_total"] = increment(@, label, usage.output_tokens)]
    /\ dropped' = dropped \cup {metric \in Metric : ~Tracked(counters[metric], label)}

=============================================================================
