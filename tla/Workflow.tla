------------------------------ MODULE Workflow ------------------------------
(***************************************************************************)
(* A workflow of backend/app/workflows: its definition is validated step   *)
(* by step (definition.py) and run step by step (execution.py).            *)
(***************************************************************************)
EXTENDS ToolExecutor

CONSTANTS
    Names,      \* identifiers: of steps, and of inputs
    Literal,    \* the parameter is no reference
    MAX_STEPS,  \* longest definition
    NoStep      \* no step failed

ASSUME NamesAssumption == Literal \notin Names /\ NoStep \notin Names
ASSUME MaxStepsAssumption == MAX_STEPS \in Nat \ {0}

VARIABLES
    phase,       \* "define", "rejected", "run", "ended"
    inputs,      \* Workflow.inputs
    steps,       \* Workflow.steps
    supplied,    \* the names the caller passes values for
    outputs,     \* the local variable of WorkflowRunner.run
    records,     \* WorkflowRun.steps, with what each reference resolved to
    failed_step  \* WorkflowRun.failed_step

workflowVars == <<phase, inputs, steps, supplied, outputs, records, failed_step>>

WorkflowStep == [id : Names, tool : Registry \cup {"unknown"},
                 ref : Names \cup {Literal}, optional : BOOLEAN]

StepRecord == [id : Names, outcome : ToolOutcome, given : Value]

WorkflowTypeOK ==
    /\ phase \in {"define", "rejected", "run", "ended"}
    /\ inputs \in SUBSET Names
    /\ steps \in Seq(WorkflowStep) /\ Len(steps) <= MAX_STEPS
    /\ supplied \in SUBSET Names
    /\ outputs \in [Names -> Value]
    /\ records \in Seq(StepRecord) /\ Len(records) <= Len(steps)
    /\ failed_step \in Names \cup {NoStep}

WorkflowInit ==
    /\ phase = "define"
    /\ inputs \in SUBSET Names
    /\ steps = <<>>
    /\ supplied = {}
    /\ outputs = [n \in Names |-> "none"]
    /\ records = <<>>
    /\ failed_step = NoStep

-----------------------------------------------------------------------------
(* The definition. *)

references(step) == {step.ref} \ {Literal}

\* The inputs and the steps before the i-th.
earlier(i) == inputs \cup {steps[j].id : j \in 1..(i - 1)}

\* MUTANT: a step may refer to itself.
seen_with_itself(step) == earlier(Len(steps) + 1) \cup {step.id}

\* What a step may refer to.
seen(step) == earlier(Len(steps) + 1)

\* MUTANT: one step more than the limit.
room_for_one_more == Len(steps) <= MAX_STEPS

room == Len(steps) < MAX_STEPS

\* One round of _validate.
ValidateStep ==
    /\ phase = "define"
    /\ room
    /\ \E step \in WorkflowStep :
          IF step.id \in earlier(Len(steps) + 1) \/ references(step) \ seen(step) # {}
          THEN /\ phase' = "rejected"
               /\ steps' = <<>>
          ELSE /\ steps' = Append(steps, step)
               /\ UNCHANGED phase
    /\ UNCHANGED <<inputs, supplied, outputs, records, failed_step, session>>

-----------------------------------------------------------------------------
(* The run. *)

\* run, up to its loop.  The caller passes strings, declared or not.
Start ==
    /\ phase = "define"
    /\ steps # <<>>
    /\ supplied' \in SUBSET Names
    /\ outputs' = [n \in Names |-> IF n \in supplied' THEN "text" ELSE "none"]
    /\ phase' = "run"
    /\ UNCHANGED <<inputs, steps, records, failed_step, session>>

\* _resolve
resolve(step) == IF step.ref = Literal THEN "text" ELSE outputs[step.ref]

ends_the_run(step, result) == result # "ok" /\ ~step.optional

\* One round of the loop.
RunStep ==
    /\ phase = "run"
    /\ Len(records) < Len(steps)
    /\ failed_step = NoStep
    /\ LET step == steps[Len(records) + 1] IN
       \E result \in outcomes(step.tool, resolve(step)) :
          /\ SessionAfter(result)
          /\ records' = Append(records, [id |-> step.id, outcome |-> result,
                                         given |-> resolve(step)])
          /\ outputs' = [outputs EXCEPT ![step.id] = IF result = "ok" THEN "object" ELSE @]
          /\ failed_step' = IF ends_the_run(step, result) THEN step.id ELSE NoStep
    /\ UNCHANGED <<phase, inputs, steps, supplied>>

\* _finish
Finish ==
    /\ phase = "run"
    /\ failed_step # NoStep \/ Len(records) = Len(steps)
    /\ phase' = "ended"
    /\ UNCHANGED <<inputs, steps, supplied, outputs, records, failed_step, session>>

WorkflowNext == ValidateStep \/ Start \/ RunStep \/ Finish

\* unresolved_references
unresolved_references(available) ==
    UNION {references(steps[i]) \ (available \cup {steps[j].id : j \in 1..(i - 1)}) :
              i \in DOMAIN steps}

-----------------------------------------------------------------------------
(* Properties. *)

\* A step called n succeeded before the i-th ran.
SucceededBefore(i, n) ==
    \E j \in 1..(i - 1) : steps[j].id = n /\ records[j].outcome = "ok"

\* It was optional, and failed.
SkippedBefore(i, n) ==
    \E j \in 1..(i - 1) :
        steps[j].id = n /\ steps[j].optional /\ records[j].outcome # "ok"

\* What a validated definition and the check of its inputs promise of a run: a
\* reference brings the output of the step it names, if that succeeded; and it
\* brings nothing only after an optional step failed, or for an input that
\* unresolved_references reports as missing.
ReferencesResolve ==
    \A i \in DOMAIN records : steps[i].ref # Literal =>
        /\ records[i].given = "object" <=> SucceededBefore(i, steps[i].ref)
        /\ records[i].given = "none" =>
               \/ SkippedBefore(i, steps[i].ref)
               \/ steps[i].ref \in inputs \cap unresolved_references(supplied)

\* A step given what its tool does not accept is recorded and does not run: so
\* a reference that brings nothing fails the step that made it, with one
\* exception.  execution.py:97-100 and :120-122 say that such a step "will fail
\* validation rather than silently receiving nothing"; but list_tickets accepts
\* None for its status (tools/domain.py:57), and runs unfiltered.
OnlyAcceptedRuns ==
    \A i \in DOMAIN records :
        records[i].outcome \in {"ok", "failed", "timeout"} =>
            records[i].given \in accepted(steps[i].tool)

\* A run that completed ran every step, and only optional ones failed; one
\* that did not ends with the first required step that failed.
CompletedMeansRequiredSucceeded ==
    phase = "ended" =>
        LET failing == {i \in DOMAIN records :
                            records[i].outcome # "ok" /\ ~steps[i].optional}
        IN  IF failed_step = NoStep
            THEN failing = {} /\ Len(records) = Len(steps)
            ELSE failing = {Len(records)} /\ records[Len(records)].id = failed_step

\* A run of a workflow is what its definition says: references bring what the
\* step they name made; a tool runs only on what it accepts, which for the
\* status of list_tickets includes the nothing a skipped step leaves behind; and
\* completed means that every required step succeeded.
RunsFollowTheDefinition ==
    ReferencesResolve /\ OnlyAcceptedRuns /\ CompletedMeansRequiredSucceeded

=============================================================================
