---------------------------- MODULE ReplayEngine ----------------------------
(***************************************************************************)
(* One replay of a capability: preflight is passed, each step looks at the *)
(* page, dispatches its action through the gateway, and looks again, up to *)
(* its retry policy's number of observations, for a terminal state or the  *)
(* step's postcondition.  A resumed replay first looks where to go on.     *)
(*                                                                         *)
(* The page is not under the engine's control: each collection may find    *)
(* any snapshot, and may fail.                                             *)
(***************************************************************************)
EXTENDS StateEvaluator, Sequences

CONSTANTS
    Capabilities,    \* [steps, success, outcomes, outputs]
    Suppliable       \* runtime inputs a caller may supply

\* A step has at most one precondition and one postcondition; attempts is the retry
\* policy's max_attempts, 0 without a policy; input is the runtime input it fills, if any.
ASSUME EngineAssumption ==
    /\ \A capability \in Capabilities :
           /\ capability.success \subseteq Conditions
           /\ capability.success # {}
           /\ IsFiniteSet(capability.outcomes)
           /\ \A o \in capability.outcomes : o \subseteq Conditions /\ o # {}
           /\ capability.outputs \subseteq Targets
           /\ Len(capability.steps) \in Nat
           /\ DOMAIN capability.steps = 1 .. Len(capability.steps)
           /\ \A i \in DOMAIN capability.steps :
                  LET step == capability.steps[i]
                  IN  /\ step.pre \subseteq Conditions /\ Cardinality(step.pre) <= 1
                      /\ step.post \subseteq Conditions /\ Cardinality(step.post) <= 1
                      /\ step.attempts \in 0 .. 3
                      /\ step.fills \subseteq InputNames
    /\ \A inputs \in Suppliable : DOMAIN inputs \subseteq InputNames

VARIABLES
    capability, inputs,    \* what is replayed, with what
    pc,                    \* resuming, before, dispatching, after, ended
    index,                 \* the step at hand
    attempt,               \* the observation at hand after its action
    snapshot,              \* the page as collected last
    dispatched,            \* how often each step was dispatched
    completed,             \* steps recorded as completed
    proven,                \* those whose completion the snapshot showed
    result                 \* outcome or failure reason

engineVars == <<capability, inputs, pc, index, attempt, snapshot, dispatched, completed,
                proven, result>>

Steps == DOMAIN capability.steps
Step == capability.steps[index]

\* replay starts at the first step; resume at the step that was blocked.
EngineInit ==
    /\ capability \in Capabilities
    /\ inputs \in Suppliable
    /\ \/ pc = "before" /\ index = 1
       \/ pc = "resuming" /\ index \in Steps
    /\ attempt = 0
    /\ snapshot = [t \in {} |-> NotVisible]
    /\ dispatched = [i \in Steps |-> 0]
    /\ completed = {}
    /\ proven = {}
    /\ result = "none"

-----------------------------------------------------------------------------
Collect == snapshot' \in [Targets -> Observations]
Terminal == TerminalState(capability, snapshot', inputs)
Reads(conditions) == AllConditions(conditions, snapshot', inputs)
LacksInput(conditions) ==
    \E c \in conditions : RuntimeInputMissing(c, snapshot', inputs)

End(r) == pc' = "ended" /\ result' = r
GoOn(next) == pc' = next /\ UNCHANGED result

\* What a terminal snapshot makes of the replay.
TerminalResult ==
    IF Terminal = "CONFLICT" THEN "TERMINAL_STATE_CONFLICT"
    ELSE IF Terminal = "SUCCESS" /\ ~ OutputsExtracted(capability, snapshot')
    THEN "OUTPUT_EXTRACTION_FAILED"
    ELSE Terminal

Decided == Terminal \in {"CONFLICT", "BUSINESS_OUTCOME", "SUCCESS"}

\* The snapshot collector raises wherever the engine collects.
CollectionFails ==
    /\ pc \in {"resuming", "before", "after"}
    /\ index \in Steps
    /\ End("SNAPSHOT_FAILED")
    /\ UNCHANGED <<capability, inputs, index, attempt, snapshot, dispatched, completed, proven>>

\* The loop runs out of steps.
NoStepLeft ==
    /\ pc = "before"
    /\ index \notin Steps
    /\ End("INCOMPLETE")
    /\ UNCHANGED <<capability, inputs, index, attempt, snapshot, dispatched, completed, proven>>

\* Conditions of the step at hand, none or one of each kind.
PostIs(value) == Step.post # {} /\ Reads(Step.post) = value

\* A resumed replay: a terminal page wins; then only a postcondition that is known to be
\* true or false tells whether the blocked step is done.
Resuming ==
    /\ pc = "resuming"
    /\ Collect
    /\ UNCHANGED <<capability, inputs, attempt, dispatched, completed, proven>>

ResumeDecided == Resuming /\ Decided /\ End(TerminalResult) /\ UNCHANGED index

ResumeUnverified ==
    /\ Resuming
    /\ ~ Decided
    /\ ~ PostIs("TRUE") /\ ~ PostIs("FALSE")
    /\ End(IF LacksInput(Step.post) THEN "INVALID_INPUT" ELSE "RESUME_STATE_UNVERIFIED")
    /\ UNCHANGED index

ResumeGoesOn ==
    /\ Resuming
    /\ ~ Decided
    /\ \/ PostIs("TRUE") /\ index' = index + 1
       \/ PostIs("FALSE") /\ index' = index
    /\ GoOn("before")

BeforeStep ==
    /\ pc = "before"
    /\ index \in Steps
    /\ Collect
    /\ UNCHANGED <<capability, inputs, index, attempt, dispatched, completed, proven>>

StepBegins == BeforeStep /\ Reads(Step.pre) = "TRUE" /\ GoOn("dispatching")

PreconditionFails ==
    /\ BeforeStep
    /\ Reads(Step.pre) # "TRUE"
    /\ End(IF LacksInput(Step.pre) THEN "INVALID_INPUT" ELSE "PRECONDITION_FAILED")

\* A fill whose optional input was not supplied: the lookup raises out of the replay.
FillRaises ==
    /\ pc = "dispatching"
    /\ ~ (Step.fills \subseteq DOMAIN inputs)
    /\ End("RAISED")
    /\ UNCHANGED <<capability, inputs, index, attempt, snapshot, dispatched, completed, proven>>

\* The gateway may have performed the step at hand, or not.
Attempted == dispatched' \in {dispatched, [dispatched EXCEPT ![index] = @ + 1]}

\* Writing an event raises out of the replay: before a step, after the gateway's answer, at
\* a step's completion or once the result is known.
EventRaises ==
    /\ pc # "ended"
    /\ End("RAISED")
    /\ IF pc = "dispatching" /\ Step.fills \subseteq DOMAIN inputs
       THEN Attempted
       ELSE UNCHANGED dispatched
    /\ UNCHANGED <<capability, inputs, index, attempt, snapshot, completed, proven>>

StepExecuted ==
    /\ pc = "dispatching"
    /\ Step.fills \subseteq DOMAIN inputs
    /\ dispatched' = [dispatched EXCEPT ![index] = @ + 1]
    /\ attempt' = 1
    /\ GoOn("after")
    /\ UNCHANGED <<capability, inputs, index, snapshot, completed, proven>>

\* Anything else the gateway answers ends the replay; only a failure leaves open whether
\* the action took effect.
StepNotExecuted ==
    /\ pc = "dispatching"
    /\ Step.fills \subseteq DOMAIN inputs
    /\ \/ End("APPROVAL_REQUIRED") /\ UNCHANGED dispatched
       \/ End("GATEWAY_FAILED") /\ Attempted
    /\ UNCHANGED <<capability, inputs, index, attempt, snapshot, completed, proven>>

\* Looking at the page after the step's action, when that decides nothing yet.
AfterStep == pc = "after" /\ Collect /\ UNCHANGED <<capability, inputs, dispatched>>

Undecided == AfterStep /\ ~ Decided /\ ~ PostIs("TRUE")

Completes(shown) ==
    /\ completed' = completed \cup {index}
    /\ proven' = IF shown THEN proven \cup {index} ELSE proven

Proceeds(shown) ==
    /\ Completes(shown)
    /\ GoOn("before")
    /\ index' = index + 1
    /\ attempt' = 0

StepDecides ==
    /\ AfterStep
    /\ Decided
    /\ Completes(TRUE)
    /\ End(TerminalResult)
    /\ UNCHANGED <<index, attempt>>

StepShown == AfterStep /\ ~ Decided /\ PostIs("TRUE") /\ Proceeds(TRUE)

\* An input is missing, or without a retry policy the postcondition is false at once.
Refuted == LacksInput(Step.post) \/ (PostIs("FALSE") /\ Step.attempts = 0)

StepRefuted ==
    /\ Undecided
    /\ Refuted
    /\ End(IF LacksInput(Step.post) THEN "INVALID_INPUT" ELSE "POSTCONDITION_FAILED")
    /\ UNCHANGED <<index, attempt, completed, proven>>

BudgetLeft == attempt < Step.attempts

\* Variants: observing again dispatches again, or does not count.
ObserveByRepeating ==
    /\ Undecided /\ ~ Refuted /\ BudgetLeft
    /\ GoOn("dispatching")
    /\ UNCHANGED <<index, attempt, completed, proven>>

ObserveUncounted ==
    /\ Undecided /\ ~ Refuted /\ BudgetLeft
    /\ UNCHANGED <<pc, result, index, attempt, completed, proven>>

\* One more observation after the delay of the retry policy.
ObserveAgain ==
    /\ Undecided /\ ~ Refuted /\ BudgetLeft
    /\ GoOn("after")
    /\ attempt' = attempt + 1
    /\ UNCHANGED <<index, completed, proven>>

\* Variant: a budget that is used up lets the step pass.
MustBeShownNever == FALSE

\* Under a retry policy a postcondition has to be seen true.
MustBeShown == Step.attempts > 0 /\ Step.post # {}

StepTimesOut ==
    /\ Undecided /\ ~ Refuted /\ ~ BudgetLeft
    /\ MustBeShown
    /\ End("STEP_TIMEOUT")
    /\ UNCHANGED <<index, attempt, completed, proven>>

\* No postcondition, or an unknown one without a retry policy: the step passes.
StepPasses ==
    /\ Undecided /\ ~ Refuted /\ ~ BudgetLeft
    /\ ~ MustBeShown
    /\ Proceeds(FALSE)

EngineNext ==
    \/ CollectionFails
    \/ NoStepLeft
    \/ ResumeDecided
    \/ ResumeUnverified
    \/ ResumeGoesOn
    \/ StepBegins
    \/ PreconditionFails
    \/ FillRaises
    \/ EventRaises
    \/ StepExecuted
    \/ StepNotExecuted
    \/ StepDecides
    \/ StepShown
    \/ StepRefuted
    \/ ObserveAgain
    \/ StepTimesOut
    \/ StepPasses

\* The engine goes on: waits for the page have a time limit, and the browser is assumed to
\* answer the short reads of a snapshot that have none.
EngineFairness == WF_engineVars(EngineNext)

EngineSpec == EngineInit /\ [][EngineNext]_engineVars
FairEngineSpec == EngineSpec /\ EngineFairness

-----------------------------------------------------------------------------
(* Properties *)

\* A terminal verdict is never a guess: what the snapshot could not show cannot refute it,
\* whatever the page really holds behind an unavailable or empty target.
VerdictIsSound ==
    LET verdict == TerminalState(capability, snapshot, inputs)
    IN  \A page \in PossiblePages(snapshot), all \in PossibleInputs(inputs) :
            LET reached == {o \in capability.outcomes : AllHold(o, page, all)}
                success == AllHold(capability.success, page, all)
            IN  /\ verdict = "SUCCESS" => success
                /\ verdict = "BUSINESS_OUTCOME" => reached # {}
                /\ verdict = "CONFLICT" => Cardinality(reached) > 1 \/ (success /\ reached # {})
                /\ verdict = "INCOMPLETE" => reached = {} /\ ~ success

\* SUCCESS stands on the last snapshot, taken after the last action: every success condition
\* is seen to hold there, no business outcome is, every output is there to be read, and
\* every dispatched step is completed.  An outcome that the snapshot leaves unknown may hold
\* all the same.
SuccessIsProven ==
    result = "SUCCESS" =>
        /\ \A page \in PossiblePages(snapshot), all \in PossibleInputs(inputs) :
               AllHold(capability.success, page, all)
        /\ OutcomesThatAre("TRUE", capability, snapshot, inputs) = {}
        /\ \A t \in capability.outputs : snapshot[t].text \in Readable
        /\ \A i \in Steps : dispatched[i] > 0 => i \in completed

\* However often the page is observed, no step is dispatched twice, and none before the
\* steps that were dispatched ahead of it are completed.
StepsOnceInOrder ==
    \A i \in Steps :
        /\ dispatched[i] <= 1
        /\ dispatched[i] = 1 => \A j \in 1 .. i - 1 : dispatched[j] = 1 => j \in completed

\* Under a retry policy no step passes on hope: it is completed because its postcondition or
\* a terminal state was seen, within the policy's number of observations.
RetriedStepIsProven ==
    /\ \A i \in completed :
           capability.steps[i].attempts > 0 /\ capability.steps[i].post # {} => i \in proven
    /\ pc = "after" => attempt = 1 \/ attempt <= Step.attempts

\* Every replay ends with a result.
ReplayEnds == <>(pc = "ended" /\ result # "none")

\* docs/subsystems/p2.3-replay-engine.md: "MEMBER_NOT_FOUND still stops the replay immediately
\* once the business outcome is observed."
OutcomeStopsReplay ==
    pc = "dispatching" /\ (\E i \in Steps : dispatched[i] > 0) =>
        TerminalState(capability, snapshot, inputs) # "BUSINESS_OUTCOME"

\* REPORT.md, on what the evaluator's result means to a replay: "Unknown never counts as
\* success": a step that declares a postcondition is completed once that is seen to hold.
CompletionIsProven ==
    \A i \in completed : capability.steps[i].post # {} => i \in proven
=============================================================================
