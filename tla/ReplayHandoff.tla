--------------------------- MODULE ReplayHandoff ----------------------------
(***************************************************************************)
(* A replay that needs a human: InterventionManager, the continuation      *)
(* registry, its resume validator and ReplayContinuationCoordinator, on    *)
(* the session of SessionControl.                                          *)
(*                                                                         *)
(* A caller is a coroutine inside the coordinator.  Caller First runs the  *)
(* replay; it suspends at a step whose policy asks for approval.  Any      *)
(* caller may then resume a continuation, several at once: a resume waits  *)
(* for the continuation's lock, validates the page (an await), takes the   *)
(* session back, consumes the continuation and runs the engine from the    *)
(* blocked step, still holding the lock.  Between two awaits a coroutine   *)
(* is one step.                                                            *)
(*                                                                         *)
(* The page is known by the effects that have been brought about on it: a  *)
(* step's postcondition reads whether its effect is there, or cannot tell. *)
(* A human may touch the managed browser window whoever owns the session:  *)
(* nothing in the code stops physical input.                               *)
(***************************************************************************)
EXTENDS SessionControl, FiniteSets

CONSTANTS
    Callers,          \* coroutines that replay or resume
    OperatorTasks,    \* coroutines of the operator's console
    First,            \* the caller that runs the first replay
    Ids,              \* intervention identifiers
    NoId,             \* the first replay belongs to no intervention
    LastStep,         \* the capability's steps are 1 .. LastStep
    ApprovalSteps,    \* those the policy lets no automation perform
    MaxFaults         \* how often writing evidence may fail

ASSUME ReplayAssumption ==
    /\ Tasks = Callers \cup OperatorTasks
    /\ Callers \cap OperatorTasks = {}
    /\ First \in Callers
    /\ NoId \notin Ids
    /\ LastStep \in Nat
    /\ ApprovalSteps \subseteq 1 .. LastStep
    /\ MaxFaults \in Nat

VARIABLES
    caller,       \* [pc, id, step, generation] of each caller; the generation is the
                  \* one it read last: for its validation, then for its dispatches
    registry,     \* continuation of each id: absent, pending or consumed
    checkpoint,   \* blocked step and suspended generation of each continuation
    records,      \* the manager's records: requested_generation by id
    known,        \* ids a client has been told of
    effects,      \* steps whose effect is on the page
    performed,    \* how often automation performed each step
    faults        \* evidence failures so far

coordination == <<registry, checkpoint, records, known>>
page == <<effects, performed>>
allVars == <<vars, caller, coordination, page, faults>>

Steps == 1 .. LastStep
AtRest == [pc |-> "idle", id |-> NoId, step |-> 0, generation |-> 0]
PC(c) == caller[c].pc

\* A caller between its admission to the continuation and its result.
Resuming(c) == PC(c) \in {"validating", "observing", "stepping", "dispatching"}
Replaying(c) == PC(c) \in {"observing", "stepping", "dispatching"}

\* Variant: the lock counts the caller that waits for it, and is not reentrant.
LockFreeOfWaiters(i) == \A c \in Callers : PC(c) # "idle" => caller[c].id # i

\* resume_lock, held from admission to the result.
LockFree(i) == \A c \in Callers : Resuming(c) => caller[c].id # i

ReplayInit ==
    /\ Init
    /\ caller = [c \in Callers |->
           IF c = First THEN [AtRest EXCEPT !.pc = "stepping", !.step = 1] ELSE AtRest]
    /\ registry = [i \in Ids |-> "absent"]
    /\ checkpoint = [i \in Ids |-> [step |-> 0, generation |-> 0]]
    /\ records = [i \in Ids |-> 0]      \* 0: no record, a record's generation is positive
    /\ known = {}
    /\ effects = {}
    /\ performed = [s \in Steps |-> 0]
    /\ faults = 0

\* Writing an evidence event: it is written, or it raises while faults remain.
Recorded(ok) ==
    \/ ok /\ UNCHANGED faults
    \/ ~ ok /\ faults < MaxFaults /\ faults' = faults + 1

Answer(c) == caller' = [caller EXCEPT ![c] = AtRest]

-----------------------------------------------------------------------------
(* Suspension *)

\* Variant: a refused request leaves the registration behind.
RefusalKeepsRegistration(i) == registry' = [registry EXCEPT ![i] = "pending"]

\* A refused request: what was registered is discarded again.
RegistrationDiscarded(i) == registry' = [registry EXCEPT ![i] = "absent"]

\* The engine's gateway asked for approval: no effect, a checkpoint, and the coordinator
\* registers the continuation and requests the intervention, all in one step.  The
\* registration is discarded if the session has stopped, but kept if evidence raises.
\* (Pausing twice, or for a session an operator owns, takes a second replay of the
\* session: the composition runs one.)
Suspend(c, i) ==
    /\ PC(c) = "stepping"
    /\ caller[c].step \in ApprovalSteps
    /\ registry[i] = "absent" /\ records[i] = 0
    /\ Answer(c)
    /\ \/ /\ owner = Run
          /\ RequestPause
          /\ registry' = [registry EXCEPT ![i] = "pending"]
          /\ checkpoint' = [checkpoint EXCEPT ![i] =
                 [step |-> caller[c].step, generation |-> caller[c].generation]]
          /\ records' = [records EXCEPT ![i] = control_generation']
          /\ \E ok \in BOOLEAN :
                 /\ Recorded(ok)
                 /\ known' = IF ok THEN known \cup {i} ELSE known
       \/ /\ control_state = STOPPED
          /\ RegistrationDiscarded(i)
          /\ UNCHANGED <<vars, checkpoint, records, known, faults>>
    /\ UNCHANGED page

-----------------------------------------------------------------------------
(* The operator and the manager *)

GrantOperatorControl(o) ==
    /\ \E i \in known : records[i] > 0
    /\ GrantHumanControl(o)
    /\ UNCHANGED <<caller, coordination, page, faults>>

ReturnOperatorControl(o) ==
    /\ owner = o
    /\ ReturnControlForResumeCheck
    /\ UNCHANGED <<caller, coordination, page, faults>>

\* stop_intervention, and the composition's own stop when it closes the run.
Stop ==
    /\ StopSession
    /\ UNCHANGED <<caller, coordination, page, faults>>

\* The console reads the session, inspects the target and only then dispatches.
OperatorDispatch(t, o) ==
    /\ \E g \in 0 .. control_generation : DispatchAtOnce(t, o, g) \/ DispatchQueues(t, o, g)
    /\ UNCHANGED <<caller, coordination, page, faults>>

OperatorWoken(t) ==
    /\ WokenDispatch(t)
    /\ UNCHANGED <<caller, coordination, page, faults>>

\* The operator's action may bring about any step's effect, or none.
OperatorActionEnds(t) ==
    /\ EndDispatch(t)
    /\ effects' \in {effects} \cup {effects \cup {s} : s \in Steps}
    /\ UNCHANGED <<caller, coordination, performed, faults>>

HumanInput ==
    /\ effects' \in {effects \cup {s} : s \in Steps \ effects}
    /\ UNCHANGED <<vars, caller, coordination, performed, faults>>

-----------------------------------------------------------------------------
(* Resume *)

\* A client resumes a continuation it was told of.
CallResume(c, i) ==
    /\ PC(c) = "idle"
    /\ i \in known
    /\ registry[i] = "pending"
    /\ caller' = [caller EXCEPT ![c] = [AtRest EXCEPT !.pc = "waiting", !.id = i]]
    /\ UNCHANGED <<vars, coordination, page, faults>>

\* The record matches the continuation it was requested for.
MatchesRecord(i) == records[i] > checkpoint[i].generation

\* A session found stopped uses the continuation up, unless the manager's event raises.
FindsStopped(i) ==
    \E ok \in BOOLEAN :
        /\ Recorded(ok)
        /\ registry' = IF ok THEN [registry EXCEPT ![i] = "consumed"] ELSE registry

\* Variant: the validator starts whatever the control state.
AdmitInAnyState(c) ==
    LET i == caller[c].id
    IN  /\ PC(c) = "waiting"
        /\ LockFree(i)
        /\ registry[i] = "pending" /\ control_state # STOPPED
        /\ caller' = [caller EXCEPT ![c].pc = "validating", ![c].generation = control_generation]
        /\ UNCHANGED <<vars, coordination, page, faults>>

\* Inside the lock: the continuation is looked up again, then the session is read.
\* In resume_requested the validator starts; in any other state the call is answered.
AdmitResume(c) ==
    LET i == caller[c].id
    IN  /\ PC(c) = "waiting"
        /\ LockFree(i)
        /\ \/ /\ registry[i] = "pending"
              /\ control_state = RESUME_CHECK
              /\ caller' = [caller EXCEPT ![c].pc = "validating",
                                          ![c].generation = control_generation]
              /\ UNCHANGED <<registry, faults>>
           \/ /\ registry[i] = "pending"
              /\ control_state = STOPPED
              /\ Answer(c)
              /\ FindsStopped(i)
           \/ /\ \/ registry[i] # "pending"
                 \/ control_state \notin {RESUME_CHECK, STOPPED}
              /\ Answer(c)
              /\ UNCHANGED <<registry, faults>>
        /\ UNCHANGED <<vars, checkpoint, records, known, page>>

\* The page proves nothing about the blocked step, or cannot be read, or the record does
\* not match: the session stays where it is.
ValidationFails(c) ==
    /\ PC(c) = "validating"
    /\ Answer(c)
    /\ UNCHANGED <<vars, coordination, page, faults>>

\* resume_automation_after_validation is idempotent.
TakeBack ==
    IF control_state = AUTOMATION THEN UNCHANGED vars ELSE ResumeAutomationAfterValidation

\* Variant: consuming leaves the continuation pending.
ConsumeKeeps(i) == registry' = [registry EXCEPT ![i] = "pending"]

Consume(i) == registry' = [registry EXCEPT ![i] = "consumed"]

\* The page is good: control is taken back, the manager's event is written, and only
\* then is the continuation consumed and the engine entered.
ValidationSucceeds(c) ==
    LET i == caller[c].id
    IN  /\ PC(c) = "validating"
        /\ MatchesRecord(i)
        /\ TakeBack
        /\ \E ok \in BOOLEAN :
               /\ Recorded(ok)
               /\ IF ok /\ registry[i] = "pending"
                  THEN /\ Consume(i)
                       /\ caller' = [caller EXCEPT ![c].pc = "observing",
                                                   ![c].generation = control_generation']
                  ELSE /\ UNCHANGED registry
                       /\ Answer(c)
        /\ UNCHANGED <<checkpoint, records, known, page>>

\* The page is good but the session stopped while it was read.
ValidationFindsStopped(c) ==
    /\ PC(c) = "validating"
    /\ control_state = STOPPED
    /\ Answer(c)
    /\ FindsStopped(caller[c].id)
    /\ UNCHANGED <<vars, checkpoint, records, known, page>>

-----------------------------------------------------------------------------
(* The engine *)

\* Variant: a validated return is taken for the blocked step's completion.
ResumeAfterBlocked(s) == s + 1

\* Where to go on: after the blocked step if its effect is on the page, at it otherwise.
ResumePosition(s) == IF s \in effects THEN s + 1 ELSE s

\* _resume looks at the page again, under the new generation.
ResumeObserves(c) ==
    LET i == caller[c].id
    IN  /\ PC(c) = "observing"
        /\ caller[c].generation > checkpoint[i].generation
        /\ caller' = [caller EXCEPT ![c].pc = "stepping",
                                    ![c].step = ResumePosition(checkpoint[i].step)]
        /\ UNCHANGED <<vars, coordination, page, faults>>

\* A terminal state, a failed condition, observation or event, or no step left.
ReplayEnds(c) ==
    /\ PC(c) \in {"observing", "stepping"}
    /\ Answer(c)
    /\ UNCHANGED <<vars, coordination, page, faults>>

\* After Enter: an admitted action runs, a refused one ends the replay with no checkpoint.
Dispatched(c) ==
    caller' = [caller EXCEPT ![c] =
        IF dispatch'[c].phase = "idle" THEN AtRest ELSE [@ EXCEPT !.pc = "dispatching"]]

DispatchStep(c) ==
    /\ PC(c) = "stepping"
    /\ caller[c].step \in Steps \ ApprovalSteps
    /\ \/ DispatchAtOnce(c, Run, caller[c].generation)
       \/ DispatchQueues(c, Run, caller[c].generation)
    /\ Dispatched(c)
    /\ UNCHANGED <<coordination, page, faults>>

StepWoken(c) ==
    /\ WokenDispatch(c)
    /\ Dispatched(c)
    /\ UNCHANGED <<coordination, page, faults>>

\* The surface performs the step; its effect shows on the page, or does not.
Performs(s) ==
    /\ effects' \in {effects, effects \cup {s}}
    /\ performed' = [performed EXCEPT ![s] = @ + 1]

\* The action was performed; its evidence and what the page shows of its postcondition
\* (true, none declared, or unknown without a retry policy) let the replay go on.
StepCompletes(c) ==
    /\ PC(c) = "dispatching"
    /\ EndDispatch(c)
    /\ Performs(caller[c].step)
    /\ caller' = [caller EXCEPT ![c].pc = "stepping", ![c].step = @ + 1]
    /\ UNCHANGED <<coordination, faults>>

\* The action failed, performed or not, or what followed it ends the replay.
StepFails(c) ==
    /\ PC(c) = "dispatching"
    /\ EndDispatch(c)
    /\ Performs(caller[c].step) \/ UNCHANGED page
    /\ Answer(c)
    /\ UNCHANGED <<coordination, faults>>

-----------------------------------------------------------------------------
CallerStep(c) ==
    \/ \E i \in Ids : Suspend(c, i)
    \/ AdmitResume(c)
    \/ ValidationFails(c)
    \/ ValidationSucceeds(c)
    \/ ValidationFindsStopped(c)
    \/ ResumeObserves(c)
    \/ ReplayEnds(c)
    \/ DispatchStep(c)
    \/ StepWoken(c)
    \/ StepCompletes(c)
    \/ StepFails(c)

OperatorTaskEnds(t) == OperatorWoken(t) \/ OperatorActionEnds(t)

ReplayNext ==
    \/ \E c \in Callers : CallerStep(c)
    \/ \E c \in Callers, i \in Ids : CallResume(c, i)
    \/ \E o \in Operators : GrantOperatorControl(o) \/ ReturnOperatorControl(o)
    \/ \E t \in OperatorTasks, o \in Operators : OperatorDispatch(t, o)
    \/ \E t \in OperatorTasks : OperatorTaskEnds(t)
    \/ HumanInput
    \/ Stop

\* Coroutines run on, as the surface's waits have a time limit and the browser is assumed to
\* answer the reads that have none; people and clients owe nothing.
\* The continuation's lock is served in order, so a caller that waits for it is not
\* overtaken for ever: strong fairness stands for that queue.
ReplayFairness ==
    /\ \A c \in Callers : WF_allVars(CallerStep(c)) /\ SF_allVars(AdmitResume(c))
    /\ \A t \in OperatorTasks : WF_allVars(OperatorTaskEnds(t))

ReplaySpec == ReplayInit /\ [][ReplayNext]_allVars
FairReplaySpec == ReplaySpec /\ ReplayFairness

-----------------------------------------------------------------------------
(* Properties *)

\* Automation performs a step at most once over a run with all its interventions and
\* resumes, however many resumes race and whatever evidence fails.
StepPerformedOnce == \A s \in Steps : performed[s] <= 1

\* One engine at most replays on the session, although resumes of different
\* continuations hold different locks and taking control back is idempotent.
OneReplay == \A c, d \in Callers : Replaying(c) /\ Replaying(d) => c = d

\* A replay is past a step that needs a human only if that step's effect is on the page.
ApprovalHonoured ==
    \A c \in Callers : PC(c) \in {"stepping", "dispatching"} =>
        \A s \in ApprovalSteps : s < caller[c].step => s \in effects

\* While no evidence failed, a pending continuation is the only one, its client knows of
\* it, and the session is not back with automation: it can still be resumed.
PendingIsResumable ==
    faults = 0 => \A i, j \in Ids : registry[i] = "pending" /\ registry[j] = "pending" =>
        /\ i = j
        /\ i \in known
        /\ control_state # AUTOMATION

\* The state is read before the validator's await and used after it.  Still, no validation is
\* under way when an operator returns control, so whichever takes the session back began after
\* the return it answers; and what takes it back is one caller's validation of a pending
\* continuation, which is consumed and replayed on by that caller.  If the manager's event
\* cannot be written after control was taken back, the continuation is left pending behind
\* an automated session and nobody replays: that exception is the code's own.
ResumedOnOwnValidation ==
    [][/\ control_state # RESUME_CHECK /\ control_state' = RESUME_CHECK =>
              \A c \in Callers : PC(c)' # "validating"
       /\ control_state = RESUME_CHECK /\ control_state' = AUTOMATION =>
              \E c \in Callers :
                  /\ PC(c) = "validating" /\ registry[caller[c].id] = "pending"
                  /\ \/ /\ registry' = [registry EXCEPT ![caller[c].id] = "consumed"]
                        /\ PC(c)' = "observing" /\ caller'[c].id = caller[c].id
                     \/ faults' = faults + 1 /\ PC(c)' = "idle"]_allVars

\* Every resume is answered: the continuation's lock, the validator and the dispatch lock
\* never wait for one another.
ResumeIsAnswered == \A c \in Callers : PC(c) = "waiting" ~> PC(c) = "idle"

\* docs/subsystems/p4.3-resumable-automation.md: the runtime values "are removed when a
\* continuation is consumed or terminally stopped".
StopRemovesContinuation == control_state = STOPPED => \A i \in Ids : registry[i] # "pending"
=============================================================================
