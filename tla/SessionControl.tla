--------------------------- MODULE SessionControl ---------------------------
(***************************************************************************)
(* One live session of the SessionController: who controls it, the         *)
(* generation that makes earlier permissions stale, and the dispatch lock  *)
(* that a surface action holds from its admission until it ends.           *)
(*                                                                         *)
(* The controller runs on one asyncio loop.  No body under state_lock      *)
(* awaits, so each operation is one step; the dispatch lock is held across *)
(* the surface action and is the only one that ever has waiters.  A call   *)
(* that the controller refuses changes nothing and is not a step, except   *)
(* a dispatch, which has to wait its turn before it learns its refusal.    *)
(***************************************************************************)
EXTENDS Naturals, Sequences, SequencesExt

CONSTANTS
    Run,            \* the automation run the session was opened for
    Operators,      \* operators who may take control
    Tasks,          \* asyncio tasks that dispatch actions on the session
    Nobody,         \* the actor of a task that has no request
    MaxGeneration   \* bound on control_generation

ASSUME SessionAssumption ==
    /\ Run \notin Operators
    /\ Nobody \notin Operators \cup {Run}
    /\ MaxGeneration \in Nat

AUTOMATION == "automation_controlled"
PAUSING == "pause_requested"
HUMAN_CONTROL == "operator_controlled"
RESUME_CHECK == "resume_requested"
STOPPED == "terminal"

ControlStates == {AUTOMATION, PAUSING, HUMAN_CONTROL, RESUME_CHECK, STOPPED}
Actors == Operators \cup {Run}
Generations == 0 .. MaxGeneration

VARIABLES
    control_state, owner, control_generation,   \* SessionState
    locked, waiters,                            \* dispatch_lock, FIFO
    dispatch                                    \* what each task is dispatching

session == <<control_state, owner, control_generation>>
lock == <<locked, waiters, dispatch>>
vars == <<session, lock>>

Idle == [phase |-> "idle", actor |-> Nobody, generation |-> 0]

Phase(t) == dispatch[t].phase
Acting(t) == Phase(t) = "acting"
Queued(t) == Phase(t) = "queued"
InFlight == {t \in Tasks : Acting(t)}

TypeOK ==
    /\ control_state \in ControlStates
    /\ owner \in Actors
    /\ control_generation \in Generations
    /\ locked \in BOOLEAN
    /\ waiters \in Seq(Tasks)
    /\ dispatch \in [Tasks -> [phase : {"idle", "queued", "acting"},
                               actor : Actors \cup {Nobody},
                               generation : Generations]]

-----------------------------------------------------------------------------
(* Control transitions *)

\* open_session
Init ==
    /\ control_state = AUTOMATION
    /\ owner = Run
    /\ control_generation = 0
    /\ locked = FALSE
    /\ waiters = << >>
    /\ dispatch = [t \in Tasks |-> Idle]

\* Every transition but the return to resume check makes earlier generations stale.
NextGeneration ==
    /\ control_generation < MaxGeneration
    /\ control_generation' = control_generation + 1

RequestPause ==
    /\ control_state = AUTOMATION
    /\ control_state' = PAUSING
    /\ NextGeneration
    /\ UNCHANGED <<owner, lock>>

\* Variant: a grant that does not look at the dispatch lock.
GrantDuringAction(o) ==
    /\ control_state = PAUSING
    /\ control_state' = HUMAN_CONTROL
    /\ owner' = o
    /\ NextGeneration
    /\ UNCHANGED lock

GrantHumanControl(o) ==
    /\ ~ locked
    /\ control_state = PAUSING
    /\ control_state' = HUMAN_CONTROL
    /\ owner' = o
    /\ NextGeneration
    /\ UNCHANGED lock

\* Variant: a return that does not look at the dispatch lock.
ReturnDuringAction ==
    /\ control_state = HUMAN_CONTROL
    /\ control_state' = RESUME_CHECK
    /\ UNCHANGED <<owner, control_generation, lock>>

ReturnControlForResumeCheck ==
    /\ ~ locked
    /\ control_state = HUMAN_CONTROL
    /\ control_state' = RESUME_CHECK
    /\ UNCHANGED <<owner, control_generation, lock>>

\* Variants: a resume that forgets the run, that leaves the operator as owner, and
\* that leaves the generation alone.
ResumeForgetsRun ==
    /\ control_state = RESUME_CHECK
    /\ control_state' = AUTOMATION
    /\ owner' = Nobody
    /\ NextGeneration
    /\ UNCHANGED lock

ResumeKeepsOwner ==
    /\ control_state = RESUME_CHECK
    /\ control_state' = AUTOMATION
    /\ NextGeneration
    /\ UNCHANGED <<owner, lock>>

ResumeKeepsGeneration ==
    /\ control_state = RESUME_CHECK
    /\ control_state' = AUTOMATION
    /\ owner' = Run
    /\ UNCHANGED <<control_generation, lock>>

ResumeAutomationAfterValidation ==
    /\ control_state = RESUME_CHECK
    /\ owner \in Operators
    /\ control_state' = AUTOMATION
    /\ owner' = Run
    /\ NextGeneration
    /\ UNCHANGED lock

\* The only transition that neither waits for the dispatch lock nor looks at it.
StopSession ==
    /\ control_state # STOPPED
    /\ control_state' = STOPPED
    /\ NextGeneration
    /\ UNCHANGED <<owner, lock>>

-----------------------------------------------------------------------------
(* Protected dispatch *)

\* Variant: automation admitted by its state alone, whatever generation it read.
AutomationMayDispatchStale(g) ==
    /\ control_state = AUTOMATION
    /\ owner = Run
    /\ g \in Generations

AutomationMayDispatch(g) ==
    /\ control_state = AUTOMATION
    /\ control_generation = g
    /\ owner = Run

OperatorMayDispatch(o, g) ==
    /\ control_state = HUMAN_CONTROL
    /\ control_generation = g
    /\ owner = o

MayDispatch(a, g) ==
    IF a = Run THEN AutomationMayDispatch(g) ELSE OperatorMayDispatch(a, g)

\* Variants: an entry that does not wait for the lock, and a refusal that keeps it.
EnterWithoutLock(t, a, g) ==
    /\ locked' = (locked \/ MayDispatch(a, g))
    /\ dispatch' = [dispatch EXCEPT ![t] =
           IF MayDispatch(a, g)
           THEN [phase |-> "acting", actor |-> a, generation |-> g]
           ELSE Idle]

EnterRefusalKeepsLock(t, a, g) ==
    /\ ~ locked
    /\ locked' = TRUE
    /\ dispatch' = [dispatch EXCEPT ![t] =
           IF MayDispatch(a, g)
           THEN [phase |-> "acting", actor |-> a, generation |-> g]
           ELSE Idle]

\* Task t gets the lock for actor a: it starts its action, or is refused and
\* releases the lock within the same step.
Enter(t, a, g) ==
    /\ ~ locked
    /\ locked' = MayDispatch(a, g)
    /\ dispatch' = [dispatch EXCEPT ![t] =
           IF MayDispatch(a, g)
           THEN [phase |-> "acting", actor |-> a, generation |-> g]
           ELSE Idle]

\* A free lock nobody waits for is taken at once.
DispatchAtOnce(t, a, g) ==
    /\ Phase(t) = "idle"
    /\ waiters = << >>
    /\ Enter(t, a, g)
    /\ UNCHANGED <<session, waiters>>

\* Otherwise the task queues, also in the gap between a release and the moment
\* the woken head of the queue runs.
DispatchQueues(t, a, g) ==
    /\ Phase(t) = "idle"
    /\ locked \/ waiters # << >>
    /\ waiters' = Append(waiters, t)
    /\ dispatch' = [dispatch EXCEPT ![t] =
           [phase |-> "queued", actor |-> a, generation |-> g]]
    /\ UNCHANGED <<session, locked>>

WokenDispatch(t) ==
    /\ waiters # << >>
    /\ t = Head(waiters)
    /\ Enter(t, dispatch[t].actor, dispatch[t].generation)
    /\ waiters' = Tail(waiters)
    /\ UNCHANGED session

\* Variant: an action that leaves without its release.
EndKeepsLock(t) ==
    /\ Acting(t)
    /\ dispatch' = [dispatch EXCEPT ![t] = Idle]
    /\ UNCHANGED <<session, locked, waiters>>

\* The action returns, raises or is cancelled: the lock is released either way.
EndDispatch(t) ==
    /\ Acting(t)
    /\ locked' = FALSE
    /\ dispatch' = [dispatch EXCEPT ![t] = Idle]
    /\ UNCHANGED <<session, waiters>>

\* Variant: a cancelled task that stays in the queue.
CancelLeavesGhost(t) ==
    /\ Queued(t)
    /\ dispatch' = [dispatch EXCEPT ![t] = Idle]
    /\ UNCHANGED <<session, locked, waiters>>

\* asyncio.timeout around discovery cancels a task that is still queued.
CancelQueued(t) ==
    /\ Queued(t)
    /\ \E i \in 1 .. Len(waiters) :
           /\ waiters[i] = t
           /\ waiters' = RemoveAt(waiters, i)
    /\ dispatch' = [dispatch EXCEPT ![t] = Idle]
    /\ UNCHANGED <<session, locked>>

-----------------------------------------------------------------------------
Control ==
    \/ RequestPause
    \/ \E o \in Operators : GrantHumanControl(o)
    \/ ReturnControlForResumeCheck
    \/ ResumeAutomationAfterValidation
    \/ StopSession

\* A caller dispatches under a generation it read at some earlier moment.
Dispatching(t) ==
    \/ \E a \in Actors, g \in 0 .. control_generation :
           DispatchAtOnce(t, a, g) \/ DispatchQueues(t, a, g)
    \/ WokenDispatch(t)
    \/ EndDispatch(t)
    \/ CancelQueued(t)

Next == Control \/ \E t \in Tasks : Dispatching(t)

\* The event loop runs a woken task, and an action ends: its waits have a time limit, and the
\* browser is assumed to answer the short reads around it, which have none.
Fairness == \A t \in Tasks : WF_vars(WokenDispatch(t)) /\ WF_vars(EndDispatch(t))

Spec == Init /\ [][Next]_vars
FairSpec == Spec /\ Fairness

-----------------------------------------------------------------------------
(* Properties *)

\* Whatever pause, grant, return, resume and stop happen around it, an action in
\* flight is the session owner's: a handoff never changes hands under an action.
InFlightBelongsToOwner == \A t \in InFlight : dispatch[t].actor = owner

\* At most one surface action is in flight, although a queued task enters in a
\* step of its own after the release that woke it.
OneInFlight == \A t, u \in InFlight : t = u

\* An action in flight was admitted under the current generation, unless a pause
\* or a stop (or the one and then the other) overtook it while it ran.
InFlightGeneration ==
    \A t \in InFlight :
        LET admitted == dispatch[t].generation
        IN  \/ /\ control_generation = admitted
               /\ control_state \in {AUTOMATION, HUMAN_CONTROL}
            \/ /\ control_generation = admitted + 1
               /\ control_state \in {PAUSING, STOPPED}
            \/ /\ control_generation = admitted + 2
               /\ control_state = STOPPED

\* The owner's kind fits the control state, so that NOT_AUTOMATION_OWNER and "Resume
\* check lost operator ownership" are never the reason for a refusal.
OwnerFitsState ==
    /\ control_state \in {AUTOMATION, PAUSING} => owner = Run
    /\ control_state \in {HUMAN_CONTROL, RESUME_CHECK} => owner \in Operators

\* Every task in the queue waits exactly once and every waiting task is queued: neither
\* a refusal, a cancellation nor a handoff strands a dispatch or leaves a ghost in the queue.
QueueHoldsWaiters ==
    /\ \A t \in Tasks : Queued(t) <=> \E i \in DOMAIN waiters : waiters[i] = t
    /\ \A i, j \in DOMAIN waiters : waiters[i] = waiters[j] => i = j

\* Control changes hands only between actions and never within one generation:
\* a generation read under one owner can never admit an action under another.
HandoffIsQuiescentAndFresh ==
    [][owner' # owner => /\ InFlight = {}
                         /\ InFlight' = {}
                         /\ control_generation' > control_generation]_vars

\* The dispatch lock, its queue and the control states together keep the promise
\* stated in ControlHandoff.
Handoff == INSTANCE ControlHandoff WITH
    Holders <- Actors,
    holder <- owner,
    term <- control_generation,
    open <- control_state \in {AUTOMATION, HUMAN_CONTROL},
    ended <- control_state = STOPPED,
    acts <- {[by |-> dispatch[t].actor, term |-> dispatch[t].generation] : t \in InFlight}

KeepsHandoffPromise == Handoff!Spec

\* Every dispatch that waits for the lock is answered.
QueuedDispatchIsAnswered == \A t \in Tasks : Queued(t) ~> ~ Queued(t)

\* A requested pause reaches quiescence, so that WAITING_FOR_QUIESCENCE cannot last.
PauseQuiesces == control_state = PAUSING ~> ~ locked
=============================================================================
