------------------------ MODULE SessionControlProofs ------------------------
(***************************************************************************)
(* Proofs about SessionControl, for every set of operators and tasks and   *)
(* every bound on the generation.                                          *)
(*                                                                         *)
(* The argument.  The lock is held exactly while an action is in flight    *)
(* (LockIsHeld), so grant and return, which look at the lock, find no      *)
(* action in flight.  Resume does not look at it, but it starts from       *)
(* resume_requested, and no action is in flight there: that is what        *)
(* InFlightGeneration says of that state.  Pause and stop leave the owner  *)
(* alone.  Hence the owner changes only when nothing is in flight.         *)
(***************************************************************************)
EXTENDS SessionControl, SequenceTheorems, TLAPS

LockIsHeld == locked <=> InFlight # {}

\* The inductive invariant.
IInv ==
    /\ TypeOK
    /\ LockIsHeld
    /\ OneInFlight
    /\ OwnerFitsState
    /\ InFlightBelongsToOwner
    /\ InFlightGeneration

-----------------------------------------------------------------------------
(* Typing *)

\* A sequence without one of its elements is a sequence of the same elements.
LEMMA RemoveAtType ==
    ASSUME NEW S, NEW s \in Seq(S), NEW i \in 1 .. Len(s)
    PROVE  RemoveAt(s, i) \in Seq(S)
<1>1. SubSeq(s, 1, i - 1) \in Seq(S)
  BY SubSeqProperties, LenProperties, ElementOfSeq
<1>2. SubSeq(s, i + 1, Len(s)) \in Seq(S)
  BY SubSeqProperties, LenProperties, ElementOfSeq
<1>3. QED
  BY <1>1, <1>2, ConcatProperties DEF RemoveAt

\* The session is well typed at first.
LEMMA InitTyped == Init => TypeOK
<1> SUFFICES ASSUME Init PROVE TypeOK
  OBVIOUS
<1>1. waiters \in Seq(Tasks)
  BY EmptySeq DEF Init
<1>2. dispatch \in [Tasks -> [phase : {"idle", "queued", "acting"},
                             actor : Actors \cup {Nobody},
                             generation : Generations]]
  BY SessionAssumption DEF Init, Idle, Generations
<1>3. control_generation \in Generations
  BY SessionAssumption DEF Init, Generations
<1>4. QED
  BY <1>1, <1>2, <1>3
     DEF Init, TypeOK, ControlStates, AUTOMATION, Actors

\* A transition keeps the types.
LEMMA ControlTyped == TypeOK /\ Control => TypeOK'
<1> SUFFICES ASSUME TypeOK, Control PROVE TypeOK'
  OBVIOUS
<1> USE SessionAssumption DEF TypeOK, ControlStates, Actors, Generations, lock,
        AUTOMATION, PAUSING, HUMAN_CONTROL, RESUME_CHECK, STOPPED, NextGeneration
<1>1. CASE RequestPause
  BY <1>1 DEF RequestPause
<1>2. CASE \E o \in Operators : GrantHumanControl(o)
  BY <1>2 DEF GrantHumanControl
<1>3. CASE ReturnControlForResumeCheck
  BY <1>3 DEF ReturnControlForResumeCheck
<1>4. CASE ResumeAutomationAfterValidation
  BY <1>4 DEF ResumeAutomationAfterValidation
<1>5. CASE StopSession
  BY <1>5 DEF StopSession
<1>6. QED
  BY <1>1, <1>2, <1>3, <1>4, <1>5 DEF Control

\* Taking the lock, or being refused in it, keeps the types.
LEMMA EnterTyped ==
    ASSUME TypeOK, NEW t \in Tasks, NEW a \in Actors \cup {Nobody}, NEW g \in Generations,
           Enter(t, a, g)
    PROVE  /\ locked' \in BOOLEAN
           /\ dispatch' \in [Tasks -> [phase : {"idle", "queued", "acting"},
                                       actor : Actors \cup {Nobody},
                                       generation : Generations]]
<1>1. MayDispatch(a, g) \in BOOLEAN
  BY DEF MayDispatch, AutomationMayDispatch, OperatorMayDispatch
<1>2. 0 \in Generations
  BY SessionAssumption DEF Generations
<1>3. QED
  BY <1>1, <1>2 DEF TypeOK, Enter, Idle

\* A dispatch keeps the types.
LEMMA DispatchTyped ==
    ASSUME TypeOK, NEW t \in Tasks, Dispatching(t)
    PROVE  TypeOK'
<1> USE SessionAssumption DEF TypeOK, session
<1>0. /\ 0 .. control_generation \subseteq Generations
      /\ 0 \in Generations
  BY DEF Generations
<1>1. ASSUME NEW a \in Actors, NEW g \in 0 .. control_generation, DispatchAtOnce(t, a, g)
      PROVE  TypeOK'
  BY <1>0, <1>1, EnterTyped DEF DispatchAtOnce
<1>2. ASSUME NEW a \in Actors, NEW g \in 0 .. control_generation, DispatchQueues(t, a, g)
      PROVE  TypeOK'
  BY <1>0, <1>2 DEF DispatchQueues
<1>3. CASE WokenDispatch(t)
  <2>1. Tail(waiters) \in Seq(Tasks)
    BY <1>3, HeadTailProperties DEF WokenDispatch
  <2>2. QED
    BY <1>3, <2>1, EnterTyped DEF WokenDispatch
<1>4. CASE EndDispatch(t)
  BY <1>0, <1>4 DEF EndDispatch, Idle
<1>5. CASE CancelQueued(t)
  <2>1. PICK i \in 1 .. Len(waiters) : waiters' = RemoveAt(waiters, i)
    BY <1>5 DEF CancelQueued
  <2>2. waiters' \in Seq(Tasks)
    BY <2>1, RemoveAtType
  <2>3. QED
    BY <1>0, <1>5, <2>2 DEF CancelQueued, Idle
<1>6. QED
  BY <1>1, <1>2, <1>3, <1>4, <1>5 DEF Dispatching

\* Every reachable state is well typed, in particular the generation stays within its bound
\* and only known tasks ever wait for the dispatch lock.
THEOREM TypeCorrect == Spec => []TypeOK
<1>1. TypeOK /\ [Next]_vars => TypeOK'
  <2>1. TypeOK /\ UNCHANGED vars => TypeOK'
    BY DEF TypeOK, vars, session, lock
  <2>2. QED
    BY <2>1, ControlTyped, DispatchTyped DEF Next
<1>2. QED
  BY InitTyped, <1>1, PTL DEF Spec

\* No step takes the generation back.
LEMMA GenerationGrows ==
    ASSUME TypeOK, [Next]_vars
    PROVE  /\ control_generation \in Nat /\ control_generation' \in Nat
           /\ control_generation <= control_generation'
<1>0. control_generation \in Nat
  BY DEF TypeOK, Generations
<1>1. control_generation' = control_generation \/ control_generation' = control_generation + 1
  BY DEF Next, Control, RequestPause, GrantHumanControl, ReturnControlForResumeCheck,
         ResumeAutomationAfterValidation, StopSession, NextGeneration, Dispatching,
         DispatchAtOnce, DispatchQueues, WokenDispatch, EndDispatch, CancelQueued,
         session, vars
<1>2. QED
  BY <1>0, <1>1

\* A task's dispatch is its own.
LEMMA DispatchElsewhere ==
    ASSUME TypeOK, NEW t \in Tasks, Dispatching(t)
    PROVE  \A u \in Tasks \ {t} : dispatch'[u] = dispatch[u]
BY DEF TypeOK, Dispatching, DispatchAtOnce, DispatchQueues, WokenDispatch, Enter, EndDispatch,
       CancelQueued

-----------------------------------------------------------------------------
(* The owner acts alone *)

\* The inductive invariant holds at first.
LEMMA InitSafe == Init => IInv
<1> SUFFICES ASSUME Init PROVE IInv
  OBVIOUS
<1>1. InFlight = {}
  BY DEF Init, InFlight, Acting, Phase, Idle
<1>2. TypeOK
  BY InitTyped
<1>3. QED
  BY <1>1, <1>2 DEF IInv, Init, LockIsHeld, OneInFlight, OwnerFitsState,
         InFlightBelongsToOwner, InFlightGeneration,
         AUTOMATION, PAUSING, HUMAN_CONTROL, RESUME_CHECK

\* A control transition leaves the actions in flight as they are.
LEMMA ControlKeepsActions ==
    Control => /\ InFlight' = InFlight
               /\ UNCHANGED <<locked, dispatch>>
BY DEF Control, RequestPause, GrantHumanControl, ReturnControlForResumeCheck,
       ResumeAutomationAfterValidation, StopSession, lock, InFlight, Acting, Phase

\* No transition breaks it.
LEMMA ControlSafe == IInv /\ Control => IInv'
<1> SUFFICES ASSUME IInv, Control PROVE IInv'
  OBVIOUS
<1> USE ControlKeepsActions, SessionAssumption
        DEF IInv, LockIsHeld, OneInFlight, OwnerFitsState, InFlightBelongsToOwner,
            InFlightGeneration, NextGeneration
<1>0. /\ TypeOK'
      /\ \A t \in InFlight : t \in Tasks /\ dispatch[t].generation \in Nat
      /\ control_generation \in Nat
  BY ControlTyped DEF InFlight, TypeOK, Generations
<1> USE DEF AUTOMATION, PAUSING, HUMAN_CONTROL, RESUME_CHECK, STOPPED
<1>1. CASE RequestPause
  BY <1>0, <1>1 DEF RequestPause
<1>2. CASE \E o \in Operators : GrantHumanControl(o)
  BY <1>0, <1>2 DEF GrantHumanControl
<1>3. CASE ReturnControlForResumeCheck
  BY <1>0, <1>3 DEF ReturnControlForResumeCheck
<1>4. CASE ResumeAutomationAfterValidation
  \* No disjunct of InFlightGeneration allows resume_requested.
  <2>1. InFlight = {}
    BY <1>4 DEF ResumeAutomationAfterValidation
  <2>2. QED
    BY <1>0, <1>4, <2>1 DEF ResumeAutomationAfterValidation
<1>5. CASE StopSession
  BY <1>0, <1>5 DEF StopSession
<1>6. QED
  BY <1>1, <1>2, <1>3, <1>4, <1>5 DEF Control

\* What Enter does to the actions in flight: it starts t's action or none.
LEMMA EnterActions ==
    ASSUME TypeOK, NEW t \in Tasks, NEW a, NEW g, Enter(t, a, g), LockIsHeld
    PROVE  /\ InFlight = {}
           /\ ~ MayDispatch(a, g) => InFlight' = {}
           /\ MayDispatch(a, g) => /\ InFlight' = {t}
                                   /\ dispatch'[t].actor = a
                                   /\ dispatch'[t].generation = g
<1>1. InFlight = {}
  BY DEF Enter, LockIsHeld
<1>2. \A u \in Tasks : u # t => dispatch'[u] = dispatch[u]
  BY DEF Enter, TypeOK
<1>3. dispatch'[t] = IF MayDispatch(a, g)
                     THEN [phase |-> "acting", actor |-> a, generation |-> g]
                     ELSE Idle
  BY DEF Enter, TypeOK
<1>4. QED
  BY <1>1, <1>2, <1>3 DEF InFlight, Acting, Phase, Idle

\* Admission in the lock re-establishes owner and generation.
LEMMA EnterSafe ==
    ASSUME IInv, TypeOK', NEW t \in Tasks, NEW a \in Actors \cup {Nobody},
           NEW g \in Generations, Enter(t, a, g), UNCHANGED session
    PROVE  IInv'
<1>1. CASE MayDispatch(a, g)
  <2>1. /\ InFlight' = {t}
        /\ dispatch'[t].actor = a
        /\ dispatch'[t].generation = g
    BY <1>1, EnterActions, Zenon DEF IInv
  <2>4. locked'
    BY <1>1, Zenon DEF Enter
  <2>2. /\ owner' = a
        /\ control_generation' = g
        /\ control_state' \in {AUTOMATION, HUMAN_CONTROL}
    BY <1>1 DEF MayDispatch, AutomationMayDispatch, OperatorMayDispatch, session
  <2>3. OwnerFitsState'
    BY DEF IInv, OwnerFitsState, session
  <2>5. QED
    BY <2>1, <2>2, <2>3, <2>4 DEF IInv, LockIsHeld, OneInFlight, InFlightBelongsToOwner,
                            InFlightGeneration
<1>2. CASE ~ MayDispatch(a, g)
  <2>1. InFlight' = {} /\ ~ locked'
    BY <1>2, EnterActions, Zenon DEF IInv, Enter
  <2>2. OwnerFitsState'
    BY DEF IInv, OwnerFitsState, session
  <2>3. QED
    BY <2>1, <2>2 DEF IInv, LockIsHeld, OneInFlight, InFlightBelongsToOwner,
                      InFlightGeneration
<1>3. QED
  BY <1>1, <1>2

\* Queueing, and leaving the queue, touches no action in flight.
LEMMA QueueKeepsActions ==
    ASSUME TypeOK, NEW t \in Tasks, ~ Acting(t), NEW d, d.phase # "acting",
           dispatch' = [dispatch EXCEPT ![t] = d]
    PROVE  /\ InFlight' = InFlight
           /\ \A u \in InFlight : dispatch'[u] = dispatch[u]
BY DEF TypeOK, InFlight, Acting, Phase

\* A step that changes the queue only does not matter to it.
LEMMA QueueSafe ==
    ASSUME IInv, TypeOK', InFlight' = InFlight,
           \A u \in InFlight : dispatch'[u] = dispatch[u],
           UNCHANGED <<session, locked>>
    PROVE  IInv'
BY DEF IInv, LockIsHeld, OneInFlight, OwnerFitsState, InFlightBelongsToOwner,
       InFlightGeneration, session

\* No phase of a dispatch breaks it.
LEMMA DispatchSafe ==
    ASSUME IInv, NEW t \in Tasks, Dispatching(t)
    PROVE  IInv'
<1>0. /\ TypeOK
      /\ TypeOK'
      /\ dispatch[t].actor \in Actors \cup {Nobody}
      /\ dispatch[t].generation \in Generations
      /\ 0 .. control_generation \subseteq Generations
  BY DispatchTyped, SessionAssumption DEF IInv, TypeOK, Generations
<1>1. ASSUME NEW a \in Actors, NEW g \in 0 .. control_generation, DispatchAtOnce(t, a, g)
      PROVE  IInv'
  BY <1>0, <1>1, EnterSafe DEF DispatchAtOnce
<1>2. ASSUME NEW a \in Actors, NEW g \in 0 .. control_generation, DispatchQueues(t, a, g)
      PROVE  IInv'
  <2> DEFINE d == [phase |-> "queued", actor |-> a, generation |-> g]
  <2>1. /\ ~ Acting(t)
        /\ d.phase # "acting"
        /\ dispatch' = [dispatch EXCEPT ![t] = d]
    BY <1>2 DEF DispatchQueues, Acting, Phase
  <2>2. QED
    BY <1>0, <1>2, <2>1, QueueKeepsActions, QueueSafe DEF DispatchQueues
<1>3. CASE WokenDispatch(t)
  BY <1>0, <1>3, EnterSafe DEF WokenDispatch
<1>4. CASE EndDispatch(t)
  <2>1. InFlight' = {}
    BY <1>0, <1>4 DEF EndDispatch, IInv, OneInFlight, InFlight, Acting, Phase, Idle, TypeOK
  <2>2. locked' = FALSE /\ OwnerFitsState'
    BY <1>4 DEF EndDispatch, IInv, OwnerFitsState, session
  <2>3. QED
    BY <1>0, <2>1, <2>2 DEF IInv, LockIsHeld, OneInFlight, InFlightBelongsToOwner,
                            InFlightGeneration
<1>5. CASE CancelQueued(t)
  <2>1. ~ Acting(t) /\ Idle.phase # "acting" /\ dispatch' = [dispatch EXCEPT ![t] = Idle]
    BY <1>5 DEF CancelQueued, Queued, Acting, Phase, Idle
  <2>2. QED
    BY <1>0, <1>5, <2>1, QueueKeepsActions, QueueSafe DEF CancelQueued
<1>6. QED
  BY <1>1, <1>2, <1>3, <1>4, <1>5 DEF Dispatching

\* The invariant is inductive.
LEMMA StepSafe == IInv /\ [Next]_vars => IInv'
<1>1. IInv /\ UNCHANGED vars => IInv'
  BY DEF IInv, TypeOK, LockIsHeld, OneInFlight, OwnerFitsState, InFlightBelongsToOwner,
         InFlightGeneration, InFlight, Acting, Phase, vars, session, lock
<1>2. QED
  BY <1>1, ControlSafe, DispatchSafe DEF Next

\* The invariant holds.
LEMMA Invariance == Spec => []IInv
BY InitSafe, StepSafe, PTL DEF Spec

\* Whatever handoffs happen around it, an action in flight is the session owner's.
THEOREM OwnerActs == Spec => []InFlightBelongsToOwner
BY Invariance, PTL DEF IInv

\* At most one action is in flight on a session.
THEOREM ActionsExclude == Spec => []OneInFlight
BY Invariance, PTL DEF IInv

\* Only a pause and a stop can overtake an action that was admitted under the current
\* generation; after a grant, a return or a resume nothing admitted earlier is in flight.
THEOREM OvertakenOnlyByPauseOrStop == Spec => []InFlightGeneration
BY Invariance, PTL DEF IInv

\* The owner's kind always fits the control state: the controller's consistency refusals
\* are unreachable.
THEOREM OwnerFits == Spec => []OwnerFitsState
BY Invariance, PTL DEF IInv

-----------------------------------------------------------------------------
(* Handoff *)

\* The owner changes only at grant and resume, with nothing in flight.
LEMMA OwnerStep ==
    ASSUME IInv, [Next]_vars, owner' # owner
    PROVE  /\ InFlight = {}
           /\ InFlight' = {}
           /\ control_generation' > control_generation
<1>0. control_generation \in Nat
  BY DEF IInv, TypeOK, Generations
<1>1. Control
  BY DEF Next, vars, session, Dispatching, DispatchAtOnce, DispatchQueues, WokenDispatch,
         EndDispatch, CancelQueued
<1>2. CASE \E o \in Operators : GrantHumanControl(o)
  BY <1>0, <1>1, <1>2, ControlKeepsActions
     DEF GrantHumanControl, NextGeneration, IInv, LockIsHeld
<1>3. CASE ResumeAutomationAfterValidation
  <2>1. InFlight = {}
    BY <1>3 DEF ResumeAutomationAfterValidation, IInv, InFlightGeneration,
                AUTOMATION, PAUSING, HUMAN_CONTROL, RESUME_CHECK, STOPPED
  <2>2. QED
    BY <1>0, <1>1, <1>3, <2>1, ControlKeepsActions
       DEF ResumeAutomationAfterValidation, NextGeneration
<1>4. QED
  BY <1>1, <1>2, <1>3 DEF Control, RequestPause, ReturnControlForResumeCheck, StopSession

\* Control changes hands only between actions, and always under a new generation.
THEOREM HandoffFresh == Spec => HandoffIsQuiescentAndFresh
<1>1. IInv /\ [Next]_vars =>
        [owner' # owner => /\ InFlight = {}
                           /\ InFlight' = {}
                           /\ control_generation' > control_generation]_vars
  BY OwnerStep
<1>2. QED
  BY Invariance, <1>1, PTL DEF Spec, HandoffIsQuiescentAndFresh

-----------------------------------------------------------------------------
(* Refinement *)

\* The actions in flight as ControlHandoff sees them.
Acts == {[by |-> dispatch[t].actor, term |-> dispatch[t].generation] : t \in InFlight}

\* The initial states are those of ControlHandoff.
LEMMA InitRefines == Init => Handoff!Init
<1> SUFFICES ASSUME Init PROVE Handoff!Init
  OBVIOUS
<1>1. InFlight = {}
  BY DEF Init, InFlight, Acting, Phase, Idle
<1>2. QED
  BY <1>1 DEF Init, Handoff!Init, Actors, AUTOMATION, STOPPED

\* A transition is a step of ControlHandoff.
LEMMA ControlRefines == IInv /\ Control => Handoff!Next
<1> SUFFICES ASSUME IInv, Control PROVE Handoff!Next
  OBVIOUS
<1> USE DEF AUTOMATION, PAUSING, HUMAN_CONTROL, RESUME_CHECK, STOPPED, NextGeneration
<1>0. Acts' = Acts
  BY ControlKeepsActions DEF Acts
<1>1. CASE RequestPause
  <2>1. Handoff!Close
    BY <1>0, <1>1 DEF RequestPause, Handoff!Close, Acts
  <2>2. QED
    BY <2>1 DEF Handoff!Next
<1>2. ASSUME NEW o \in Operators, GrantHumanControl(o) PROVE Handoff!Next
  <2>1. Acts = {} /\ owner # o
    BY <1>2, SessionAssumption
       DEF GrantHumanControl, IInv, LockIsHeld, OwnerFitsState, Acts
  <2>2. Handoff!HandOver
    BY <1>0, <1>2, <2>1 DEF GrantHumanControl, Handoff!HandOver, Acts, Actors
  <2>3. QED
    BY <2>2 DEF Handoff!Next
<1>3. CASE ReturnControlForResumeCheck
  <2>1. Handoff!Close
    BY <1>0, <1>3 DEF ReturnControlForResumeCheck, Handoff!Close, Acts
  <2>2. QED
    BY <2>1 DEF Handoff!Next
<1>4. CASE ResumeAutomationAfterValidation
  <2>1. Acts = {}
    BY <1>4 DEF ResumeAutomationAfterValidation, IInv, InFlightGeneration, Acts
  <2>2. owner # Run
    BY <1>4, SessionAssumption DEF ResumeAutomationAfterValidation
  <2>3. Handoff!HandOver
    BY <1>0, <1>4, <2>1, <2>2
       DEF ResumeAutomationAfterValidation, Handoff!HandOver, Acts, Actors
  <2>4. QED
    BY <2>3 DEF Handoff!Next
<1>5. CASE StopSession
  <2>1. Handoff!End
    BY <1>0, <1>5 DEF StopSession, Handoff!End, Acts
  <2>2. QED
    BY <2>1 DEF Handoff!Next
<1>6. QED
  BY <1>1, <1>2, <1>3, <1>4, <1>5 DEF Control

\* An admitted action is a Start; a refusal is invisible.
LEMMA EnterRefines ==
    ASSUME IInv, NEW t \in Tasks, NEW a, NEW g, Enter(t, a, g), UNCHANGED session
    PROVE  [Handoff!Next]_Handoff!vars
<1>1. Acts = {}
  BY EnterActions, Zenon DEF IInv, Acts
<1>2. CASE MayDispatch(a, g)
  <2>1. /\ InFlight' = {t}
        /\ dispatch'[t].actor = a
        /\ dispatch'[t].generation = g
    BY <1>2, EnterActions, Zenon DEF IInv
  <2>2. Acts' = {[by |-> a, term |-> g]}
    BY <2>1 DEF Acts
  <2>3. /\ owner = a
        /\ control_generation = g
        /\ control_state \in {AUTOMATION, HUMAN_CONTROL}
    BY <1>2 DEF MayDispatch, AutomationMayDispatch, OperatorMayDispatch
  <2>4. Handoff!Start
    BY <1>1, <2>2, <2>3 DEF Handoff!Start, session, Acts
  <2>5. QED
    BY <2>4 DEF Handoff!Next
<1>3. CASE ~ MayDispatch(a, g)
  <2>1. InFlight' = {}
    BY <1>3, EnterActions, Zenon DEF IInv
  <2>2. Acts' = {}
    BY <2>1 DEF Acts
  <2>3. QED
    BY <1>1, <2>2 DEF Handoff!vars, session, Acts
<1>4. QED
  BY <1>2, <1>3

\* A dispatch is a step of ControlHandoff, or stutters.
LEMMA DispatchRefines ==
    ASSUME IInv, NEW t \in Tasks, Dispatching(t)
    PROVE  [Handoff!Next]_Handoff!vars
<1>0. TypeOK
  BY DEF IInv
<1>1. ASSUME NEW a \in Actors, NEW g \in 0 .. control_generation, DispatchAtOnce(t, a, g)
      PROVE  [Handoff!Next]_Handoff!vars
  BY <1>1, EnterRefines DEF DispatchAtOnce
<1>2. ASSUME NEW a \in Actors, NEW g \in 0 .. control_generation, DispatchQueues(t, a, g)
      PROVE  [Handoff!Next]_Handoff!vars
  <2> DEFINE d == [phase |-> "queued", actor |-> a, generation |-> g]
  <2>1. /\ ~ Acting(t)
        /\ d.phase # "acting"
        /\ dispatch' = [dispatch EXCEPT ![t] = d]
    BY <1>2 DEF DispatchQueues, Acting, Phase
  <2>2. Acts' = Acts
    BY <1>0, <2>1, QueueKeepsActions DEF Acts
  <2>3. QED
    BY <1>2, <2>2 DEF DispatchQueues, Handoff!vars, session, Acts
<1>3. CASE WokenDispatch(t)
  BY <1>3, EnterRefines DEF WokenDispatch
<1>4. CASE EndDispatch(t)
  <2>1. Acts # {}
    BY <1>4 DEF EndDispatch, InFlight, Acts
  <2>2. InFlight' = {}
    BY <1>0, <1>4 DEF EndDispatch, IInv, OneInFlight, InFlight, Acting, Phase, Idle, TypeOK
  <2>3. Handoff!Finish
    BY <1>4, <2>1, <2>2 DEF EndDispatch, Handoff!Finish, session, Acts
  <2>4. QED
    BY <2>3 DEF Handoff!Next
<1>5. CASE CancelQueued(t)
  <2>1. ~ Acting(t) /\ Idle.phase # "acting" /\ dispatch' = [dispatch EXCEPT ![t] = Idle]
    BY <1>5 DEF CancelQueued, Queued, Acting, Phase, Idle
  <2>2. Acts' = Acts
    BY <1>0, <2>1, QueueKeepsActions DEF Acts
  <2>3. QED
    BY <1>5, <2>2 DEF CancelQueued, Handoff!vars, session, Acts
<1>6. QED
  BY <1>1, <1>2, <1>3, <1>4, <1>5 DEF Dispatching

\* The controller's locks, queue and states implement the promise of ControlHandoff:
\* every step is one of its steps or is invisible to it.
THEOREM ImplementsHandoff == Spec => KeepsHandoffPromise
<1>1. IInv /\ UNCHANGED vars => UNCHANGED Handoff!vars
  BY DEF vars, session, lock, Handoff!vars, InFlight, Acting, Phase
<1>2. IInv /\ [Next]_vars => [Handoff!Next]_Handoff!vars
  BY <1>1, ControlRefines, DispatchRefines DEF Next
<1>3. QED
  BY InitRefines, Invariance, <1>2, PTL DEF Spec, KeepsHandoffPromise, Handoff!Spec

-----------------------------------------------------------------------------
(* The queue of the dispatch lock.  A task enters it only when it is idle, hence  *)
(* not in it, and leaves it at the head, when it is woken, or anywhere, when it   *)
(* is cancelled.  As no task is twice in the queue, taking one occurrence out     *)
(* takes the task out.                                                            *)

QueueInv == TypeOK /\ QueueHoldsWaiters

\* A sequence without its i-th element: what was behind it moves up.
LEMMA RemoveAtElements ==
    ASSUME NEW S, NEW s \in Seq(S), NEW i \in 1 .. Len(s)
    PROVE  /\ RemoveAt(s, i) \in Seq(S)
           /\ Len(RemoveAt(s, i)) = Len(s) - 1
           /\ \A j \in 1 .. Len(s) - 1 :
                  RemoveAt(s, i)[j] = IF j < i THEN s[j] ELSE s[j + 1]
<1> DEFINE front == SubSeq(s, 1, i - 1)
           back == SubSeq(s, i + 1, Len(s))
<1>0. Len(s) \in Nat /\ i \in Nat
  BY LenProperties
<1>1. /\ front \in Seq(S)
      /\ Len(front) = i - 1
      /\ \A j \in 1 .. i - 1 : front[j] = s[j]
  <2>1. \A j \in 1 .. i - 1 : s[j] \in S
    BY <1>0, ElementOfSeq
  <2>2. 1 \in Int /\ i - 1 \in Int
    BY <1>0
  <2>3. /\ front \in Seq(S)
        /\ Len(front) = IF 1 <= i - 1 THEN (i - 1) - 1 + 1 ELSE 0
        /\ \A j \in 1 .. (i - 1) - 1 + 1 : front[j] = s[1 + j - 1]
    BY <2>1, <2>2, SubSeqProperties
  <2>4. QED
    BY <1>0, <2>3
<1>2. /\ back \in Seq(S)
      /\ Len(back) = Len(s) - i
      /\ \A j \in 1 .. Len(s) - i : back[j] = s[i + j]
  <2>1. \A j \in i + 1 .. Len(s) : s[j] \in S
    BY <1>0, ElementOfSeq
  <2>2. i + 1 \in Int /\ Len(s) \in Int
    BY <1>0
  <2>3. /\ back \in Seq(S)
        /\ Len(back) = IF i + 1 <= Len(s) THEN Len(s) - (i + 1) + 1 ELSE 0
        /\ \A j \in 1 .. Len(s) - (i + 1) + 1 : back[j] = s[(i + 1) + j - 1]
    BY <2>1, <2>2, SubSeqProperties
  <2>4. QED
    BY <1>0, <2>3
<1>3. RemoveAt(s, i) = front \o back
  BY DEF RemoveAt
<1> HIDE DEF front, back
<1>4. /\ RemoveAt(s, i) \in Seq(S)
      /\ Len(RemoveAt(s, i)) = Len(front) + Len(back)
      /\ \A j \in 1 .. Len(front) + Len(back) :
             RemoveAt(s, i)[j] = IF j <= Len(front) THEN front[j] ELSE back[j - Len(front)]
  <2>1. /\ front \o back \in Seq(S)
        /\ Len(front \o back) = Len(front) + Len(back)
        /\ \A j \in 1 .. Len(front) + Len(back) :
               (front \o back)[j] = IF j <= Len(front) THEN front[j] ELSE back[j - Len(front)]
    BY <1>1, <1>2, ConcatProperties
  <2>2. QED
    BY <1>3, <2>1, Zenon
<1>5. ASSUME NEW j \in 1 .. Len(s) - 1
      PROVE  RemoveAt(s, i)[j] = IF j < i THEN s[j] ELSE s[j + 1]
  <2>0. /\ j \in 1 .. Len(front) + Len(back)
        /\ j <= Len(front) <=> j < i
    BY <1>0, <1>1, <1>2
  <2>1. CASE j < i
    <3>1. front[j] = s[j]
      BY <1>0, <1>1, <2>1
    <3>2. QED
      BY <1>4, <2>0, <2>1, <3>1
  <2>2. CASE ~ (j < i)
    <3>1. j - (i - 1) \in 1 .. Len(s) - i
      BY <1>0, <2>2
    <3>2. back[j - (i - 1)] = s[i + (j - (i - 1))]
      BY <1>2, <3>1
    <3>3. i + (j - (i - 1)) = j + 1
      BY <1>0
    <3>4. QED
      BY <1>1, <1>4, <2>0, <2>2, <3>2, <3>3
  <2>3. QED
    BY <2>1, <2>2
<1>6. QED
  BY <1>0, <1>1, <1>2, <1>4, <1>5

-----------------------------------------------------------------------------
\* The three ways the queue changes, each with the task that enters or leaves.
LEMMA AppendQueue ==
    ASSUME QueueInv, NEW t \in Tasks, ~ Queued(t),
           waiters' = Append(waiters, t), Queued(t)',
           \A u \in Tasks \ {t} : Queued(u)' <=> Queued(u)
    PROVE  QueueHoldsWaiters'
<1>1. /\ waiters \in Seq(Tasks)
      /\ Len(waiters) \in Nat
      /\ DOMAIN waiters = 1 .. Len(waiters)
  BY LenProperties DEF QueueInv, TypeOK
<1>2. /\ waiters' \in Seq(Tasks)
      /\ Len(waiters') = Len(waiters) + 1
      /\ \A i \in 1 .. Len(waiters) : waiters'[i] = waiters[i]
      /\ waiters'[Len(waiters) + 1] = t
  BY <1>1, AppendProperties
<1>3. DOMAIN waiters' = 1 .. Len(waiters) + 1
  BY <1>2, LenProperties
<1>4. \A i \in 1 .. Len(waiters) : waiters[i] # t
  BY <1>1 DEF QueueInv, QueueHoldsWaiters
<1>5. \A u \in Tasks : Queued(u)' <=> \E i \in DOMAIN waiters' : waiters'[i] = u
  <2>1. ASSUME NEW u \in Tasks \ {t}
        PROVE  Queued(u)' <=> \E i \in DOMAIN waiters' : waiters'[i] = u
    BY <1>1, <1>2, <1>3 DEF QueueInv, QueueHoldsWaiters
  <2>2. Len(waiters) + 1 \in DOMAIN waiters'
    BY <1>1, <1>3
  <2>3. QED
    BY <1>2, <2>1, <2>2
<1>6. \A i, j \in DOMAIN waiters' : waiters'[i] = waiters'[j] => i = j
  BY <1>1, <1>2, <1>3, <1>4 DEF QueueInv, QueueHoldsWaiters
<1>7. QED
  BY <1>5, <1>6 DEF QueueHoldsWaiters

\* A task leaves the queue and no longer waits; nobody else's place is lost.
LEMMA RemoveQueue ==
    ASSUME QueueInv, NEW i \in 1 .. Len(waiters), NEW t \in Tasks, waiters[i] = t,
           waiters' = RemoveAt(waiters, i), ~ Queued(t)',
           \A u \in Tasks \ {t} : Queued(u)' <=> Queued(u)
    PROVE  QueueHoldsWaiters'
<1> DEFINE n == Len(waiters)
<1>1. /\ waiters \in Seq(Tasks)
      /\ n \in Nat
      /\ DOMAIN waiters = 1 .. n
  BY LenProperties DEF QueueInv, TypeOK
<1>2. /\ waiters' \in Seq(Tasks)
      /\ Len(waiters') = n - 1
      /\ \A j \in 1 .. n - 1 : waiters'[j] = IF j < i THEN waiters[j] ELSE waiters[j + 1]
  BY <1>1, RemoveAtElements
<1>3. DOMAIN waiters' = 1 .. n - 1
  BY <1>2, LenProperties
<1>4. \A j, k \in 1 .. n : waiters[j] = waiters[k] => j = k
  BY <1>1 DEF QueueInv, QueueHoldsWaiters
<1> HIDE DEF n
<1>5. i \in 1 .. n
  BY DEF n
<1>6. \A u \in Tasks : Queued(u)' <=> \E j \in DOMAIN waiters' : waiters'[j] = u
  <2>1. \A j \in 1 .. n - 1 : waiters'[j] # t
    BY <1>1, <1>2, <1>4, <1>5
  <2>2. ASSUME NEW u \in Tasks \ {t}
        PROVE  (\E j \in 1 .. n : waiters[j] = u) <=> \E j \in 1 .. n - 1 : waiters'[j] = u
    <3>1. ASSUME NEW j \in 1 .. n, waiters[j] = u
          PROVE  \E k \in 1 .. n - 1 : waiters'[k] = u
      <4>1. CASE j < i
        BY <1>1, <1>2, <1>5, <3>1, <4>1
      <4>2. CASE j > i
        <5>1. j - 1 \in 1 .. n - 1 /\ ~ (j - 1 < i) /\ (j - 1) + 1 = j
          BY <1>1, <1>5, <4>2
        <5>2. QED
          BY <1>2, <3>1, <5>1
      <4>3. j # i
        BY <3>1
      <4>4. QED
        BY <1>1, <1>5, <4>1, <4>2, <4>3
    <3>2. ASSUME NEW k \in 1 .. n - 1, waiters'[k] = u
          PROVE  \E j \in 1 .. n : waiters[j] = u
      <4>1. k \in 1 .. n /\ k + 1 \in 1 .. n
        BY <1>1
      <4>2. QED
        BY <1>2, <3>2, <4>1
    <3>3. QED
      BY <3>1, <3>2
  <2>3. QED
    BY <1>1, <1>3, <2>1, <2>2 DEF QueueInv, QueueHoldsWaiters
<1>7. \A j, k \in DOMAIN waiters' : waiters'[j] = waiters'[k] => j = k
  <2> SUFFICES ASSUME NEW j \in 1 .. n - 1, NEW k \in 1 .. n - 1, waiters'[j] = waiters'[k]
               PROVE  j = k
    BY <1>3
  <2>1. /\ j \in 1 .. n /\ j + 1 \in 1 .. n
        /\ k \in 1 .. n /\ k + 1 \in 1 .. n
    BY <1>1
  <2>2. QED
    BY <1>1, <1>2, <1>4, <1>5, <2>1
<1>8. QED
  BY <1>6, <1>7 DEF QueueHoldsWaiters

\* The head goes as any other element does.
LEMMA TailQueue ==
    ASSUME QueueInv, waiters # << >>
    PROVE  /\ 1 \in 1 .. Len(waiters)
           /\ waiters[1] = Head(waiters)
           /\ Tail(waiters) = RemoveAt(waiters, 1)
<1>1. /\ waiters \in Seq(Tasks)
      /\ Len(waiters) \in Nat \ {0}
  BY EmptySeq DEF QueueInv, TypeOK
<1>2. 1 \in 1 .. Len(waiters)
  BY <1>1
<1>3. /\ Tail(waiters) \in Seq(Tasks)
      /\ Len(Tail(waiters)) = Len(waiters) - 1
      /\ \A i \in 1 .. Len(Tail(waiters)) : Tail(waiters)[i] = waiters[i + 1]
  BY <1>1, HeadTailProperties
<1>4. /\ RemoveAt(waiters, 1) \in Seq(Tasks)
      /\ Len(RemoveAt(waiters, 1)) = Len(waiters) - 1
      /\ \A j \in 1 .. Len(waiters) - 1 :
             RemoveAt(waiters, 1)[j] = IF j < 1 THEN waiters[j] ELSE waiters[j + 1]
  BY <1>1, <1>2, RemoveAtElements
<1>5. \A j \in 1 .. Len(waiters) - 1 : Tail(waiters)[j] = RemoveAt(waiters, 1)[j]
  BY <1>1, <1>3, <1>4
<1>6. Tail(waiters) = RemoveAt(waiters, 1)
  BY <1>3, <1>4, <1>5, SeqEqual
<1>7. QED
  BY <1>1, <1>2, <1>6

-----------------------------------------------------------------------------
\* Only the dispatching task's phase changes.
LEMMA OthersKeepPhase ==
    ASSUME TypeOK, NEW t \in Tasks, NEW d, dispatch' = [dispatch EXCEPT ![t] = d]
    PROVE  /\ \A u \in Tasks \ {t} : Queued(u)' <=> Queued(u)
           /\ Queued(t)' <=> d.phase = "queued"
BY DEF TypeOK, Queued, Phase

\* Nobody enters or leaves the queue.
LEMMA SameQueue ==
    ASSUME QueueInv, UNCHANGED waiters, \A u \in Tasks : Queued(u)' <=> Queued(u)
    PROVE  QueueHoldsWaiters'
BY DEF QueueInv, QueueHoldsWaiters

\* No phase of a dispatch breaks the queue.
LEMMA DispatchKeepsQueue ==
    ASSUME QueueInv, NEW t \in Tasks, Dispatching(t)
    PROVE  QueueInv'
<1>0. TypeOK /\ TypeOK'
  BY DispatchTyped DEF QueueInv
<1>1. ASSUME NEW a \in Actors, NEW g \in 0 .. control_generation, DispatchAtOnce(t, a, g)
      PROVE  QueueHoldsWaiters'
  <2> DEFINE d == IF MayDispatch(a, g)
                  THEN [phase |-> "acting", actor |-> a, generation |-> g]
                  ELSE Idle
  <2>1. d.phase # "queued" /\ dispatch' = [dispatch EXCEPT ![t] = d]
    BY <1>1 DEF DispatchAtOnce, Enter, Idle
  <2> HIDE DEF d
  <2>2. ~ Queued(t)
    BY <1>1 DEF DispatchAtOnce, Queued
  <2>3. \A u \in Tasks : Queued(u)' <=> Queued(u)
    BY <1>0, <2>1, <2>2, OthersKeepPhase
  <2>4. QED
    BY <1>1, <2>3, SameQueue DEF DispatchAtOnce
<1>2. ASSUME NEW a \in Actors, NEW g \in 0 .. control_generation, DispatchQueues(t, a, g)
      PROVE  QueueHoldsWaiters'
  <2> DEFINE d == [phase |-> "queued", actor |-> a, generation |-> g]
  <2>1. d.phase = "queued" /\ dispatch' = [dispatch EXCEPT ![t] = d]
    BY <1>2 DEF DispatchQueues
  <2>2. Queued(t)' /\ \A u \in Tasks \ {t} : Queued(u)' <=> Queued(u)
    BY <1>0, <2>1, OthersKeepPhase
  <2>3. ~ Queued(t) /\ waiters' = Append(waiters, t)
    BY <1>2 DEF DispatchQueues, Queued
  <2>4. QED
    BY <2>2, <2>3, AppendQueue
<1>3. ASSUME WokenDispatch(t) PROVE QueueHoldsWaiters'
  <2> DEFINE a == dispatch[t].actor
             g == dispatch[t].generation
             d == IF MayDispatch(a, g)
                  THEN [phase |-> "acting", actor |-> a, generation |-> g]
                  ELSE Idle
  <2>1. d.phase # "queued" /\ dispatch' = [dispatch EXCEPT ![t] = d]
    BY <1>3 DEF WokenDispatch, Enter, Idle
  <2> HIDE DEF d
  <2>2. /\ 1 \in 1 .. Len(waiters)
        /\ waiters[1] = t
        /\ waiters' = RemoveAt(waiters, 1)
    BY <1>3, TailQueue DEF WokenDispatch
  <2>3. ~ Queued(t)' /\ \A u \in Tasks \ {t} : Queued(u)' <=> Queued(u)
    BY <1>0, <2>1, OthersKeepPhase
  <2>4. QED
    BY <2>2, <2>3, RemoveQueue
<1>4. ASSUME EndDispatch(t) PROVE QueueHoldsWaiters'
  <2>1. Idle.phase # "queued" /\ dispatch' = [dispatch EXCEPT ![t] = Idle]
    BY <1>4 DEF EndDispatch, Idle
  <2>2. ~ Queued(t)
    BY <1>4 DEF EndDispatch, Acting, Queued
  <2>3. \A u \in Tasks : Queued(u)' <=> Queued(u)
    BY <1>0, <2>1, <2>2, OthersKeepPhase
  <2>4. QED
    BY <1>4, <2>3, SameQueue DEF EndDispatch
<1>5. ASSUME CancelQueued(t) PROVE QueueHoldsWaiters'
  <2>1. PICK i \in 1 .. Len(waiters) : waiters[i] = t /\ waiters' = RemoveAt(waiters, i)
    BY <1>5 DEF CancelQueued
  <2>2. Idle.phase # "queued" /\ dispatch' = [dispatch EXCEPT ![t] = Idle]
    BY <1>5 DEF CancelQueued, Idle
  <2>3. ~ Queued(t)' /\ \A u \in Tasks \ {t} : Queued(u)' <=> Queued(u)
    BY <1>0, <2>2, OthersKeepPhase
  <2>4. QED
    BY <2>1, <2>3, RemoveQueue
<1>6. QED
  BY <1>0, <1>1, <1>2, <1>3, <1>4, <1>5 DEF Dispatching, QueueInv

\* The queue is empty at first, and nobody waits.
LEMMA InitQueue == Init => QueueInv
<1> SUFFICES ASSUME Init PROVE QueueInv
  OBVIOUS
<1>1. DOMAIN waiters = {}
  BY EmptySeq, LenProperties DEF Init
<1>2. \A t \in Tasks : ~ Queued(t)
  BY DEF Init, Queued, Phase, Idle
<1>3. QED
  BY <1>1, <1>2, InitTyped DEF QueueInv, QueueHoldsWaiters

\* The invariant is inductive.
LEMMA StepKeepsQueue == QueueInv /\ [Next]_vars => QueueInv'
<1>1. ASSUME QueueInv, UNCHANGED vars PROVE QueueInv'
  BY <1>1 DEF QueueInv, TypeOK, QueueHoldsWaiters, Queued, Phase, vars, session, lock
<1>2. ASSUME QueueInv, Control PROVE QueueInv'
  <2>1. UNCHANGED waiters
    BY <1>2 DEF Control, RequestPause, GrantHumanControl, ReturnControlForResumeCheck,
                ResumeAutomationAfterValidation, StopSession, lock
  <2>2. \A u \in Tasks : Queued(u)' <=> Queued(u)
    BY <1>2, ControlKeepsActions DEF Queued, Phase
  <2>3. QED
    BY <1>2, <2>1, <2>2, SameQueue, ControlTyped DEF QueueInv
<1>3. QED
  BY <1>1, <1>2, DispatchKeepsQueue DEF Next

\* Every task in the queue of the dispatch lock waits, once, and every waiting task is in
\* it: no refusal, cancellation or handoff strands a dispatch or leaves a ghost behind.
THEOREM QueueIsExact == Spec => []QueueHoldsWaiters
<1>1. QueueInv => QueueHoldsWaiters
  BY DEF QueueInv
<1>2. QED
  BY InitQueue, StepKeepsQueue, <1>1, PTL DEF Spec
=============================================================================
