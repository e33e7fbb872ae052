------------------------ MODULE ReplayHandoffProofs -------------------------
(***************************************************************************)
(* Proofs about the handoff of a replay, for every set of callers,         *)
(* operators, interventions and steps and every number of failures.        *)
(*                                                                         *)
(* The argument.  A replay and a continuation a client knows of (an open   *)
(* one) never exist together: the replay ends as it suspends, and consumes *)
(* its continuation before it begins.  Hence at most one continuation is   *)
(* open, whoever validates validates that one, and the continuation's lock *)
(* admits a single validation.  While it runs, nothing but a stop can      *)
(* change the session.  Where the one replay stands, or the one open       *)
(* continuation would resume, nothing from there on has been performed,    *)
(* and what needs a human before it is on the page.                        *)
(***************************************************************************)
EXTENDS ReplayHandoff, SessionControlProofs

Places == {"idle", "waiting", "validating", "observing", "stepping", "dispatching"}

CallerType == [pc : Places, id : Ids \cup {NoId}, step : Nat, generation : Generations]

ReplayTyped ==
    /\ caller \in [Callers -> CallerType]
    /\ registry \in [Ids -> {"absent", "pending", "consumed"}]
    /\ checkpoint \in [Ids -> [step : Nat, generation : Generations]]
    /\ records \in [Ids -> Nat]
    /\ known \subseteq Ids
    /\ performed \in [Steps -> Nat]
    /\ faults \in Nat

\* A continuation that a client can resume.
Open(i) == registry[i] = "pending" /\ i \in known

\* A replay may go on at step p.
MayGoOn(p) ==
    /\ \A s \in Steps : s >= p => performed[s] = 0
    /\ \A s \in ApprovalSteps : s < p => s \in effects

\* A caller dispatches only as its replay does, under a generation that has been.
CallerFits(c) ==
    /\ Phase(c) # "idle" => PC(c) = "dispatching"
    /\ caller[c].generation <= control_generation
    /\ PC(c) \in {"waiting", "validating"} => caller[c].id \in known

\* A validation is of a pending continuation, and of the return it began after.
ValidationFits(c) ==
    PC(c) = "validating" =>
        /\ registry[caller[c].id] = "pending"
        /\ \/ control_state = STOPPED
           \/ control_state = RESUME_CHECK /\ caller[c].generation = control_generation

PositionFits(c) ==
    /\ PC(c) = "observing" => /\ caller[c].id \in Ids
                              /\ MayGoOn(checkpoint[caller[c].id].step)
    /\ PC(c) \in {"stepping", "dispatching"} => MayGoOn(caller[c].step)
    /\ PC(c) = "dispatching" => caller[c].step \in Steps \ ApprovalSteps

OneResuming == \A c, d \in Callers : Resuming(c) /\ Resuming(d) => c = d
OneOpen == \A i, j \in Ids : Open(i) /\ Open(j) => i = j
ReplayOrOpen == \A c \in Callers, i \in Ids : ~ (Replaying(c) /\ Open(i))
OpenFits == \A i \in Ids : Open(i) => MayGoOn(checkpoint[i].step)

FaultFree ==
    faults = 0 => \A i \in Ids : registry[i] = "pending" =>
                      i \in known /\ control_state # AUTOMATION

CallersInv ==
    /\ \A c \in Callers : CallerFits(c) /\ ValidationFits(c) /\ PositionFits(c)
    /\ OneResuming

ContinuationsInv ==
    /\ OneOpen
    /\ ReplayOrOpen
    /\ OpenFits
    /\ FaultFree

\* The inductive invariant.
ReplayInv ==
    /\ TypeOK
    /\ QueueHoldsWaiters
    /\ ReplayTyped
    /\ CallersInv
    /\ ContinuationsInv
    /\ StepPerformedOnce

-----------------------------------------------------------------------------
(* Every step is a step of the session, or leaves it alone *)

\* A caller's generation is one the session has had.
LEMMA CallerGeneration ==
    ASSUME ReplayInv, NEW c \in Callers
    PROVE  caller[c].generation \in 0 .. control_generation
BY DEF ReplayInv, CallersInv, CallerFits, ReplayTyped, CallerType, TypeOK, Generations

\* A step of the handoff is one of the session, or leaves it alone.
LEMMA ReplaySessionStep == ReplayInv /\ [ReplayNext]_allVars => [Next]_vars
<1> SUFFICES ASSUME ReplayInv, [ReplayNext]_allVars PROVE [Next]_vars
  OBVIOUS
<1>0. Callers \subseteq Tasks /\ OperatorTasks \subseteq Tasks /\ Run \in Actors
  BY ReplayAssumption DEF Actors
<1>1. ASSUME NEW c \in Callers, CallerStep(c) PROVE [Next]_vars
  <2>1. CASE \E i \in Ids : Suspend(c, i)
    BY <2>1 DEF Suspend, Next, Control
  <2>2. CASE AdmitResume(c) \/ ValidationFails(c) \/ ValidationFindsStopped(c)
             \/ ResumeObserves(c) \/ ReplayEnds(c)
    BY <2>2 DEF AdmitResume, ValidationFails, ValidationFindsStopped, ResumeObserves, ReplayEnds
  <2>3. CASE ValidationSucceeds(c)
    BY <2>3 DEF ValidationSucceeds, TakeBack, Next, Control
  <2>4. CASE DispatchStep(c)
    BY <1>0, <2>4, CallerGeneration DEF DispatchStep, Next, Dispatching
  <2>5. CASE StepWoken(c) \/ StepCompletes(c) \/ StepFails(c)
    BY <1>0, <2>5 DEF StepWoken, StepCompletes, StepFails, Next, Dispatching
  <2>6. QED
    BY <1>1, <2>1, <2>2, <2>3, <2>4, <2>5 DEF CallerStep
<1>2. ASSUME NEW c \in Callers, NEW i \in Ids, CallResume(c, i) PROVE [Next]_vars
  BY <1>2 DEF CallResume
<1>3. ASSUME NEW o \in Operators, GrantOperatorControl(o) \/ ReturnOperatorControl(o)
      PROVE [Next]_vars
  BY <1>3 DEF GrantOperatorControl, ReturnOperatorControl, Next, Control
<1>4. ASSUME NEW t \in OperatorTasks, NEW o \in Operators, OperatorDispatch(t, o) PROVE [Next]_vars
  BY <1>0, <1>4 DEF OperatorDispatch, Next, Dispatching, Actors
<1>5. ASSUME NEW t \in OperatorTasks, OperatorTaskEnds(t) PROVE [Next]_vars
  BY <1>0, <1>5 DEF OperatorTaskEnds, OperatorWoken, OperatorActionEnds, Next, Dispatching
<1>6. CASE HumanInput \/ Stop \/ UNCHANGED allVars
  BY <1>6 DEF HumanInput, Stop, allVars, Next, Control
<1>7. QED
  BY <1>1, <1>2, <1>3, <1>4, <1>5, <1>6 DEF ReplayNext

-----------------------------------------------------------------------------
(* Beside the callers: people, the console and the page *)

Positions == CallersInv /\ ContinuationsInv

\* What moves no caller and no continuation, and does not give control back, is harmless.
LEMMA AsideSafe ==
    ASSUME ReplayInv, UNCHANGED <<caller, coordination, performed, faults>>,
           effects \subseteq effects',
           \A c \in Callers : Phase(c)' = Phase(c),
           control_generation \in Nat, control_generation' \in Nat,
           control_generation <= control_generation',
           \/ UNCHANGED <<control_state, control_generation>>
           \/ control_state' = STOPPED
           \/ control_state \in {PAUSING, HUMAN_CONTROL} /\ control_state' # AUTOMATION
    PROVE  Positions'
<1>0. ReplayTyped /\ CallersInv /\ ContinuationsInv
  BY DEF ReplayInv
<1>1. UNCHANGED <<registry, checkpoint, records, known>>
  BY DEF coordination
<1>2. ASSUME NEW p PROVE MayGoOn(p) => MayGoOn(p)'
  BY DEF MayGoOn
<1>3. ASSUME NEW c \in Callers PROVE CallerFits(c)' /\ ValidationFits(c)' /\ PositionFits(c)'
  <2>1. CallerFits(c)'
    BY <1>0, <1>1 DEF CallersInv, CallerFits, PC, ReplayTyped, CallerType, Generations
  <2>2. ValidationFits(c)'
    BY <1>0, <1>1 DEF CallersInv, ValidationFits, PC, PAUSING, HUMAN_CONTROL, STOPPED, RESUME_CHECK
  <2>3. PositionFits(c)'
    BY <1>0, <1>1, <1>2 DEF CallersInv, PositionFits, PC
  <2>4. QED
    BY <2>1, <2>2, <2>3
<1>4. OneResuming' /\ ReplayOrOpen' /\ OneOpen'
  BY <1>0, <1>1 DEF CallersInv, ContinuationsInv, OneResuming, ReplayOrOpen, OneOpen, Open,
                    Resuming, Replaying, PC
<1>5. OpenFits'
  BY <1>0, <1>1, <1>2 DEF ContinuationsInv, OpenFits, Open
<1>6. FaultFree'
  BY <1>0, <1>1 DEF ContinuationsInv, FaultFree, STOPPED, AUTOMATION
<1>7. QED
  BY <1>3, <1>4, <1>5, <1>6 DEF Positions, CallersInv, ContinuationsInv

-----------------------------------------------------------------------------
(* What a caller's step makes of the callers *)

Moved(c, pc, id, step, generation) ==
    /\ caller' \in [Callers -> CallerType]
    /\ \A d \in Callers \ {c} : caller'[d] = caller[d]
    /\ caller'[c].pc = pc
    /\ caller'[c].id = id
    /\ caller'[c].step = step
    /\ caller'[c].generation = generation

\* A caller's record is replaced.
LEMMA MovedBy ==
    ASSUME ReplayTyped, NEW c \in Callers, NEW r \in CallerType, caller' = [caller EXCEPT ![c] = r]
    PROVE  Moved(c, r.pc, r.id, r.step, r.generation)
BY DEF ReplayTyped, Moved

\* A caller at rest, field by field.
LEMMA AtRestTyped ==
    AtRest \in CallerType /\ AtRest = [pc |-> "idle", id |-> NoId, step |-> 0, generation |-> 0]
BY SessionAssumption DEF AtRest, CallerType, Places, Generations

\* A caller is answered.
LEMMA AnswerMoves ==
    ASSUME ReplayTyped, NEW c \in Callers, Answer(c)
    PROVE  Moved(c, "idle", NoId, 0, 0)
BY MovedBy, AtRestTyped DEF Answer

\* Who does not dispatch has no dispatch.
LEMMA NotDispatching ==
    ASSUME ReplayInv, NEW c \in Callers, PC(c) # "dispatching"
    PROVE  Phase(c) = "idle"
BY DEF ReplayInv, CallersInv, CallerFits

\* The other callers keep what holds of them if what they rely on is kept.
LEMMA OthersFit ==
    ASSUME ReplayInv, NEW c \in Callers, NEW d \in Callers \ {c},
           caller'[d] = caller[d], Phase(d)' = Phase(d), known \subseteq known',
           control_generation \in Nat, control_generation' \in Nat,
           control_generation <= control_generation',
           PC(d) = "validating" => /\ registry'[caller[d].id] = registry[caller[d].id]
                                   /\ UNCHANGED <<control_state, control_generation>>,
           Replaying(d) => /\ UNCHANGED <<checkpoint, performed>>
                           /\ effects \subseteq effects'
    PROVE  CallerFits(d)' /\ ValidationFits(d)' /\ PositionFits(d)'
<1>0. ReplayTyped /\ CallersInv
  BY DEF ReplayInv
<1>1. CallerFits(d)'
  BY <1>0 DEF CallersInv, CallerFits, PC, ReplayTyped, CallerType, Generations
<1>2. ValidationFits(d)'
  BY <1>0 DEF CallersInv, ValidationFits, PC
<1>3. ASSUME NEW p, Replaying(d), MayGoOn(p) PROVE MayGoOn(p)'
  BY <1>3 DEF MayGoOn
<1>4. PositionFits(d)'
  <2>1. CASE Replaying(d)
    BY <1>0, <1>3, <2>1 DEF CallersInv, PositionFits, PC
  <2>2. CASE ~ Replaying(d)
    BY <2>2 DEF PositionFits, PC, Replaying
  <2>3. QED
    BY <2>1, <2>2
<1>5. QED
  BY <1>1, <1>2, <1>4

\* A caller answers, whatever came of its replay, and takes nothing from the continuations.
LEMMA AnswerSafe ==
    ASSUME ReplayInv, NEW c \in Callers, Answer(c),
           UNCHANGED <<control_state, control_generation, checkpoint, records, known>>,
           Phase(c)' = "idle", \A d \in Callers \ {c} : Phase(d)' = Phase(d),
           effects \subseteq effects', UNCHANGED performed \/ Replaying(c),
           \A i \in Ids : registry'[i] = "pending" => registry[i] = "pending",
           \A d \in Callers \ {c} : PC(d) = "validating" =>
               registry'[caller[d].id] = registry[caller[d].id],
           faults \in Nat, faults' = faults \/ faults' = faults + 1
    PROVE  Positions'
<1>0. ReplayTyped /\ TypeOK /\ CallersInv /\ ContinuationsInv
  BY DEF ReplayInv
<1>1. Moved(c, "idle", NoId, 0, 0)
  BY <1>0, AnswerMoves
<1>2. control_generation \in Nat
  BY <1>0 DEF TypeOK, Generations
<1>3. \A d \in Callers \ {c} : ~ (Replaying(c) /\ Replaying(d))
  BY <1>0 DEF CallersInv, OneResuming, Resuming, Replaying
<1>4. ASSUME NEW d \in Callers PROVE CallerFits(d)' /\ ValidationFits(d)' /\ PositionFits(d)'
  <2>1. CASE d = c
    BY <1>1, <1>2, <2>1 DEF Moved, CallerFits, ValidationFits, PositionFits, PC
  <2>2. CASE d # c
    BY <1>1, <1>2, <1>3, <2>2, OthersFit DEF Moved
  <2>3. QED
    BY <2>1, <2>2
<1>5. \A d \in Callers : /\ Resuming(d)' => Resuming(d)
                         /\ Replaying(d)' => Replaying(d)
  BY <1>1 DEF Moved, Resuming, Replaying, PC
<1>6. \A i \in Ids : Open(i)' => Open(i)
  BY DEF Open
<1>7. OneResuming' /\ OneOpen' /\ ReplayOrOpen'
  BY <1>0, <1>5, <1>6 DEF CallersInv, ContinuationsInv, OneResuming, OneOpen, ReplayOrOpen
<1>8. OpenFits'
  <2>1. ASSUME NEW i \in Ids, Open(i)' PROVE MayGoOn(checkpoint[i].step)'
    <3>1. Open(i) /\ ~ Replaying(c)
      BY <1>0, <1>6, <2>1 DEF ContinuationsInv, ReplayOrOpen
    <3>2. QED
      BY <1>0, <3>1 DEF ContinuationsInv, OpenFits, MayGoOn
  <2>2. QED
    BY <2>1 DEF OpenFits
<1>9. FaultFree'
  BY <1>0 DEF ContinuationsInv, FaultFree
<1>10. QED
  BY <1>4, <1>7, <1>8, <1>9 DEF Positions, CallersInv, ContinuationsInv

\* A caller goes on, alone, with the continuations as they are.
LEMMA MoveSafe ==
    ASSUME ReplayInv, NEW c \in Callers, \A d \in Callers \ {c} : caller'[d] = caller[d],
           UNCHANGED <<control_state, control_generation, registry, checkpoint, records, known,
                       faults>>,
           \A d \in Callers \ {c} : Phase(d)' = Phase(d),
           effects \subseteq effects', UNCHANGED performed \/ Replaying(c),
           CallerFits(c)', ValidationFits(c)', PositionFits(c)',
           \A d \in Callers \ {c} : ~ Resuming(d),
           Replaying(c)' => Replaying(c)
    PROVE  Positions'
<1>0. TypeOK /\ CallersInv /\ ContinuationsInv
  BY DEF ReplayInv
<1>1. control_generation \in Nat
  BY <1>0 DEF TypeOK, Generations
<1>2. ASSUME NEW d \in Callers PROVE CallerFits(d)' /\ ValidationFits(d)' /\ PositionFits(d)'
  <2>1. CASE d = c
    BY <2>1
  <2>2. CASE d # c
    BY <1>1, <2>2, OthersFit DEF Resuming, Replaying
  <2>3. QED
    BY <2>1, <2>2
<1>3. /\ \A d \in Callers : Replaying(d)' => Replaying(d)
      /\ \A d \in Callers \ {c} : ~ Resuming(d)'
  BY DEF Resuming, Replaying, PC
<1>4. OneResuming' /\ OneOpen' /\ ReplayOrOpen'
  BY <1>0, <1>3 DEF CallersInv, ContinuationsInv, OneResuming, OneOpen, ReplayOrOpen, Open
<1>5. OpenFits'
  <2>1. ASSUME NEW i \in Ids, Open(i)' PROVE MayGoOn(checkpoint[i].step)'
    <3>1. Open(i) /\ ~ Replaying(c)
      BY <1>0, <2>1 DEF ContinuationsInv, ReplayOrOpen, Open
    <3>2. QED
      BY <1>0, <3>1 DEF ContinuationsInv, OpenFits, MayGoOn
  <2>2. QED
    BY <2>1 DEF OpenFits
<1>6. FaultFree'
  BY <1>0 DEF ContinuationsInv, FaultFree
<1>7. QED
  BY <1>2, <1>4, <1>5, <1>6 DEF Positions, CallersInv, ContinuationsInv

-----------------------------------------------------------------------------
(* Resume *)

\* Whoever validates holds the lock of an open continuation, and it is the only one.
LEMMA OnlyOneValidates ==
    ASSUME ReplayInv, NEW c \in Callers, PC(c) = "validating"
    PROVE  /\ caller[c].id \in known /\ caller[c].id \in Ids
           /\ Open(caller[c].id)
           /\ \A i \in Ids : Open(i) => i = caller[c].id
           /\ \A d \in Callers : Resuming(d) => d = c
<1>1. caller[c].id \in known /\ caller[c].id \in Ids /\ Open(caller[c].id)
  BY DEF ReplayInv, CallersInv, CallerFits, ValidationFits, Open, ReplayTyped
<1>2. \A i \in Ids : Open(i) => i = caller[c].id
  BY <1>1 DEF ReplayInv, ContinuationsInv, OneOpen
<1>3. \A d \in Callers : Resuming(d) => d = c
  BY DEF ReplayInv, CallersInv, OneResuming, Resuming
<1>4. QED
  BY <1>1, <1>2, <1>3

\* A client calls resume: its caller waits for the continuation's lock.
LEMMA CallResumeSafe ==
    ASSUME ReplayInv, NEW c \in Callers, NEW i \in Ids, CallResume(c, i)
    PROVE  Positions' /\ ReplayTyped'
<1>0. ReplayTyped /\ TypeOK /\ CallersInv /\ ContinuationsInv
  BY DEF ReplayInv
<1>1. /\ PC(c) = "idle" /\ i \in known
      /\ UNCHANGED <<vars, registry, checkpoint, records, known, effects, performed, faults>>
  BY DEF CallResume, coordination, page
<1>2. Moved(c, "waiting", i, 0, 0)
  <2> DEFINE r == [AtRest EXCEPT !.pc = "waiting", !.id = i]
  <2>1. r \in CallerType /\ r.pc = "waiting" /\ r.id = i /\ r.step = 0 /\ r.generation = 0
    BY AtRestTyped DEF CallerType, Places
  <2> HIDE DEF r
  <2>2. caller' = [caller EXCEPT ![c] = r]
    BY DEF CallResume, r
  <2>3. QED
    BY <1>0, <2>1, <2>2, MovedBy
<1>3. /\ control_generation \in Nat
      /\ UNCHANGED <<control_state, control_generation, dispatch>>
  BY <1>0, <1>1 DEF TypeOK, Generations, vars, session, lock
<1>4. Phase(c)' = "idle" /\ \A d \in Callers : Phase(d)' = Phase(d)
  BY <1>1, <1>3, NotDispatching DEF Phase
<1>5. ASSUME NEW d \in Callers PROVE CallerFits(d)' /\ ValidationFits(d)' /\ PositionFits(d)'
  <2>1. CASE d = c
    BY <1>1, <1>2, <1>3, <1>4, <2>1 DEF Moved, CallerFits, ValidationFits, PositionFits, PC
  <2>2. CASE d # c
    BY <1>1, <1>2, <1>3, <1>4, <2>2, OthersFit DEF Moved
  <2>3. QED
    BY <2>1, <2>2
<1>6. \A d \in Callers : /\ Resuming(d)' => Resuming(d)
                         /\ Replaying(d)' => Replaying(d)
  BY <1>2 DEF Moved, Resuming, Replaying, PC
<1>7. OneResuming' /\ ContinuationsInv'
  BY <1>0, <1>1, <1>3, <1>6 DEF CallersInv, ContinuationsInv, OneResuming, OneOpen, ReplayOrOpen,
                          OpenFits, FaultFree, Open, MayGoOn
<1>8. ReplayTyped'
  BY <1>0, <1>1, <1>2 DEF ReplayTyped, Moved
<1>9. QED
  BY <1>5, <1>7, <1>8 DEF Positions, CallersInv

\* On finding the session stopped, nothing becomes pending.
LEMMA FindsStoppedKeeps ==
    ASSUME ReplayTyped, NEW i \in Ids, FindsStopped(i)
    PROVE  /\ registry' \in [Ids -> {"absent", "pending", "consumed"}]
           /\ \A j \in Ids : registry'[j] = "pending" => registry[j] = "pending"
           /\ \A j \in Ids \ {i} : registry'[j] = registry[j]
           /\ faults' = faults \/ faults' = faults + 1
BY DEF FindsStopped, Recorded, ReplayTyped

\* The continuation's lock admits a caller, who validates or is refused.
LEMMA AdmitResumeSafe ==
    ASSUME ReplayInv, NEW c \in Callers, AdmitResume(c)
    PROVE  Positions' /\ ReplayTyped'
<1> DEFINE i == caller[c].id
<1>0. ReplayTyped /\ TypeOK /\ CallersInv /\ ContinuationsInv
  BY DEF ReplayInv
<1>1. /\ PC(c) = "waiting" /\ LockFree(i)
      /\ UNCHANGED <<vars, checkpoint, records, known, effects, performed>>
  BY DEF AdmitResume, page
<1>2. i \in known /\ i \in Ids
  BY <1>0, <1>1 DEF CallersInv, CallerFits, ReplayTyped
<1>3. /\ control_generation \in Nat /\ control_generation \in Generations
      /\ UNCHANGED <<control_state, control_generation, dispatch>>
  BY <1>0, <1>1 DEF TypeOK, Generations, vars, session, lock
<1>4. Phase(c)' = "idle" /\ \A d \in Callers : Phase(d)' = Phase(d)
  BY <1>1, <1>3, NotDispatching DEF Phase
<1>5. CASE /\ registry[i] = "pending"
           /\ control_state = RESUME_CHECK
           /\ caller' = [caller EXCEPT ![c].pc = "validating",
                                       ![c].generation = control_generation]
           /\ UNCHANGED <<registry, faults>>
  <2> DEFINE r == [caller[c] EXCEPT !.pc = "validating", !.generation = control_generation]
  <2>1. /\ r \in CallerType
        /\ r.pc = "validating" /\ r.id = i /\ r.step = caller[c].step
        /\ r.generation = control_generation
    BY <1>0, <1>3 DEF ReplayTyped, CallerType, Places
  <2>2. caller' = [caller EXCEPT ![c] = r]
    BY <1>0, <1>5 DEF ReplayTyped
  <2> HIDE DEF r
  <2>3. Moved(c, "validating", i, caller[c].step, control_generation)
    BY <1>0, <2>1, <2>2, MovedBy
  \* The lock of the only open continuation is free, and no replay runs beside it.
  <2>4. \A d \in Callers \ {c} : ~ Resuming(d)
    <3>1. Open(i)
      BY <1>2, <1>5 DEF Open
    <3>2. \A d \in Callers : ~ Replaying(d)
      BY <1>0, <1>2, <3>1 DEF ContinuationsInv, ReplayOrOpen
    <3>3. ASSUME NEW d \in Callers, PC(d) = "validating" PROVE FALSE
      <4>1. i = caller[d].id
        BY <1>2, <3>1, <3>3, OnlyOneValidates
      <4>2. QED
        BY <1>1, <3>3, <4>1 DEF LockFree, Resuming
    <3>4. QED
      BY <3>2, <3>3 DEF Resuming, Replaying
  <2>5. CallerFits(c)' /\ ValidationFits(c)' /\ PositionFits(c)' /\ ~ Replaying(c)'
    BY <1>1, <1>2, <1>3, <1>4, <1>5, <2>3
       DEF Moved, CallerFits, ValidationFits, PositionFits, Replaying, PC
  <2>6. Positions'
    BY <1>1, <1>3, <1>4, <1>5, <2>3, <2>4, <2>5, MoveSafe DEF Moved
  <2>7. ReplayTyped'
    BY <1>0, <1>1, <1>5, <2>3 DEF ReplayTyped, Moved
  <2>8. QED
    BY <2>6, <2>7
<1>6. CASE /\ Answer(c)
           /\ \/ FindsStopped(i)
              \/ UNCHANGED <<registry, faults>>
  <2>1. /\ registry' \in [Ids -> {"absent", "pending", "consumed"}]
        /\ \A j \in Ids : registry'[j] = "pending" => registry[j] = "pending"
        /\ \A j \in Ids \ {i} : registry'[j] = registry[j]
        /\ faults' = faults \/ faults' = faults + 1
    BY <1>0, <1>2, <1>6, FindsStoppedKeeps DEF ReplayTyped
  <2>2. ASSUME NEW d \in Callers \ {c}, PC(d) = "validating"
        PROVE  registry'[caller[d].id] = registry[caller[d].id]
    <3>1. caller[d].id # i
      BY <1>1, <2>2 DEF LockFree, Resuming
    <3>2. caller[d].id \in Ids
      BY <2>2, OnlyOneValidates
    <3>3. QED
      BY <2>1, <3>1, <3>2
  <2>3. faults \in Nat
    BY <1>0 DEF ReplayTyped
  <2>4. Positions'
    BY <1>1, <1>3, <1>4, <1>6, <2>1, <2>2, <2>3, AnswerSafe
  <2>5. ReplayTyped'
    BY <1>0, <1>1, <1>6, <2>1, <2>3, AnswerMoves DEF ReplayTyped, Moved
  <2>6. QED
    BY <2>4, <2>5
<1>7. QED
  BY <1>5, <1>6 DEF AdmitResume

\* The ends of a validation, and of a replay that is not dispatching.
LEMMA EndsSafe ==
    ASSUME ReplayInv, NEW c \in Callers,
           ValidationFails(c) \/ ValidationFindsStopped(c) \/ ReplayEnds(c)
    PROVE  Positions' /\ ReplayTyped'
<1>0. ReplayTyped /\ TypeOK
  BY DEF ReplayInv
<1>1. /\ Answer(c) /\ PC(c) \in {"validating", "observing", "stepping"}
      /\ UNCHANGED <<vars, checkpoint, records, known, effects, performed>>
  BY DEF ValidationFails, ValidationFindsStopped, ReplayEnds, page, coordination
<1>2. \/ UNCHANGED <<registry, faults>>
      \/ PC(c) = "validating" /\ FindsStopped(caller[c].id)
  BY DEF ValidationFails, ValidationFindsStopped, ReplayEnds, coordination
<1>3. PC(c) = "validating" => caller[c].id \in Ids
  BY OnlyOneValidates
<1>4. /\ registry' \in [Ids -> {"absent", "pending", "consumed"}]
      /\ \A j \in Ids : registry'[j] = "pending" => registry[j] = "pending"
      /\ faults' = faults \/ faults' = faults + 1
      /\ faults \in Nat
  BY <1>0, <1>2, <1>3, FindsStoppedKeeps DEF ReplayTyped
\* Whoever else resumes does not validate: two callers in the validator are one.
<1>5. \A d \in Callers \ {c} : PC(d) # "validating"
  BY <1>1, OnlyOneValidates DEF Resuming
<1>6. UNCHANGED <<control_state, control_generation, dispatch>>
  BY <1>1 DEF vars, session, lock
<1>7. Phase(c)' = "idle" /\ \A d \in Callers : Phase(d)' = Phase(d)
  BY <1>1, <1>6, NotDispatching DEF Phase
<1>8. Positions'
  BY <1>1, <1>4, <1>5, <1>6, <1>7, AnswerSafe
<1>9. ReplayTyped'
  BY <1>0, <1>1, <1>4, AnswerMoves DEF ReplayTyped, Moved
<1>10. QED
  BY <1>8, <1>9

\* The session is taken back, and the continuation consumed unless the event fails.
LEMMA ValidationSucceedsSafe ==
    ASSUME ReplayInv, TypeOK', NEW c \in Callers, ValidationSucceeds(c)
    PROVE  Positions' /\ ReplayTyped'
<1> DEFINE i == caller[c].id
<1>0. ReplayTyped /\ TypeOK /\ CallersInv /\ ContinuationsInv
  BY DEF ReplayInv
<1>1. /\ PC(c) = "validating"
      /\ TakeBack
      /\ UNCHANGED <<checkpoint, records, known, effects, performed>>
  BY DEF ValidationSucceeds, page
<1>2. /\ i \in known /\ i \in Ids
      /\ Open(i)
      /\ \A j \in Ids : Open(j) => j = i
      /\ \A d \in Callers : Resuming(d) => d = c
      /\ registry[i] = "pending"
  BY <1>1, OnlyOneValidates DEF Open
<1>3. /\ control_generation \in Nat /\ control_generation' \in Generations
      /\ control_generation' \in Nat
      /\ control_generation <= control_generation'
      /\ UNCHANGED dispatch
  BY <1>0, <1>1 DEF TypeOK, Generations, TakeBack, ResumeAutomationAfterValidation, NextGeneration,
                    vars, session, lock
<1>4. Phase(c)' = "idle" /\ \A d \in Callers : Phase(d)' = Phase(d)
  BY <1>1, <1>3, NotDispatching DEF Phase
<1>5. PICK ok \in BOOLEAN :
          /\ Recorded(ok)
          /\ IF ok /\ registry[i] = "pending"
             THEN /\ Consume(i)
                  /\ caller' = [caller EXCEPT ![c].pc = "observing",
                                              ![c].generation = control_generation']
             ELSE /\ UNCHANGED registry
                  /\ Answer(c)
  BY DEF ValidationSucceeds
<1>6. ASSUME NEW d \in Callers \ {c}, caller'[d] = caller[d]
      PROVE  CallerFits(d)' /\ ValidationFits(d)' /\ PositionFits(d)'
  <2>1. ~ Resuming(d)
    BY <1>2
  <2>2. QED
    BY <1>1, <1>3, <1>4, <1>6, <2>1, OthersFit DEF Resuming, Replaying
<1>7. CASE ok
  <2> DEFINE r == [caller[c] EXCEPT !.pc = "observing", !.generation = control_generation']
  <2>1. /\ r \in CallerType
        /\ r.pc = "observing" /\ r.id = i /\ r.step = caller[c].step
        /\ r.generation = control_generation'
    BY <1>0, <1>3 DEF ReplayTyped, CallerType, Places
  <2>2. caller' = [caller EXCEPT ![c] = r]
    BY <1>0, <1>2, <1>5, <1>7 DEF ReplayTyped
  <2> HIDE DEF r
  <2>3. Moved(c, "observing", i, caller[c].step, control_generation')
    BY <1>0, <2>1, <2>2, MovedBy
  <2>4. registry' = [registry EXCEPT ![i] = "consumed"] /\ faults' = faults
    BY <1>2, <1>5, <1>7 DEF Consume, Recorded
  <2>5. MayGoOn(checkpoint[i].step)
    BY <1>0, <1>2 DEF ContinuationsInv, OpenFits
  <2>6. ASSUME NEW d \in Callers PROVE CallerFits(d)' /\ ValidationFits(d)' /\ PositionFits(d)'
    <3>1. CASE d = c
      BY <1>1, <1>2, <1>3, <1>4, <2>3, <2>5, <3>1
         DEF Moved, CallerFits, ValidationFits, PositionFits, MayGoOn, PC
    <3>2. CASE d # c
      BY <1>6, <2>3, <3>2 DEF Moved
    <3>3. QED
      BY <3>1, <3>2
  <2>7. \A j \in Ids : ~ Open(j)' /\ (registry'[j] = "pending" => registry[j] = "pending" /\ j # i)
    BY <1>0, <1>1, <1>2, <2>4 DEF ReplayTyped, Open
  <2>8. \A d \in Callers \ {c} : ~ Resuming(d)'
    BY <1>2, <2>3 DEF Moved, Resuming, PC
  <2>9. OneResuming' /\ OneOpen' /\ ReplayOrOpen' /\ OpenFits'
    BY <2>7, <2>8 DEF OneResuming, OneOpen, ReplayOrOpen, OpenFits
  <2>10. FaultFree'
    BY <1>0, <1>2, <2>4, <2>7 DEF ContinuationsInv, FaultFree, Open
  <2>11. ReplayTyped'
    BY <1>0, <1>1, <2>3, <2>4 DEF ReplayTyped, Moved
  <2>12. QED
    BY <2>6, <2>9, <2>10, <2>11 DEF Positions, CallersInv, ContinuationsInv
<1>8. CASE ~ ok
  <2>1. /\ Moved(c, "idle", NoId, 0, 0)
        /\ UNCHANGED registry /\ faults' = faults + 1
    BY <1>0, <1>5, <1>8, AnswerMoves DEF Recorded
  <2>2. ASSUME NEW d \in Callers PROVE CallerFits(d)' /\ ValidationFits(d)' /\ PositionFits(d)'
    <3>1. CASE d = c
      BY <1>3, <1>4, <2>1, <3>1 DEF Moved, CallerFits, ValidationFits, PositionFits, PC
    <3>2. CASE d # c
      BY <1>6, <2>1, <3>2 DEF Moved
    <3>3. QED
      BY <3>1, <3>2
  <2>3. \A d \in Callers : ~ Resuming(d)' /\ ~ Replaying(d)'
    BY <1>2, <2>1 DEF Moved, Resuming, Replaying, PC
  <2>4. OneResuming' /\ OneOpen' /\ ReplayOrOpen' /\ OpenFits'
    BY <1>0, <1>1, <2>1, <2>3 DEF OneResuming, OneOpen, ReplayOrOpen, OpenFits, Open,
                                  ContinuationsInv, MayGoOn
  <2>5. FaultFree'
    BY <1>0, <2>1 DEF FaultFree, ReplayTyped
  <2>6. ReplayTyped'
    BY <1>0, <1>1, <2>1 DEF ReplayTyped, Moved
  <2>7. QED
    BY <2>2, <2>4, <2>5, <2>6 DEF Positions, CallersInv, ContinuationsInv
<1>9. QED
  BY <1>7, <1>8

-----------------------------------------------------------------------------
(* Suspension *)

\* A caller that suspends hands its position to the continuation it leaves.
LEMMA SuspendSafe ==
    ASSUME ReplayInv, TypeOK', NEW c \in Callers, NEW i \in Ids, Suspend(c, i)
    PROVE  Positions' /\ ReplayTyped'
<1>0. ReplayTyped /\ TypeOK /\ CallersInv /\ ContinuationsInv
  BY DEF ReplayInv
<1>1. /\ PC(c) = "stepping" /\ registry[i] = "absent" /\ Answer(c)
      /\ UNCHANGED <<effects, performed>>
  BY DEF Suspend, page
<1>2. Moved(c, "idle", NoId, 0, 0)
  BY <1>0, <1>1, AnswerMoves
<1>3. CASE /\ RequestPause
           /\ registry' = [registry EXCEPT ![i] = "pending"]
           /\ checkpoint' = [checkpoint EXCEPT ![i] =
                  [step |-> caller[c].step, generation |-> caller[c].generation]]
           /\ records' = [records EXCEPT ![i] = control_generation']
           /\ \E ok \in BOOLEAN :
                  /\ Recorded(ok)
                  /\ known' = IF ok THEN known \cup {i} ELSE known
  <2>1. /\ control_generation \in Nat /\ control_generation' \in Nat
        /\ control_generation <= control_generation'
        /\ control_state' = PAUSING
        /\ UNCHANGED dispatch
    BY <1>0, <1>3 DEF TypeOK, Generations, RequestPause, NextGeneration, lock
  <2>2. Phase(c)' = "idle" /\ \A d \in Callers : Phase(d)' = Phase(d)
    BY <1>1, <2>1, NotDispatching DEF Phase
  <2>3. /\ known \subseteq known' /\ known' \subseteq known \cup {i}
        /\ faults' = faults => known' = known \cup {i}
        /\ faults' = faults \/ faults' = faults + 1
        /\ faults' \in Nat
    BY <1>0, <1>3 DEF Recorded, ReplayTyped
  \* The one that replays is the one that suspends, and no continuation is open.
  <2>4. /\ \A d \in Callers \ {c} : ~ Resuming(d)
        /\ \A j \in Ids : ~ Open(j)
    BY <1>0, <1>1 DEF CallersInv, ContinuationsInv, OneResuming, ReplayOrOpen, Resuming, Replaying
  <2>5. ASSUME NEW d \in Callers PROVE CallerFits(d)' /\ ValidationFits(d)' /\ PositionFits(d)'
    <3>1. CASE d = c
      BY <1>2, <2>1, <2>2, <3>1 DEF Moved, CallerFits, ValidationFits, PositionFits, PC
    <3>2. CASE d # c
      BY <1>2, <2>1, <2>2, <2>3, <2>4, <3>2, OthersFit DEF Moved, Resuming, Replaying
    <3>3. QED
      BY <3>1, <3>2
  <2>6. \A d \in Callers : ~ Resuming(d)' /\ ~ Replaying(d)'
    BY <1>2, <2>4 DEF Moved, Resuming, Replaying, PC
  <2>7. \A j \in Ids : Open(j)' => j = i
    BY <1>0, <1>3, <2>3, <2>4 DEF Open, ReplayTyped
  <2>8. OpenFits'
    <3>1. MayGoOn(caller[c].step)
      BY <1>0, <1>1 DEF CallersInv, PositionFits
    <3>2. checkpoint'[i].step = caller[c].step
      BY <1>0, <1>3 DEF ReplayTyped
    <3>3. QED
      BY <1>1, <2>7, <3>1, <3>2 DEF OpenFits, MayGoOn
  <2>9. FaultFree'
    <3> SUFFICES ASSUME faults' = 0, NEW j \in Ids, registry'[j] = "pending"
                 PROVE  j \in known' /\ control_state' # AUTOMATION
      BY DEF FaultFree
    <3>1. faults = 0 /\ known' = known \cup {i}
      BY <1>0, <2>3 DEF ReplayTyped
    <3>2. j # i => registry[j] = "pending"
      BY <1>0, <1>3 DEF ReplayTyped
    <3>3. QED
      BY <1>0, <2>1, <3>1, <3>2 DEF ContinuationsInv, FaultFree, PAUSING, AUTOMATION
  <2>10. OneResuming' /\ OneOpen' /\ ReplayOrOpen'
    BY <2>6, <2>7 DEF OneResuming, OneOpen, ReplayOrOpen
  <2>11. ReplayTyped'
    <3>1. [step |-> caller[c].step, generation |-> caller[c].generation]
              \in [step : Nat, generation : Generations]
      BY <1>0 DEF ReplayTyped, CallerType
    <3>2. QED
      BY <1>0, <1>1, <1>2, <1>3, <2>1, <2>3, <3>1 DEF ReplayTyped, Moved
  <2>12. QED
    BY <2>5, <2>8, <2>9, <2>10, <2>11 DEF Positions, CallersInv, ContinuationsInv
<1>4. CASE /\ RegistrationDiscarded(i)
           /\ UNCHANGED <<vars, checkpoint, records, known, faults>>
  <2>1. UNCHANGED registry
    BY <1>0, <1>1, <1>4 DEF RegistrationDiscarded, ReplayTyped
  <2>2. UNCHANGED <<control_state, control_generation, dispatch>>
    BY <1>4 DEF vars, session, lock
  <2>3. Phase(c)' = "idle" /\ \A d \in Callers : Phase(d)' = Phase(d)
    BY <1>1, <2>2, NotDispatching DEF Phase
  <2>4. faults \in Nat
    BY <1>0 DEF ReplayTyped
  <2>5. Positions'
    BY <1>1, <1>4, <2>1, <2>2, <2>3, <2>4, AnswerSafe
  <2>6. ReplayTyped'
    BY <1>0, <1>1, <1>2, <1>4, <2>1 DEF ReplayTyped, Moved
  <2>7. QED
    BY <2>5, <2>6
<1>5. QED
  BY <1>3, <1>4 DEF Suspend

-----------------------------------------------------------------------------
(* The engine *)

\* While a caller replays, no other has a continuation to resume.
LEMMA ReplaysAlone ==
    ASSUME ReplayInv, NEW c \in Callers, Replaying(c)
    PROVE  \A d \in Callers \ {c} : ~ Resuming(d)
BY DEF ReplayInv, CallersInv, OneResuming, Resuming, Replaying

\* The resumed replay finds its position on the page.
LEMMA ResumeObservesSafe ==
    ASSUME ReplayInv, NEW c \in Callers, ResumeObserves(c)
    PROVE  Positions' /\ ReplayTyped'
<1> DEFINE p == checkpoint[caller[c].id].step
<1>0. ReplayTyped /\ TypeOK /\ CallersInv
  BY DEF ReplayInv
<1>1. /\ PC(c) = "observing"
      /\ caller' = [caller EXCEPT ![c].pc = "stepping", ![c].step = ResumePosition(p)]
      /\ UNCHANGED <<vars, registry, checkpoint, records, known, effects, performed, faults>>
  BY DEF ResumeObserves, coordination, page
<1>2. caller[c].id \in Ids /\ MayGoOn(p) /\ p \in Nat
  BY <1>0, <1>1 DEF CallersInv, PositionFits, ReplayTyped
\* The blocked step is skipped only if its effect is on the page.
<1>3. ResumePosition(p) \in Nat /\ MayGoOn(ResumePosition(p))
  <2> HIDE DEF p
  <2>1. Steps \subseteq Nat /\ ApprovalSteps \subseteq Nat
    BY ReplayAssumption DEF Steps
  <2>2. QED
    BY <1>2, <2>1 DEF ResumePosition, MayGoOn
<1> DEFINE q == ResumePosition(p)
           r == [caller[c] EXCEPT !.pc = "stepping", !.step = q]
<1> HIDE DEF q
<1>4. /\ r \in CallerType
      /\ r.pc = "stepping" /\ r.id = caller[c].id /\ r.step = q
      /\ r.generation = caller[c].generation
  BY <1>0, <1>3 DEF ReplayTyped, CallerType, Places, q
<1>5. caller' = [caller EXCEPT ![c] = r]
  BY <1>0, <1>1 DEF ReplayTyped, q
<1> HIDE DEF r
<1>6. Moved(c, "stepping", caller[c].id, q, caller[c].generation)
  BY <1>0, <1>4, <1>5, MovedBy
<1>7. UNCHANGED <<control_state, control_generation, dispatch>>
  BY <1>1 DEF vars, session, lock
<1>8. Phase(c)' = "idle" /\ \A d \in Callers : Phase(d)' = Phase(d)
  BY <1>1, <1>7, NotDispatching DEF Phase
<1>9. CallerFits(c)' /\ ValidationFits(c)' /\ PositionFits(c)' /\ Replaying(c)
  <2>1. MayGoOn(q)
    BY <1>3 DEF q
  <2>2. QED
    BY <1>0, <1>1, <1>6, <1>7, <1>8, <2>1
       DEF Moved, CallersInv, CallerFits, ValidationFits, PositionFits, MayGoOn, Replaying, PC
<1>10. Positions'
  BY <1>1, <1>6, <1>7, <1>8, <1>9, ReplaysAlone, MoveSafe DEF Moved
<1>11. ReplayTyped'
  BY <1>0, <1>1, <1>6 DEF ReplayTyped, Moved
<1>12. QED
  BY <1>10, <1>11

\* After the lock: the replay goes on to its action, or is refused and ends.
LEMMA DispatchedSafe ==
    ASSUME ReplayInv, NEW c \in Callers, PC(c) \in {"stepping", "dispatching"},
           caller[c].step \in Steps \ ApprovalSteps, Dispatching(c),
           UNCHANGED <<control_state, control_generation>>, Dispatched(c),
           UNCHANGED <<coordination, page, faults>>
    PROVE  Positions' /\ ReplayTyped'
<1>0. ReplayTyped /\ TypeOK /\ CallersInv /\ Callers \subseteq Tasks
  BY ReplayAssumption DEF ReplayInv
<1>1. UNCHANGED <<registry, checkpoint, records, known, effects, performed, faults>>
  BY DEF coordination, page
<1>2. \A d \in Callers \ {c} : Phase(d)' = Phase(d)
  BY <1>0, DispatchElsewhere DEF Phase
<1>3. Replaying(c) /\ faults \in Nat
  BY <1>0 DEF Replaying, ReplayTyped
<1>4. CASE Phase(c)' = "idle"
  <2>1. Answer(c)
    BY <1>4 DEF Dispatched, Answer, Phase
  <2>2. Positions'
    BY <1>1, <1>2, <1>3, <1>4, <2>1, AnswerSafe
  <2>3. ReplayTyped'
    BY <1>0, <1>1, <2>1, AnswerMoves DEF ReplayTyped, Moved
  <2>4. QED
    BY <2>2, <2>3
<1>5. CASE Phase(c)' # "idle"
  <2> DEFINE r == [caller[c] EXCEPT !.pc = "dispatching"]
  <2>1. /\ r \in CallerType
        /\ r.pc = "dispatching" /\ r.id = caller[c].id /\ r.step = caller[c].step
        /\ r.generation = caller[c].generation
    <3>1. caller[c] \in CallerType
      BY <1>0 DEF ReplayTyped
    <3>2. QED
      BY <3>1 DEF CallerType, Places
  <2>2. caller' = [caller EXCEPT ![c] = r]
    BY <1>0, <1>5 DEF ReplayTyped, Dispatched, Phase
  <2> HIDE DEF r
  <2>3. Moved(c, "dispatching", caller[c].id, caller[c].step, caller[c].generation)
    BY <1>0, <2>1, <2>2, MovedBy
  <2>4. MayGoOn(caller[c].step)
    BY <1>0 DEF CallersInv, PositionFits
  <2>5. CallerFits(c)' /\ ValidationFits(c)' /\ PositionFits(c)'
    BY <1>0, <1>1, <2>3, <2>4
       DEF Moved, CallersInv, CallerFits, ValidationFits, PositionFits, MayGoOn, PC
  <2>6. Positions'
    BY <1>1, <1>2, <1>3, <2>3, <2>5, ReplaysAlone, MoveSafe DEF Moved
  <2>7. ReplayTyped'
    BY <1>0, <1>1, <2>3 DEF ReplayTyped, Moved
  <2>8. QED
    BY <2>6, <2>7
<1>6. QED
  BY <1>4, <1>5

\* A step is dispatched.
LEMMA DispatchStepSafe ==
    ASSUME ReplayInv, NEW c \in Callers, DispatchStep(c)
    PROVE  Positions' /\ ReplayTyped'
<1>1. Dispatching(c)
  BY CallerGeneration DEF DispatchStep, Dispatching, Actors
<1>2. UNCHANGED <<control_state, control_generation>>
  BY DEF DispatchStep, DispatchAtOnce, DispatchQueues, session
<1>3. QED
  BY <1>1, <1>2, DispatchedSafe DEF DispatchStep

\* A queued step is woken.
LEMMA StepWokenSafe ==
    ASSUME ReplayInv, NEW c \in Callers, StepWoken(c)
    PROVE  Positions' /\ ReplayTyped'
\* The head of the queue waits, so that it is a caller that dispatches.
<1>1. PC(c) = "dispatching"
  <2>1. 1 \in 1 .. Len(waiters) /\ waiters[1] = c
    BY TailQueue DEF ReplayInv, QueueInv, StepWoken, WokenDispatch
  <2>2. DOMAIN waiters = 1 .. Len(waiters) /\ c \in Tasks
    BY LenProperties, ReplayAssumption DEF ReplayInv, TypeOK
  <2>3. Queued(c)
    BY <2>1, <2>2 DEF ReplayInv, QueueHoldsWaiters
  <2>4. QED
    BY <2>3 DEF ReplayInv, CallersInv, CallerFits, Queued
<1>2. caller[c].step \in Steps \ ApprovalSteps
  BY <1>1 DEF ReplayInv, CallersInv, PositionFits
<1>3. Dispatching(c) /\ UNCHANGED <<control_state, control_generation>>
  BY DEF StepWoken, WokenDispatch, Dispatching, session
<1>4. QED
  BY <1>1, <1>2, <1>3, DispatchedSafe DEF StepWoken

\* The end of a dispatch changes nobody else's.
LEMMA EndOfDispatch ==
    ASSUME TypeOK, NEW c \in Callers, EndDispatch(c)
    PROVE  /\ UNCHANGED <<control_state, control_generation>>
           /\ Phase(c)' = "idle"
           /\ \A d \in Callers \ {c} : Phase(d)' = Phase(d)
BY ReplayAssumption DEF TypeOK, EndDispatch, Idle, Phase, session

\* Performing the step the replay stands at: it had not been performed, and is behind it then.
LEMMA PerformsOnce ==
    ASSUME ReplayInv, NEW c \in Callers, PC(c) = "dispatching", Performs(caller[c].step)
    PROVE  /\ performed' \in [Steps -> Nat]
           /\ effects \subseteq effects'
           /\ StepPerformedOnce'
           /\ \A s \in Steps : s >= caller[c].step + 1 => performed'[s] = 0
           /\ \A s \in ApprovalSteps : s < caller[c].step + 1 => s \in effects'
<1> DEFINE p == caller[c].step
<1>1. /\ MayGoOn(p) /\ p \in Steps \ ApprovalSteps
      /\ performed \in [Steps -> Nat] /\ StepPerformedOnce
  BY DEF ReplayInv, CallersInv, PositionFits, ReplayTyped
<1>2. Steps \subseteq Nat /\ ApprovalSteps \subseteq Nat
  BY ReplayAssumption DEF Steps
<1> HIDE DEF p
<1>3. /\ performed' = [performed EXCEPT ![p] = performed[p] + 1]
      /\ effects \subseteq effects'
  BY DEF Performs, p
<1>4. performed[p] = 0
  BY <1>1, <1>2 DEF MayGoOn
<1>5. performed' \in [Steps -> Nat] /\ StepPerformedOnce'
  BY <1>1, <1>3, <1>4 DEF StepPerformedOnce
<1>6. \A s \in Steps : s >= p + 1 => performed'[s] = 0
  BY <1>1, <1>2, <1>3 DEF MayGoOn
<1>7. \A s \in ApprovalSteps : s < p + 1 => s \in effects'
  BY <1>1, <1>2, <1>3 DEF MayGoOn
<1>8. QED
  BY <1>3, <1>5, <1>6, <1>7 DEF p

\* A step completes: it is performed for the first time.
LEMMA StepCompletesSafe ==
    ASSUME ReplayInv, NEW c \in Callers, StepCompletes(c)
    PROVE  Positions' /\ ReplayTyped' /\ StepPerformedOnce'
<1>0. ReplayTyped /\ TypeOK /\ CallersInv
  BY DEF ReplayInv
<1>1. /\ PC(c) = "dispatching" /\ Performs(caller[c].step) /\ EndDispatch(c)
      /\ UNCHANGED <<registry, checkpoint, records, known, faults>>
  BY DEF StepCompletes, coordination
<1> DEFINE next == caller[c].step + 1
           r == [caller[c] EXCEPT !.pc = "stepping", !.step = next]
<1>2. /\ r \in CallerType
      /\ r.pc = "stepping" /\ r.id = caller[c].id /\ r.step = next
      /\ r.generation = caller[c].generation
  <2>1. caller[c] \in CallerType /\ next \in Nat
    BY <1>0 DEF ReplayTyped, CallerType
  <2> HIDE DEF next
  <2>2. QED
    BY <2>1 DEF CallerType, Places
<1>3. caller' = [caller EXCEPT ![c] = r]
  BY <1>0 DEF StepCompletes, ReplayTyped
<1> HIDE DEF r
<1>4. Moved(c, "stepping", caller[c].id, caller[c].step + 1, caller[c].generation)
  BY <1>0, <1>2, <1>3, MovedBy
<1>5. /\ UNCHANGED <<control_state, control_generation>>
      /\ Phase(c)' = "idle"
      /\ \A d \in Callers \ {c} : Phase(d)' = Phase(d)
  BY <1>0, <1>1, EndOfDispatch
<1>6. CallerFits(c)' /\ ValidationFits(c)' /\ PositionFits(c)' /\ Replaying(c)
  BY <1>0, <1>1, <1>4, <1>5, PerformsOnce
     DEF Moved, CallersInv, CallerFits, ValidationFits, PositionFits, MayGoOn, Replaying, PC
<1>7. Positions'
  BY <1>1, <1>4, <1>5, <1>6, PerformsOnce, ReplaysAlone, MoveSafe DEF Moved
<1>8. ReplayTyped'
  BY <1>0, <1>1, <1>4, PerformsOnce DEF ReplayTyped, Moved
<1>9. QED
  BY <1>1, <1>7, <1>8, PerformsOnce

\* A step fails, or its effect is uncertain.
LEMMA StepFailsSafe ==
    ASSUME ReplayInv, NEW c \in Callers, StepFails(c)
    PROVE  Positions' /\ ReplayTyped' /\ StepPerformedOnce'
<1>0. ReplayTyped /\ TypeOK /\ Replaying(c) /\ faults \in Nat
  BY DEF ReplayInv, ReplayTyped, StepFails, Replaying
<1>1. /\ PC(c) = "dispatching" /\ Answer(c) /\ EndDispatch(c)
      /\ UNCHANGED <<registry, checkpoint, records, known, faults>>
  BY DEF StepFails, coordination
<1>2. /\ performed' \in [Steps -> Nat]
      /\ effects \subseteq effects'
      /\ StepPerformedOnce'
  <2>1. CASE Performs(caller[c].step)
    BY <1>1, <2>1, PerformsOnce
  <2>2. CASE UNCHANGED page
    BY <1>0, <2>2 DEF page, ReplayTyped, ReplayInv, StepPerformedOnce
  <2>3. QED
    BY <2>1, <2>2 DEF StepFails
<1>3. /\ UNCHANGED <<control_state, control_generation>>
      /\ Phase(c)' = "idle"
      /\ \A d \in Callers \ {c} : Phase(d)' = Phase(d)
  BY <1>0, <1>1, EndOfDispatch
<1>4. Positions'
  BY <1>0, <1>1, <1>2, <1>3, AnswerSafe
<1>5. ReplayTyped'
  BY <1>0, <1>1, <1>2, AnswerMoves DEF ReplayTyped, Moved
<1>6. QED
  BY <1>2, <1>4, <1>5

-----------------------------------------------------------------------------
(* The invariant *)

\* What a caller does keeps its positions right and performs no step again.
LEMMA CallerStepSafe ==
    ASSUME ReplayInv, TypeOK', NEW c \in Callers, CallerStep(c)
    PROVE  Positions' /\ ReplayTyped' /\ StepPerformedOnce'
<1>1. CASE StepCompletes(c) \/ StepFails(c)
  BY <1>1, StepCompletesSafe, StepFailsSafe
<1>2. CASE ~ (StepCompletes(c) \/ StepFails(c))
  <2>1. UNCHANGED performed
    BY <1>2 DEF CallerStep, Suspend, AdmitResume, ValidationFails, ValidationSucceeds,
                ValidationFindsStopped, ResumeObserves, ReplayEnds, DispatchStep, StepWoken, page
  <2>2. StepPerformedOnce'
    BY <2>1 DEF ReplayInv, StepPerformedOnce
  <2>3. Positions' /\ ReplayTyped'
    BY <1>2, SuspendSafe, AdmitResumeSafe, EndsSafe, ValidationSucceedsSafe, ResumeObservesSafe,
       DispatchStepSafe, StepWokenSafe DEF CallerStep
  <2>4. QED
    BY <2>2, <2>3
<1>3. QED
  BY <1>1, <1>2

\* People, the console's dispatches and the page.
Beside ==
    \/ \E o \in Operators : GrantOperatorControl(o) \/ ReturnOperatorControl(o)
    \/ \E t \in OperatorTasks, o \in Operators : OperatorDispatch(t, o)
    \/ \E t \in OperatorTasks : OperatorTaskEnds(t)
    \/ HumanInput
    \/ Stop
    \/ UNCHANGED allVars

\* What happens beside the callers: the operator, human input and a stop.
LEMMA BesideSafe ==
    ASSUME ReplayInv, [Next]_vars, Beside
    PROVE  Positions' /\ ReplayTyped' /\ StepPerformedOnce'
<1>0. ReplayTyped /\ TypeOK
  BY DEF ReplayInv
<1>1. UNCHANGED <<caller, coordination, performed, faults>> /\ effects \subseteq effects'
  BY DEF Beside, GrantOperatorControl, ReturnOperatorControl, OperatorDispatch, OperatorTaskEnds,
         OperatorWoken, OperatorActionEnds, HumanInput, Stop, allVars, page
<1>2. /\ control_generation \in Nat /\ control_generation' \in Nat
      /\ control_generation <= control_generation'
  BY <1>0, GenerationGrows
<1>3. \A c \in Callers : Phase(c)' = Phase(c)
  <2>1. CASE \/ \E o \in Operators : GrantOperatorControl(o) \/ ReturnOperatorControl(o)
             \/ Stop \/ HumanInput \/ UNCHANGED allVars
    BY <2>1 DEF GrantOperatorControl, GrantHumanControl, ReturnOperatorControl,
                ReturnControlForResumeCheck, Stop, StopSession, HumanInput, allVars, vars,
                lock, Phase
  <2>2. CASE \E t \in OperatorTasks : \/ \E o \in Operators : OperatorDispatch(t, o)
                                      \/ OperatorTaskEnds(t)
    <3>1. PICK t \in OperatorTasks : \/ \E o \in Operators : OperatorDispatch(t, o)
                                     \/ OperatorTaskEnds(t)
      BY <2>2, Zenon
    <3>2. t \in Tasks /\ Callers \subseteq Tasks \ {t}
      BY ReplayAssumption
    <3>3. Dispatching(t)
      BY <3>1 DEF OperatorDispatch, OperatorTaskEnds, OperatorWoken, OperatorActionEnds,
                  Dispatching, Actors
    <3>4. QED
      BY <1>0, <3>2, <3>3, DispatchElsewhere DEF Phase
  <2>3. QED
    BY <2>1, <2>2, Zenon DEF Beside
<1>4. \/ UNCHANGED <<control_state, control_generation>>
      \/ control_state' = STOPPED
      \/ control_state \in {PAUSING, HUMAN_CONTROL} /\ control_state' # AUTOMATION
  BY DEF Beside, GrantOperatorControl, GrantHumanControl, ReturnOperatorControl,
         ReturnControlForResumeCheck, OperatorDispatch, DispatchAtOnce, DispatchQueues,
         OperatorTaskEnds, OperatorWoken, WokenDispatch, OperatorActionEnds, EndDispatch,
         HumanInput, Stop, StopSession, allVars, vars, session,
         AUTOMATION, HUMAN_CONTROL, RESUME_CHECK
<1>5. Positions'
  BY <1>1, <1>2, <1>3, <1>4, AsideSafe
<1>6. ReplayTyped' /\ StepPerformedOnce'
  BY <1>0, <1>1 DEF ReplayTyped, coordination, ReplayInv, StepPerformedOnce
<1>7. QED
  BY <1>5, <1>6

\* The invariant is inductive.
LEMMA ReplayStepSafe == ReplayInv /\ [ReplayNext]_allVars => ReplayInv'
<1> SUFFICES ASSUME ReplayInv, [ReplayNext]_allVars PROVE ReplayInv'
  OBVIOUS
<1>1. [Next]_vars
  BY ReplaySessionStep
<1>2. TypeOK' /\ QueueHoldsWaiters'
  BY <1>1, StepKeepsQueue DEF ReplayInv, QueueInv
<1>3. CASE \E c \in Callers : CallerStep(c)
  BY <1>2, <1>3, CallerStepSafe DEF ReplayInv, Positions
<1>4. CASE \E c \in Callers, i \in Ids : CallResume(c, i)
  <2>1. StepPerformedOnce'
    BY <1>4 DEF CallResume, page, ReplayInv, StepPerformedOnce
  <2>2. QED
    BY <1>2, <1>4, <2>1, CallResumeSafe DEF ReplayInv, Positions
<1>5. CASE Beside
  BY <1>1, <1>2, <1>5, BesideSafe DEF ReplayInv, Positions
<1>6. QED
  BY <1>3, <1>4, <1>5 DEF ReplayNext, Beside

\* The invariant holds at first.
LEMMA ReplayInitSafe == ReplayInit => ReplayInv
<1> SUFFICES ASSUME ReplayInit PROVE ReplayInv
  OBVIOUS
<1>1. TypeOK /\ QueueHoldsWaiters
  BY InitQueue DEF ReplayInit, QueueInv
<1>2. 0 \in Generations /\ 0 \in Nat /\ 1 \in Nat
  BY SessionAssumption DEF Generations
<1>3. \A c \in Callers : /\ caller[c] \in CallerType
                         /\ caller[c].generation = 0
                         /\ IF c = First THEN caller[c].pc = "stepping" /\ caller[c].step = 1
                                         ELSE caller[c].pc = "idle"
  <2>1. [AtRest EXCEPT !.pc = "stepping", !.step = 1] \in CallerType
    BY AtRestTyped DEF CallerType, Places
  <2>2. QED
    BY <2>1, AtRestTyped DEF ReplayInit
<1>4. ReplayTyped
  BY <1>2, <1>3 DEF ReplayInit, ReplayTyped
<1>5. \A s \in Steps : performed[s] = 0
  BY DEF ReplayInit
<1>6. MayGoOn(1)
  <2>1. \A s \in ApprovalSteps : ~ (s < 1)
    BY ReplayAssumption
  <2>2. QED
    BY <1>5, <2>1 DEF MayGoOn
<1>7. ASSUME NEW c \in Callers PROVE CallerFits(c) /\ ValidationFits(c) /\ PositionFits(c)
  <2>1. Phase(c) = "idle" /\ control_generation = 0
    BY ReplayAssumption DEF ReplayInit, Init, Idle, Phase
  <2>2. QED
    BY <1>3, <1>6, <2>1 DEF CallerFits, ValidationFits, PositionFits, PC
<1>8. OneResuming
  BY <1>3 DEF OneResuming, Resuming, PC
<1>9. ContinuationsInv
  BY DEF ReplayInit, ContinuationsInv, OneOpen, ReplayOrOpen, OpenFits, FaultFree, Open
<1>10. StepPerformedOnce
  BY <1>5 DEF StepPerformedOnce
<1>11. QED
  BY <1>1, <1>4, <1>7, <1>8, <1>9, <1>10 DEF ReplayInv, CallersInv

\* The invariant holds.
LEMMA ReplayInvariance == ReplaySpec => []ReplayInv
BY ReplayInitSafe, ReplayStepSafe, PTL DEF ReplaySpec

\* Suspended, validated, resumed and stopped as it may be, a replay leaves the session to its
\* own specification: every step is one of SessionControl's or none of its business.
THEOREM ReplayKeepsSession == ReplaySpec => Spec
<1>1. ReplayInit => Init
  BY DEF ReplayInit
<1>2. QED
  BY <1>1, ReplayInvariance, ReplaySessionStep, PTL DEF ReplaySpec, Spec

\* Hence the session keeps its abstract promise below the coordinator too: while replays are
\* suspended, validated and resumed, control changes hands only quietly and for a later term.
COROLLARY ReplayKeepsPromise == ReplaySpec => KeepsHandoffPromise
BY ReplayKeepsSession, ImplementsHandoff

\* Automation performs no step twice, however many resumes race, interventions follow one
\* another and records fail.
THEOREM StepsPerformedOnce == ReplaySpec => []StepPerformedOnce
BY ReplayInvariance, PTL DEF ReplayInv

\* Never do two engines replay on the session.
THEOREM ReplaysExclude == ReplaySpec => []OneReplay
<1>1. ReplayInv => OneReplay
  BY DEF ReplayInv, CallersInv, OneResuming, OneReplay, Resuming, Replaying
<1>2. QED
  BY ReplayInvariance, <1>1, PTL

\* No replay gets past a step that needs a human before that step's effect is on the page.
THEOREM ApprovalsHonoured == ReplaySpec => []ApprovalHonoured
<1>1. ReplayInv => ApprovalHonoured
  BY DEF ReplayInv, CallersInv, PositionFits, MayGoOn, ApprovalHonoured
<1>2. QED
  BY ReplayInvariance, <1>1, PTL

\* As long as no record failed, a pending continuation is the only one, known and resumable.
THEOREM PendingResumable == ReplaySpec => []PendingIsResumable
<1>1. ReplayInv => PendingIsResumable
  BY DEF ReplayInv, ContinuationsInv, FaultFree, OneOpen, Open, PendingIsResumable
<1>2. QED
  BY ReplayInvariance, <1>1, PTL

\* Only a validation takes the session back.
LEMMA OnlyValidationResumes ==
    ASSUME ReplayInv, [ReplayNext]_allVars, control_state = RESUME_CHECK,
           control_state' = AUTOMATION
    PROVE  \E c \in Callers : ValidationSucceeds(c)
BY DEF ReplayNext, CallerStep, Suspend, RequestPause, AdmitResume, ValidationFails,
       ValidationFindsStopped, ResumeObserves, ReplayEnds, DispatchStep, StepWoken, StepCompletes,
       StepFails, CallResume, GrantOperatorControl, GrantHumanControl, ReturnOperatorControl,
       ReturnControlForResumeCheck, OperatorDispatch, DispatchAtOnce, DispatchQueues,
       OperatorTaskEnds, OperatorWoken, WokenDispatch, OperatorActionEnds, EndDispatch, HumanInput,
       Stop, StopSession, allVars, vars, session, AUTOMATION, RESUME_CHECK, HUMAN_CONTROL, PAUSING,
       STOPPED

\* Only an operator who has control asks for a resume check.
LEMMA OnlyReturnAsks ==
    ASSUME ReplayInv, [ReplayNext]_allVars, control_state # RESUME_CHECK,
           control_state' = RESUME_CHECK
    PROVE  control_state = HUMAN_CONTROL /\ UNCHANGED caller
<1>1. PICK o \in Operators : ReturnOperatorControl(o)
  BY DEF ReplayNext, CallerStep, Suspend, RequestPause, AdmitResume, ValidationFails,
         ValidationSucceeds, TakeBack, ResumeAutomationAfterValidation, ValidationFindsStopped,
         ResumeObserves, ReplayEnds, DispatchStep, StepWoken, StepCompletes, StepFails,
         CallResume, GrantOperatorControl, GrantHumanControl, OperatorDispatch,
         DispatchAtOnce, DispatchQueues, OperatorTaskEnds, OperatorWoken, WokenDispatch,
         OperatorActionEnds, EndDispatch, HumanInput, Stop, StopSession, allVars, vars, session,
         AUTOMATION, RESUME_CHECK, HUMAN_CONTROL, PAUSING, STOPPED
<1>2. QED
  BY <1>1 DEF ReturnOperatorControl, ReturnControlForResumeCheck

\* No validation is under way when control is returned, and what takes the session back for
\* automation is one caller's validation of a pending continuation: that continuation is
\* consumed and this caller replays on, unless the event of it could not be written.
THEOREM ResumedOnOwn == ReplaySpec => ResumedOnOwnValidation
<1>1. ASSUME ReplayInv, [ReplayNext]_allVars, control_state # RESUME_CHECK,
             control_state' = RESUME_CHECK, NEW c \in Callers
      PROVE  PC(c)' # "validating"
  <2>1. control_state = HUMAN_CONTROL /\ UNCHANGED caller
    BY <1>1, OnlyReturnAsks
  <2>2. PC(c) # "validating"
    BY <1>1, <2>1 DEF ReplayInv, CallersInv, ValidationFits, HUMAN_CONTROL, STOPPED
  <2>3. QED
    BY <2>1, <2>2 DEF PC
<1>2. ASSUME ReplayInv, [ReplayNext]_allVars, control_state = RESUME_CHECK,
             control_state' = AUTOMATION
      PROVE  \E c \in Callers :
                 /\ PC(c) = "validating" /\ registry[caller[c].id] = "pending"
                 /\ \/ /\ registry' = [registry EXCEPT ![caller[c].id] = "consumed"]
                       /\ PC(c)' = "observing" /\ caller'[c].id = caller[c].id
                    \/ faults' = faults + 1 /\ PC(c)' = "idle"
  <2>1. PICK c \in Callers : ValidationSucceeds(c)
    BY <1>2, OnlyValidationResumes
  <2>2. PC(c) = "validating" /\ registry[caller[c].id] = "pending"
    BY <1>2, <2>1 DEF ValidationSucceeds, ReplayInv, CallersInv, ValidationFits
  <2>3. caller[c] \in CallerType /\ c \in DOMAIN caller
    BY <1>2 DEF ReplayInv, ReplayTyped
  <2>4. CASE /\ Recorded(TRUE) /\ Consume(caller[c].id)
             /\ caller' = [caller EXCEPT ![c].pc = "observing",
                                         ![c].generation = control_generation']
    BY <2>2, <2>3, <2>4 DEF Consume, PC, CallerType
  <2>5. CASE Recorded(FALSE) /\ Answer(c)
    BY <2>2, <2>3, <2>5 DEF Recorded, Answer, AtRest, PC
  <2>6. QED
    BY <2>1, <2>2, <2>4, <2>5 DEF ValidationSucceeds
<1>3. ReplayInv /\ [ReplayNext]_allVars =>
        [/\ control_state # RESUME_CHECK /\ control_state' = RESUME_CHECK =>
               \A c \in Callers : PC(c)' # "validating"
         /\ control_state = RESUME_CHECK /\ control_state' = AUTOMATION =>
               \E c \in Callers :
                   /\ PC(c) = "validating" /\ registry[caller[c].id] = "pending"
                   /\ \/ /\ registry' = [registry EXCEPT ![caller[c].id] = "consumed"]
                         /\ PC(c)' = "observing" /\ caller'[c].id = caller[c].id
                      \/ faults' = faults + 1 /\ PC(c)' = "idle"]_allVars
  BY <1>1, <1>2
<1>4. QED
  BY ReplayInvariance, <1>3, PTL DEF ReplaySpec, ResumedOnOwnValidation
=============================================================================
