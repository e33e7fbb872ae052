------------------------- MODULE ReplayEngineProofs -------------------------
(***************************************************************************)
(* Proofs about the state evaluator and the replay engine, for every set   *)
(* of capabilities, targets, texts and inputs.                             *)
(*                                                                         *)
(* The argument.  A condition that evaluates to TRUE or FALSE does so on   *)
(* every page the snapshot leaves possible and with every value of the     *)
(* inputs that were not supplied; a set of conditions inherits that, and   *)
(* with it each verdict.  The engine dispatches the step at its index      *)
(* only, once, and the index moves on only as that step is completed; so   *)
(* everything dispatched is behind the index, and completed, except the    *)
(* step that is being looked after.                                        *)
(***************************************************************************)
EXTENDS ReplayEngine, FiniteSetTheorems, TLAPS

Snapshots == UNION {[observed -> Observations] : observed \in SUBSET Targets}

-----------------------------------------------------------------------------
(* The evaluator *)

\* A condition's value holds on every possible page, with every possible input.
LEMMA ConditionIsSound ==
    ASSUME NEW c \in Conditions, NEW seen \in Snapshots,
           NEW given, DOMAIN given \subseteq InputNames,
           NEW page \in PossiblePages(seen), NEW all \in PossibleInputs(given)
    PROVE  /\ EvaluateCondition(c, seen, given) = "TRUE" => Holds(c, page, all)
           /\ EvaluateCondition(c, seen, given) = "FALSE" => ~ Holds(c, page, all)
<1> DEFINE t == c.target
           value == EvaluateCondition(c, seen, given)
<1>1. /\ t \in Targets
      /\ c.kind \in {"visible", "equals", "contains"}
      /\ c.expected \in Texts \cup InputNames
  BY DEF Conditions
<1>2. CASE t \notin DOMAIN seen \/ seen[t].state = "UNAVAILABLE"
  BY <1>2 DEF EvaluateCondition
<1>3. CASE /\ t \in DOMAIN seen /\ seen[t].state # "UNAVAILABLE"
           /\ c.kind = "visible" \/ seen[t].state = "NOT_VISIBLE"
  <2>1. seen[t].state \in {"VISIBLE", "NOT_VISIBLE"}
    BY <1>3 DEF Snapshots, Observations, Visible, NotVisible, Unavailable
  <2>2. /\ seen[t].state = "VISIBLE" => page[t].state = "VISIBLE"
        /\ seen[t].state = "NOT_VISIBLE" => page[t].state = "NOT_VISIBLE"
    BY <1>3 DEF PossiblePages, NotVisible
  <2>3. value = Truth(seen[t].state = "VISIBLE")
    BY <1>3 DEF EvaluateCondition
  <2>4. QED
    BY <1>3, <2>1, <2>2, <2>3 DEF Truth, Holds
<1>4. CASE /\ t \in DOMAIN seen /\ seen[t].state = "VISIBLE" /\ c.kind # "visible"
           /\ seen[t].text = NoText \/ InputMissing(c, given)
  BY <1>4 DEF EvaluateCondition
<1>5. CASE /\ t \in DOMAIN seen /\ seen[t].state = "VISIBLE" /\ c.kind # "visible"
           /\ seen[t].text # NoText /\ ~ InputMissing(c, given)
  <2>1. page[t].state = "VISIBLE" /\ page[t].text = seen[t].text
    BY <1>5 DEF PossiblePages
  <2>2. Expected(c, all) = Expected(c, given)
    BY <1>1, <1>5 DEF Expected, InputMissing, PossibleInputs
  <2>3. value = Truth(Matches(c.kind, seen[t].text, Expected(c, given)))
    BY <1>5 DEF EvaluateCondition
  <2>4. QED
    BY <1>5, <2>1, <2>2, <2>3 DEF Truth, Holds
<1>6. t \in DOMAIN seen => seen[t].state \in {"VISIBLE", "NOT_VISIBLE", "UNAVAILABLE"}
  BY DEF Snapshots, Observations, Visible, NotVisible, Unavailable
<1>7. QED
  BY <1>2, <1>3, <1>4, <1>5, <1>6

\* A condition has one of three values.
LEMMA ConditionValues ==
    ASSUME NEW c, NEW seen, NEW given
    PROVE  EvaluateCondition(c, seen, given) \in {"TRUE", "FALSE", "UNKNOWN"}
  BY DEF EvaluateCondition, Truth

\* A set of conditions that is seen to hold, or not to, does so on every possible page.
LEMMA ConditionsAreSound ==
    ASSUME NEW conditions \in SUBSET Conditions, NEW seen \in Snapshots,
           NEW given, DOMAIN given \subseteq InputNames,
           NEW page \in PossiblePages(seen), NEW all \in PossibleInputs(given)
    PROVE  /\ AllConditions(conditions, seen, given) = "TRUE" => AllHold(conditions, page, all)
           /\ AllConditions(conditions, seen, given) = "FALSE" => ~ AllHold(conditions, page, all)
<1> DEFINE results == {EvaluateCondition(c, seen, given) : c \in conditions}
<1>1. ASSUME AllConditions(conditions, seen, given) = "TRUE"
      PROVE  AllHold(conditions, page, all)
  <2>1. "FALSE" \notin results /\ "UNKNOWN" \notin results
    BY <1>1 DEF AllConditions
  <2>2. \A c \in conditions : EvaluateCondition(c, seen, given) = "TRUE"
    BY <2>1, ConditionValues
  <2>3. QED
    BY <2>2, ConditionIsSound DEF AllHold
<1>2. ASSUME AllConditions(conditions, seen, given) = "FALSE"
      PROVE  ~ AllHold(conditions, page, all)
  <2>1. "FALSE" \in results
    BY <1>2 DEF AllConditions
  <2>2. PICK c \in conditions : EvaluateCondition(c, seen, given) = "FALSE"
    BY <2>1
  <2>3. QED
    BY <2>2, ConditionIsSound DEF AllHold
<1>3. QED
  BY <1>1, <1>2

\* So has a set of them.
LEMMA AllConditionsValues ==
    ASSUME NEW conditions, NEW seen, NEW given
    PROVE  AllConditions(conditions, seen, given) \in {"TRUE", "FALSE", "UNKNOWN"}
  BY DEF AllConditions

Sound(verdict, offered, page, all) ==
    LET reached == {o \in offered.outcomes : AllHold(o, page, all)}
        success == AllHold(offered.success, page, all)
    IN  /\ verdict = "SUCCESS" => success
        /\ verdict = "BUSINESS_OUTCOME" => reached # {}
        /\ verdict = "CONFLICT" => Cardinality(reached) > 1 \/ (success /\ reached # {})
        /\ verdict = "INCOMPLETE" => reached = {} /\ ~ success

\* The verdict holds on every possible page: what is reached on the snapshot is reached
\* there, and what is neither reached nor open is not.
LEMMA VerdictHolds ==
    ASSUME NEW offered \in Capabilities, NEW seen \in Snapshots,
           NEW given, DOMAIN given \subseteq InputNames,
           NEW page \in PossiblePages(seen), NEW all \in PossibleInputs(given)
    PROVE  Sound(TerminalState(offered, seen, given), offered, page, all)
<1> DEFINE verdict == TerminalState(offered, seen, given)
           shown == OutcomesThatAre("TRUE", offered, seen, given)
           open == OutcomesThatAre("UNKNOWN", offered, seen, given)
           success == AllConditions(offered.success, seen, given)
           reached == {o \in offered.outcomes : AllHold(o, page, all)}
<1>1. /\ offered.success \subseteq Conditions
      /\ IsFiniteSet(offered.outcomes)
      /\ \A o \in offered.outcomes : o \subseteq Conditions
  BY EngineAssumption
<1>2. /\ success = "TRUE" => AllHold(offered.success, page, all)
      /\ success = "FALSE" => ~ AllHold(offered.success, page, all)
  BY <1>1, ConditionsAreSound
<1>3. \A o \in offered.outcomes :
          /\ AllConditions(o, seen, given) = "TRUE" => AllHold(o, page, all)
          /\ AllConditions(o, seen, given) = "FALSE" => ~ AllHold(o, page, all)
  BY <1>1, ConditionsAreSound
<1>4. shown \subseteq reached
  BY <1>3 DEF OutcomesThatAre
<1>5. shown = {} /\ open = {} => reached = {}
  <2>1. \A o \in offered.outcomes : AllConditions(o, seen, given) \in {"TRUE", "FALSE", "UNKNOWN"}
    BY AllConditionsValues
  <2>2. QED
    BY <1>3, <2>1 DEF OutcomesThatAre
<1>6. Cardinality(shown) > 1 => Cardinality(reached) > 1
  <2>1. IsFiniteSet(reached)
    BY <1>1, FS_Subset
  <2>2. IsFiniteSet(shown) /\ Cardinality(shown) <= Cardinality(reached)
    BY <1>4, <2>1, FS_Subset
  <2>3. Cardinality(shown) \in Nat /\ Cardinality(reached) \in Nat
    BY <2>1, <2>2, FS_CardinalityType
  <2>4. QED
    BY <2>2, <2>3
<1>7. success \in {"TRUE", "FALSE", "UNKNOWN"}
  BY AllConditionsValues
<1>8. /\ verdict = "SUCCESS" => success = "TRUE"
      /\ verdict = "BUSINESS_OUTCOME" => shown # {}
      /\ verdict = "CONFLICT" => Cardinality(shown) > 1 \/ (shown # {} /\ success = "TRUE")
      /\ verdict = "INCOMPLETE" => shown = {} /\ open = {} /\ success \notin {"TRUE", "UNKNOWN"}
  BY DEF TerminalState
<1>9. QED
  BY <1>2, <1>4, <1>5, <1>6, <1>7, <1>8 DEF Sound

-----------------------------------------------------------------------------
(* The inductive invariant *)

EngineTyped ==
    /\ capability \in Capabilities
    /\ inputs \in Suppliable
    /\ pc \in {"resuming", "before", "dispatching", "after", "ended"}
    /\ index \in Nat
    /\ pc \in {"resuming", "dispatching", "after"} => index \in Steps
    /\ attempt \in Nat
    /\ snapshot \in Snapshots
    /\ dispatched \in [Steps -> 0 .. 1]
    /\ completed \subseteq Steps
    /\ proven \subseteq Steps

\* What was dispatched is behind the index and completed, but for the step looked after.
BehindIndex ==
    \A i \in Steps : dispatched[i] = 1 =>
        \/ pc \in {"before", "dispatching", "after"} /\ i < index /\ i \in completed
        \/ pc = "after" /\ i = index
        \/ pc = "ended"

DispatchedInOrder ==
    \A i \in Steps : dispatched[i] = 1 =>
        \A j \in 1 .. i - 1 : dispatched[j] = 1 => j \in completed

SuccessStands ==
    result = "SUCCESS" =>
        /\ pc = "ended"
        /\ TerminalState(capability, snapshot, inputs) = "SUCCESS"
        /\ OutputsExtracted(capability, snapshot)
        /\ \A i \in Steps : dispatched[i] = 1 => i \in completed

EngineInv ==
    /\ EngineTyped
    /\ BehindIndex
    /\ DispatchedInOrder
    /\ SuccessStands
    /\ RetriedStepIsProven

\* Steps are numbered from 1, and finitely many.
LEMMA StepNumbers == EngineTyped => Steps = 1 .. Len(capability.steps)
                                    /\ Len(capability.steps) \in Nat
  BY EngineAssumption DEF EngineTyped, Steps

\* A replay or a resume starts with nothing dispatched and nothing recorded before its step.
LEMMA EngineInitInv == EngineInit => EngineInv
<1> SUFFICES ASSUME EngineInit PROVE EngineInv
  OBVIOUS
<1>1. Steps = 1 .. Len(capability.steps) /\ Len(capability.steps) \in Nat
  BY EngineAssumption DEF EngineInit, Steps
<1>2. snapshot \in Snapshots
  BY DEF EngineInit, Snapshots
<1>3. QED
  BY <1>1, <1>2 DEF EngineInit, EngineInv, EngineTyped, BehindIndex, DispatchedInOrder,
                    SuccessStands, RetriedStepIsProven

\* The end of a replay that is no success, with what was dispatched as before.
LEMMA EndsQuietly ==
    ASSUME EngineInv, NEW r, r # "SUCCESS", End(r), snapshot' \in Snapshots,
           UNCHANGED <<capability, inputs, index, attempt, dispatched, completed, proven>>
    PROVE  EngineInv'
  BY DEF EngineInv, EngineTyped, BehindIndex, DispatchedInOrder, SuccessStands,
         RetriedStepIsProven, End, Steps, Step

\* What is collected is a snapshot.
LEMMA CollectTyped ==
    ASSUME Collect
    PROVE  snapshot' \in Snapshots
  BY DEF Collect, Snapshots

\* The gateway may have performed the step at hand, as the replay ends.
LEMMA EndsAttempted ==
    ASSUME EngineInv, NEW r, r # "SUCCESS", End(r), pc = "dispatching", Attempted,
           UNCHANGED <<capability, inputs, index, attempt, snapshot, completed, proven>>
    PROVE  EngineInv'
<1>1. index \in Steps /\ dispatched[index] = 0
  BY StepNumbers DEF EngineInv, EngineTyped, BehindIndex
<1>2. dispatched' \in [Steps -> 0 .. 1]
  BY <1>1 DEF Attempted, EngineInv, EngineTyped
<1>3. DispatchedInOrder'
  <2>1. \A i \in Steps : dispatched'[i] = 1 => dispatched[i] = 1 \/ i = index
    BY <1>1 DEF Attempted, EngineInv, EngineTyped
  <2>2. \A j \in Steps : j # index => dispatched'[j] = dispatched[j]
    BY <1>1 DEF Attempted, EngineInv, EngineTyped
  <2>3. \A j \in Steps : dispatched[j] = 1 => j < index /\ j \in completed
    BY DEF EngineInv, BehindIndex
  <2>4. ASSUME NEW i \in Steps, dispatched'[i] = 1, NEW j \in 1 .. i - 1, dispatched'[j] = 1
        PROVE  j \in completed
    <3>1. j \in Steps /\ j < i
      BY StepNumbers DEF EngineInv
    <3>2. i <= index
      BY <2>1, <2>3, <2>4, StepNumbers DEF EngineInv, EngineTyped
    <3>3. j # index
      BY <3>1, <3>2, StepNumbers DEF EngineInv
    <3>4. QED
      BY <2>2, <2>3, <2>4, <3>1, <3>3
  <2>5. QED
    BY <2>4 DEF DispatchedInOrder, Steps
<1>4. QED
  BY <1>1, <1>2, <1>3 DEF EngineInv, EngineTyped, BehindIndex, SuccessStands,
                          RetriedStepIsProven, End, Steps, Step

\* The step at hand is dispatched, for the first time.
LEMMA ExecutedSafe ==
    ASSUME EngineInv, StepExecuted
    PROVE  EngineInv'
<1>1. index \in Steps /\ dispatched[index] = 0 /\ index \in Nat
  BY StepNumbers DEF EngineInv, EngineTyped, BehindIndex, StepExecuted
<1>2. /\ dispatched' \in [Steps -> 0 .. 1]
      /\ \A j \in Steps : dispatched'[j] = IF j = index THEN 1 ELSE dispatched[j]
  BY <1>1 DEF StepExecuted, EngineInv, EngineTyped
<1>3. \A j \in Steps : dispatched[j] = 1 => j < index /\ j \in completed
  BY DEF EngineInv, BehindIndex, StepExecuted
<1>4. DispatchedInOrder'
  <2>1. ASSUME NEW i \in Steps, dispatched'[i] = 1, NEW j \in 1 .. i - 1, dispatched'[j] = 1
        PROVE  j \in completed
    <3>1. j \in Steps /\ j < i /\ i <= index
      BY <1>1, <1>2, <1>3, <2>1, StepNumbers DEF EngineInv
    <3>2. j # index
      BY <1>1, <3>1, StepNumbers DEF EngineInv
    <3>3. QED
      BY <1>2, <1>3, <2>1, <3>1, <3>2
  <2>2. QED
    BY <2>1 DEF DispatchedInOrder, Steps, StepExecuted
<1>5. QED
  BY <1>1, <1>2, <1>3, <1>4
     DEF EngineInv, EngineTyped, BehindIndex, SuccessStands, RetriedStepIsProven, StepExecuted,
         GoOn, Steps, Step

\* The replay ends with the verdict of the last snapshot, everything dispatched being completed.
LEMMA DecidedSafe ==
    ASSUME EngineInv, Decided, Collect, End(TerminalResult), proven \subseteq proven',
           \/ pc = "resuming" /\ UNCHANGED <<completed, proven>>
           \/ pc = "after" /\ Completes(TRUE),
           UNCHANGED <<capability, inputs, index, attempt, dispatched>>
    PROVE  EngineInv'
<1>1. /\ index \in Steps /\ Steps' = Steps /\ index \in Nat
      /\ Steps = 1 .. Len(capability.steps) /\ Len(capability.steps) \in Nat
  BY StepNumbers DEF EngineInv, EngineTyped, Steps
<1>2. completed' \subseteq Steps /\ proven' \subseteq Steps /\ completed \subseteq completed'
  BY <1>1 DEF EngineInv, EngineTyped, Completes
<1>3. \A i \in Steps : dispatched[i] = 1 => i \in completed'
  BY <1>1 DEF EngineInv, BehindIndex, Completes
<1>4. EngineTyped'
  BY <1>1, <1>2, CollectTyped DEF EngineInv, EngineTyped, End
<1>5. BehindIndex' /\ DispatchedInOrder'
  BY <1>1, <1>2, <1>3 DEF BehindIndex, DispatchedInOrder, End
<1>6. SuccessStands'
  <2>1. result' = "SUCCESS" => /\ TerminalState(capability, snapshot', inputs) = "SUCCESS"
                               /\ OutputsExtracted(capability, snapshot')
    BY DEF End, TerminalResult, Terminal
  <2>2. QED
    BY <1>1, <1>3, <2>1 DEF SuccessStands, End
<1>7. RetriedStepIsProven'
  <2>1. \A i \in completed' : i \in completed \/ (i = index /\ index \in proven')
    BY DEF Completes
  <2>2. \A i \in completed :
            capability.steps[i].attempts > 0 /\ capability.steps[i].post # {} => i \in proven
    BY DEF EngineInv, RetriedStepIsProven
  <2>3. pc' = "ended"
    BY DEF End
  <2>4. QED
    BY <2>1, <2>2, <2>3 DEF RetriedStepIsProven
<1>8. QED
  BY <1>4, <1>5, <1>6, <1>7 DEF EngineInv

\* The replay goes on behind the step at hand.
LEMMA ProceedsSafe ==
    ASSUME EngineInv, NEW shown \in BOOLEAN, AfterStep, Proceeds(shown),
           shown \/ ~ MustBeShown
    PROVE  EngineInv'
<1>1. /\ index \in Steps /\ Steps' = Steps /\ index \in Nat
      /\ Steps = 1 .. Len(capability.steps) /\ Len(capability.steps) \in Nat
      /\ pc = "after"
  BY StepNumbers DEF EngineInv, EngineTyped, Steps, AfterStep
<1>2. /\ completed' = completed \cup {index} /\ proven \subseteq proven'
      /\ proven' \subseteq proven \cup {index} /\ (shown => index \in proven')
      /\ pc' = "before" /\ index' = index + 1 /\ attempt' = 0 /\ result' = result
      /\ UNCHANGED <<capability, inputs, dispatched>>
  BY DEF Proceeds, Completes, GoOn, AfterStep
<1>3. EngineTyped'
  BY <1>1, <1>2, CollectTyped DEF EngineInv, EngineTyped, AfterStep
<1>4. BehindIndex' /\ DispatchedInOrder'
  BY <1>1, <1>2 DEF EngineInv, BehindIndex, DispatchedInOrder
<1>5. SuccessStands'
  BY <1>1, <1>2 DEF EngineInv, SuccessStands
<1>6. RetriedStepIsProven'
  <2>1. capability.steps[index].attempts > 0 /\ capability.steps[index].post # {}
            => index \in proven'
    BY <1>2 DEF MustBeShown, Step
  <2>2. QED
    BY <1>2, <2>1 DEF EngineInv, RetriedStepIsProven
<1>7. QED
  BY <1>3, <1>4, <1>5, <1>6 DEF EngineInv

\* Nothing that was dispatched or completed changes, and the replay goes on.
LEMMA GoesOnSafe ==
    ASSUME EngineInv, snapshot' \in Snapshots, UNCHANGED result,
           UNCHANGED <<capability, inputs, dispatched, completed, proven>>,
           \/ /\ pc = "resuming" /\ pc' = "before" /\ index' \in {index, index + 1}
              /\ attempt' = attempt
           \/ /\ pc = "before" /\ pc' = "dispatching" /\ index \in Steps
              /\ UNCHANGED <<index, attempt>>
           \/ /\ pc = "after" /\ pc' = "after" /\ BudgetLeft
              /\ attempt' = attempt + 1 /\ index' = index
    PROVE  EngineInv'
<1>1. /\ Steps' = Steps /\ index \in Nat /\ attempt \in Nat
      /\ Steps = 1 .. Len(capability.steps) /\ Len(capability.steps) \in Nat
  BY StepNumbers DEF EngineInv, EngineTyped, Steps
<1>2. EngineTyped'
  BY <1>1 DEF EngineInv, EngineTyped
<1>3. BehindIndex' /\ DispatchedInOrder'
  BY <1>1 DEF EngineInv, BehindIndex, DispatchedInOrder
<1>4. SuccessStands'
  BY <1>1 DEF EngineInv, SuccessStands
<1>5. RetriedStepIsProven'
  <2>1. pc' = "after" => attempt' <= Step.attempts /\ Step' = Step
    <3>1. CASE pc' = "after"
      <4>1. pc = "after" /\ BudgetLeft /\ attempt' = attempt + 1 /\ Step' = Step /\ index \in Steps
        BY <3>1 DEF Step, EngineInv, EngineTyped
      <4>2. Step.attempts \in Nat
        BY <4>1, EngineAssumption DEF EngineInv, EngineTyped, Steps, Step
      <4>3. QED
        BY <1>1, <4>1, <4>2 DEF BudgetLeft
    <3>2. QED
      BY <3>1
  <2>2. QED
    BY <2>1 DEF EngineInv, RetriedStepIsProven
<1>6. QED
  BY <1>2, <1>3, <1>4, <1>5 DEF EngineInv

\* Every action of the engine preserves the invariant.
LEMMA EngineStepInv == EngineInv /\ [EngineNext]_engineVars => EngineInv'
<1> SUFFICES ASSUME EngineInv, [EngineNext]_engineVars PROVE EngineInv'
  OBVIOUS
<1>1. snapshot \in Snapshots
  BY DEF EngineInv, EngineTyped
<1>2. CASE CollectionFails \/ NoStepLeft \/ FillRaises
  BY <1>1, <1>2, EndsQuietly DEF CollectionFails, NoStepLeft, FillRaises
<1>3. CASE ResumeUnverified
  <2>1. \E r : r # "SUCCESS" /\ End(r)
    BY <1>3 DEF ResumeUnverified
  <2>2. QED
    BY <1>3, <2>1, EndsQuietly, CollectTyped DEF ResumeUnverified, Resuming
<1>4. CASE PreconditionFails
  <2>1. \E r : r # "SUCCESS" /\ End(r)
    BY <1>4 DEF PreconditionFails
  <2>2. QED
    BY <1>4, <2>1, EndsQuietly, CollectTyped DEF PreconditionFails, BeforeStep
<1>5. CASE StepRefuted
  <2>1. \E r : r # "SUCCESS" /\ End(r)
    BY <1>5 DEF StepRefuted
  <2>2. QED
    BY <1>5, <2>1, EndsQuietly, CollectTyped DEF StepRefuted, Undecided, AfterStep
<1>6. CASE StepTimesOut
  BY <1>6, EndsQuietly, CollectTyped DEF StepTimesOut, Undecided, AfterStep
<1>7. CASE EventRaises
  BY <1>1, <1>7, EndsQuietly, EndsAttempted DEF EventRaises
<1>8. CASE StepNotExecuted
  BY <1>1, <1>8, EndsQuietly, EndsAttempted DEF StepNotExecuted
<1>9. CASE StepExecuted
  BY <1>9, ExecutedSafe
<1>10. CASE ResumeDecided
  BY <1>10, DecidedSafe DEF ResumeDecided, Resuming
<1>11. CASE StepDecides
  BY <1>11, DecidedSafe DEF StepDecides, AfterStep, Completes
<1>12. CASE StepShown
  BY <1>12, ProceedsSafe DEF StepShown
<1>13. CASE StepPasses
  BY <1>13, ProceedsSafe DEF StepPasses, Undecided
<1>14. CASE ResumeGoesOn
  BY <1>14, GoesOnSafe, CollectTyped DEF ResumeGoesOn, Resuming, GoOn
<1>15. CASE StepBegins
  BY <1>15, GoesOnSafe, CollectTyped DEF StepBegins, BeforeStep, GoOn
<1>16. CASE ObserveAgain
  BY <1>16, GoesOnSafe, CollectTyped DEF ObserveAgain, Undecided, AfterStep, GoOn
<1>17. CASE UNCHANGED engineVars
  BY <1>17 DEF engineVars, EngineInv, EngineTyped, BehindIndex, DispatchedInOrder, SuccessStands,
               RetriedStepIsProven, Steps, Step
<1>18. QED
  BY <1>2, <1>3, <1>4, <1>5, <1>6, <1>7, <1>8, <1>9, <1>10, <1>11, <1>12, <1>13, <1>14, <1>15,
     <1>16, <1>17 DEF EngineNext

\* The invariant holds throughout.
LEMMA EngineInvariance == EngineSpec => []EngineInv
  BY EngineInitInv, EngineStepInv, PTL DEF EngineSpec

-----------------------------------------------------------------------------
(* The theorems *)

\* StateEvaluator's verdict on the snapshot at hand holds on every page that the snapshot
\* leaves possible, at every moment of every replay.
THEOREM VerdictsSound == EngineSpec => []VerdictIsSound
<1>1. EngineInv => VerdictIsSound
  <2>1. SUFFICES ASSUME EngineInv, NEW page \in PossiblePages(snapshot),
                        NEW all \in PossibleInputs(inputs)
                 PROVE  Sound(TerminalState(capability, snapshot, inputs), capability, page, all)
    BY DEF VerdictIsSound, Sound
  <2>2. /\ capability \in Capabilities /\ snapshot \in Snapshots
        /\ DOMAIN inputs \subseteq InputNames
    BY <2>1, EngineAssumption DEF EngineInv, EngineTyped
  <2>3. QED
    BY <2>1, <2>2, VerdictHolds
<1>2. QED
  BY <1>1, EngineInvariance, PTL

\* ReplayEngine answers SUCCESS only for a page that shows it and no business outcome, with
\* its outputs, and with every dispatched step completed.  Of an outcome the page leaves
\* unknown it says nothing.
THEOREM SuccessesProven == EngineSpec => []SuccessIsProven
<1>1. EngineInv => SuccessIsProven
  <2>1. SUFFICES ASSUME EngineInv, result = "SUCCESS" PROVE SuccessIsProven
    BY DEF SuccessIsProven
  <2>2. /\ capability \in Capabilities /\ snapshot \in Snapshots
        /\ DOMAIN inputs \subseteq InputNames
    BY <2>1, EngineAssumption DEF EngineInv, EngineTyped
  <2>3. /\ TerminalState(capability, snapshot, inputs) = "SUCCESS"
        /\ OutputsExtracted(capability, snapshot)
        /\ \A i \in Steps : dispatched[i] = 1 => i \in completed
    BY <2>1 DEF EngineInv, SuccessStands
  <2>4. \A page \in PossiblePages(snapshot), all \in PossibleInputs(inputs) :
            AllHold(capability.success, page, all)
    BY <2>2, <2>3, VerdictHolds DEF Sound
  <2>5. \A i \in Steps : dispatched[i] > 0 => i \in completed
    BY <2>1, <2>3 DEF EngineInv, EngineTyped
  <2>6. OutcomesThatAre("TRUE", capability, snapshot, inputs) = {}
    BY <2>3 DEF TerminalState
  <2>7. QED
    BY <2>3, <2>4, <2>5, <2>6 DEF SuccessIsProven, OutputsExtracted
<1>2. QED
  BY <1>1, EngineInvariance, PTL

\* No replay dispatches a step twice, nor one ahead of a dispatched one's completion.
THEOREM StepsInOrder == EngineSpec => []StepsOnceInOrder
<1>1. EngineInv => StepsOnceInOrder
  BY DEF EngineInv, EngineTyped, DispatchedInOrder, StepsOnceInOrder
<1>2. QED
  BY <1>1, EngineInvariance, PTL

\* A step with a retry policy and a postcondition is completed only as it is shown.
THEOREM RetriesProven == EngineSpec => []RetriedStepIsProven
<1>1. EngineInv => RetriedStepIsProven
  BY DEF EngineInv
<1>2. QED
  BY <1>1, EngineInvariance, PTL
=============================================================================
