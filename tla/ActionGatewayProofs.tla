------------------------ MODULE ActionGatewayProofs -------------------------
(***************************************************************************)
(* Proofs about the gateways, for every set of tasks and operators and     *)
(* every number of evidence failures.                                      *)
(*                                                                         *)
(* The argument.  A request speaks for the actor it was called for, under  *)
(* a generation that has been, so that a gateway's step is a step of the   *)
(* session or leaves it alone: the session's theorems hold below both      *)
(* gateways.  A task has a dispatch exactly while its request is           *)
(* dispatching (a woken head of the queue is such a task, because the      *)
(* queue holds waiters only), and a request dispatches only once ALLOW is  *)
(* on record.  Hence no effect without permission; and a request that is   *)
(* answered before its action is in flight is answered truthfully, because *)
(* nothing can have been applied for it.                                   *)
(***************************************************************************)
EXTENDS ActionGateway, SessionControlProofs

Stages == {"none", "called", "dispatching", "answered"}
Decisions == {"none", "ALLOW", "DENY", "REQUIRE_APPROVAL"}
Outcomes == {"FAILED", "DENIED", "APPROVAL_REQUIRED", "EXECUTED"}
EarlyReasons == Untouched \cup EvidenceLost \cup {"none"}
SurfaceReasons == {"APPLIED", "NOT_APPLIED", "SURFACE_ADAPTER_ERROR"}
Reasons == EarlyReasons \cup SurfaceReasons \cup {"ABANDONED"}

RequestsTyped ==
    /\ request \in [Tasks -> [pc : Stages, actor : Actors \cup {Nobody},
                              generation : Generations, outcome : Outcomes, reason : Reasons]]
    /\ policyLog \in [Tasks -> Decisions]
    /\ actionLog \in [Tasks -> Outcomes \cup {"none"}]
    /\ applied \subseteq Tasks

\* A pending request has its own actor and a generation that has been.
PendingFits(t) ==
    PC(t) \in {"called", "dispatching"} =>
        /\ request[t].actor \in ActorsOf(t)
        /\ request[t].generation <= control_generation
        /\ request[t].reason = "none"

\* The dispatch of a task is that of its request, and is permitted.
DispatchFits(t) ==
    /\ Phase(t) # "idle" <=> PC(t) = "dispatching"
    /\ PC(t) = "dispatching" => /\ dispatch[t].actor = request[t].actor
                                /\ policyLog[t] = "ALLOW"
    /\ request[t].reason = "ABANDONED" => policyLog[t] = "ALLOW"

\* What is applied was permitted, and applied in flight or after its caller was cancelled.
AppliedFits(t) ==
    /\ t \in applied => policyLog[t] = "ALLOW"
    /\ PC(t) = "called" \/ Queued(t) => t \notin applied

AnswerFits(t) ==
    Answered(t) =>
        /\ request[t].outcome = "EXECUTED" => t \in applied /\ actionLog[t] = "EXECUTED"
        /\ request[t].reason \in Untouched => t \notin applied
        /\ t \in applied => \/ actionLog[t] # "none"
                            \/ request[t].reason \in EvidenceLost \cup {"ABANDONED"}

Consistent(t) ==
    /\ PendingFits(t)
    /\ DispatchFits(t)
    /\ AppliedFits(t)
    /\ AnswerFits(t)

RequestsInv == RequestsTyped /\ \A t \in Tasks : Consistent(t)

\* The inductive invariant.
GatewayInv ==
    /\ IInv
    /\ QueueHoldsWaiters
    /\ RequestsInv

-----------------------------------------------------------------------------
(* Every step is a step of the session, or leaves it alone *)

\* A request that waits for its dispatch has an actor and a generation the session has had.
LEMMA PendingActor ==
    ASSUME GatewayInv, NEW t \in Tasks, PC(t) = "called"
    PROVE  /\ request[t].actor \in Actors
           /\ request[t].generation \in 0 .. control_generation
<1>1. request[t].actor \in ActorsOf(t) /\ request[t].generation <= control_generation
  BY DEF GatewayInv, RequestsInv, Consistent, PendingFits
<1>2. request[t].generation \in Nat /\ control_generation \in Nat
  BY DEF GatewayInv, RequestsInv, RequestsTyped, IInv, TypeOK, Generations
<1>3. QED
  BY <1>1, <1>2 DEF ActorsOf, Actors

\* A step of a gateway is one of the session, or leaves it alone.
LEMMA SessionStep == GatewayInv /\ [GatewayNext]_gatewayVars => [Next]_vars
<1> SUFFICES ASSUME GatewayInv, [GatewayNext]_gatewayVars PROVE [Next]_vars
  OBVIOUS
<1>1. ASSUME NEW t \in Tasks, Serve(t) PROVE [Next]_vars
  <2>1. CASE Allow(t)
    <3>1. Dispatching(t)
      BY <2>1, PendingActor DEF Allow, PolicyRecorded, Dispatching
    <3>2. QED
      BY <3>1 DEF Next
  <2>2. CASE Woken(t) \/ SurfaceApplied(t) \/ SurfaceNotApplied(t) \/ SurfaceRaises(t)
    BY <2>2 DEF Woken, SurfaceApplied, SurfaceNotApplied, SurfaceRaises, SurfaceAnswers,
                Dispatching, Next
  <2>3. CASE \/ Unbound(t) \/ NoScope(t) \/ ElementUnbound(t) \/ OutOfScope(t)
             \/ DecisionNotRecorded(t) \/ Deny(t) \/ AskApproval(t)
    BY <2>3 DEF Unbound, NoScope, ElementUnbound, NotObserved, OutOfScope,
                DecisionNotRecorded, Deny, AskApproval, Denied
  <2>4. QED
    BY <1>1, <2>1, <2>2, <2>3 DEF Serve
<1>2. ASSUME NEW t \in Tasks, CancelBeforeDispatch(t) \/ CancelInFlight(t) PROVE [Next]_vars
  BY <1>2 DEF CancelBeforeDispatch, CancelInFlight, Dispatching, Next
<1>3. ASSUME NEW t \in Tasks, Effect(t) PROVE [Next]_vars
  BY <1>3 DEF Effect
<1>4. ASSUME NEW t \in Tasks, NEW a, NEW g, Call(t, a, g) PROVE [Next]_vars
  BY <1>4 DEF Call
<1>5. CASE Handoffs
  BY <1>5 DEF Handoffs, Next
<1>6. CASE UNCHANGED gatewayVars
  BY <1>6 DEF gatewayVars
<1>7. QED
  BY <1>1, <1>2, <1>3, <1>4, <1>5, <1>6 DEF GatewayNext

-----------------------------------------------------------------------------
(* A task's step leaves the other tasks' requests alone *)

Elsewhere(t) ==
    \A u \in Tasks \ {t} :
        /\ request'[u] = request[u]
        /\ policyLog'[u] = policyLog[u]
        /\ actionLog'[u] = actionLog[u]
        /\ dispatch'[u] = dispatch[u]
        /\ u \in applied' <=> u \in applied

\* A step that touches nothing of a task leaves its request, logs and dispatch in agreement.
LEMMA Frame ==
    ASSUME GatewayInv, [Next]_vars, NEW u \in Tasks,
           request'[u] = request[u],
           policyLog'[u] = policyLog[u],
           actionLog'[u] = actionLog[u],
           dispatch'[u] = dispatch[u],
           u \in applied' <=> u \in applied
    PROVE  Consistent(u)'
<1>1. TypeOK /\ Consistent(u)
  BY DEF GatewayInv, IInv, RequestsInv
<1>2. /\ control_generation \in Nat /\ control_generation' \in Nat
      /\ control_generation <= control_generation'
      /\ request[u].generation \in Nat
  BY <1>1, GenerationGrows DEF GatewayInv, RequestsInv, RequestsTyped, Generations
<1>3. PendingFits(u)'
  BY <1>1, <1>2 DEF Consistent, PendingFits, PC, ActorsOf
<1>4. DispatchFits(u)' /\ AppliedFits(u)' /\ AnswerFits(u)'
  BY <1>1 DEF Consistent, DispatchFits, AppliedFits, AnswerFits, Answered, PC, Queued, Phase
<1>5. QED
  BY <1>3, <1>4 DEF Consistent

-----------------------------------------------------------------------------
(* Answers *)

\* Task t's request is answered, and of the logs at most its entry changes.
Closes(t) ==
    /\ request' \in [Tasks -> [pc : Stages, actor : Actors \cup {Nobody},
                               generation : Generations, outcome : Outcomes, reason : Reasons]]
    /\ actionLog' \in [Tasks -> Outcomes \cup {"none"}]
    /\ \A u \in Tasks \ {t} : request'[u] = request[u] /\ actionLog'[u] = actionLog[u]
    /\ request'[t].pc = "answered"

\* It is answered as what no action has been in flight for.
ClosesEarly(t) ==
    /\ Closes(t)
    /\ request'[t].outcome # "EXECUTED"
    /\ request'[t].reason # "ABANDONED"

Records(t, outcome, reason) ==
    /\ actionLog'[t] = outcome
    /\ request'[t].outcome = outcome
    /\ request'[t].reason = reason

\* What an answer changes.
LEMMA AnswerEffect ==
    ASSUME RequestsTyped, NEW t \in Tasks, NEW outcome \in Outcomes, NEW reason \in Reasons,
           Answer(t, outcome, reason)
    PROVE  /\ request' \in [Tasks -> [pc : Stages, actor : Actors \cup {Nobody},
                              generation : Generations, outcome : Outcomes, reason : Reasons]]
           /\ \A u \in Tasks \ {t} : request'[u] = request[u]
           /\ request'[t].pc = "answered"
           /\ request'[t].outcome = outcome
           /\ request'[t].reason = reason
<1>1. request' = [request EXCEPT ![t] =
          [request[t] EXCEPT !.pc = "answered", !.outcome = outcome, !.reason = reason]]
  BY DEF Answer, RequestsTyped
<1>2. QED
  BY <1>1 DEF RequestsTyped, Stages

\* An answer without a record closes its request, on the log as it is.
LEMMA UnrecordedEffect ==
    ASSUME RequestsTyped, NEW t \in Tasks, NEW outcome \in Outcomes, NEW reason \in Reasons,
           Answer(t, outcome, reason), UNCHANGED actionLog
    PROVE  /\ Closes(t)
           /\ request'[t].outcome = outcome
           /\ request'[t].reason = reason
BY AnswerEffect DEF RequestsTyped, Closes

\* An answer with a record closes its request: recorded, or answered as lost.
LEMMA RecordEffect ==
    ASSUME RequestsTyped, NEW t \in Tasks, NEW outcome \in Outcomes, NEW reason \in Reasons,
           NEW lost \in Reasons, RecordAndAnswer(t, outcome, reason, lost)
    PROVE  /\ Closes(t)
           /\ \/ Records(t, outcome, reason)
              \/ /\ request'[t].outcome = "FAILED"
                 /\ request'[t].reason = lost
<1>1. CASE /\ actionLog' = [actionLog EXCEPT ![t] = outcome]
           /\ Answer(t, outcome, reason)
  BY <1>1, AnswerEffect DEF RequestsTyped, Closes, Records
<1>2. CASE Answer(t, "FAILED", lost) /\ UNCHANGED actionLog
  BY <1>2, UnrecordedEffect DEF Outcomes
<1>3. QED
  BY <1>1, <1>2 DEF RecordAndAnswer

\* The same before the dispatch: nothing but an early reason is answered.
LEMMA RecordEarly ==
    ASSUME RequestsTyped, NEW t \in Tasks, NEW outcome \in Outcomes \ {"EXECUTED"},
           NEW reason \in EarlyReasons, NEW lost \in EarlyReasons,
           RecordAndAnswer(t, outcome, reason, lost)
    PROVE  ClosesEarly(t)
<1>1. Closes(t) /\ \/ Records(t, outcome, reason)
                   \/ request'[t].outcome = "FAILED" /\ request'[t].reason = lost
  BY RecordEffect DEF Reasons
<1>2. QED
  BY <1>1 DEF ClosesEarly, Records, EarlyReasons, Untouched, EvidenceLost

\* An early answer without a record.
LEMMA AnswerEarly ==
    ASSUME RequestsTyped, NEW t \in Tasks, NEW outcome \in Outcomes \ {"EXECUTED"},
           NEW reason \in EarlyReasons, Answer(t, outcome, reason),
           UNCHANGED actionLog
    PROVE  ClosesEarly(t)
BY UnrecordedEffect DEF ClosesEarly, Reasons, EarlyReasons, Untouched, EvidenceLost

Preserved(t) ==
    /\ RequestsTyped'
    /\ Elsewhere(t)
    /\ Consistent(t)'

\* A request that is answered before its action was in flight is consistent.
LEMMA Settled ==
    ASSUME NEW t \in Tasks, Phase(t)' = "idle", ClosesEarly(t), t \notin applied'
    PROVE  Consistent(t)'
BY DEF ClosesEarly, Closes, Consistent, PendingFits, DispatchFits, AppliedFits, AnswerFits,
       Answered, Phase, PC, Queued

\* A request that is not dispatched yet has no dispatch and no effect.
LEMMA CalledFits ==
    ASSUME GatewayInv, NEW t \in Tasks, PC(t) = "called"
    PROVE  Phase(t) = "idle" /\ t \notin applied
BY DEF GatewayInv, RequestsInv, Consistent, DispatchFits, AppliedFits

\* The decision, if any, is recorded for the task alone.
DecisionTyped(t) ==
    /\ policyLog' \in [Tasks -> Decisions]
    /\ \A u \in Tasks \ {t} : policyLog'[u] = policyLog[u]

\* The returns before the dispatch: unbound, out of scope, denied, or not recorded.
LEMMA EarlyAnswers ==
    ASSUME GatewayInv, NEW t \in Tasks,
           \/ Unbound(t) \/ NoScope(t) \/ ElementUnbound(t) \/ OutOfScope(t)
           \/ DecisionNotRecorded(t) \/ Deny(t) \/ AskApproval(t)
    PROVE  Preserved(t)
<1>0. RequestsTyped
  BY DEF GatewayInv, RequestsInv
<1>1. /\ PC(t) = "called"
      /\ UNCHANGED <<vars, applied>>
  BY DEF Unbound, NoScope, ElementUnbound, NotObserved, OutOfScope, DecisionNotRecorded, Deny,
         AskApproval, Denied, PolicyRecorded
<1>2. DecisionTyped(t)
  BY <1>0 DEF Unbound, NoScope, ElementUnbound, NotObserved, OutOfScope, DecisionNotRecorded,
              Deny, AskApproval, Denied, PolicyRecorded, RequestsTyped, Decisions, logs,
              DecisionTyped
<1>3. ClosesEarly(t)
  <2> USE <1>0 DEF Outcomes, LostBefore, EarlyReasons, Untouched, EvidenceLost
  <2>1. CASE Unbound(t)
    BY <2>1, RecordEarly DEF Unbound
  <2>2. CASE NoScope(t)
    BY <2>2, AnswerEarly DEF NoScope, NotObserved, logs
  <2>3. CASE ElementUnbound(t)
    BY <2>3, AnswerEarly DEF ElementUnbound, NotObserved, logs
  <2>4. CASE OutOfScope(t)
    BY <2>4, RecordEarly DEF OutOfScope
  <2>5. CASE DecisionNotRecorded(t)
    BY <2>5, AnswerEarly DEF DecisionNotRecorded, logs
  <2>6. CASE Deny(t)
    BY <2>6, RecordEarly, AnswerEarly DEF Deny, Denied
  <2>7. CASE AskApproval(t)
    BY <2>7, RecordEarly, AnswerEarly DEF AskApproval, Denied
  <2>8. QED
    BY <2>1, <2>2, <2>3, <2>4, <2>5, <2>6, <2>7
<1>4. Phase(t)' = "idle" /\ t \notin applied'
  BY <1>1, CalledFits DEF vars, lock, Phase
<1>5. RequestsTyped' /\ Elsewhere(t)
  BY <1>0, <1>1, <1>2, <1>3 DEF RequestsTyped, Elsewhere, DecisionTyped, ClosesEarly, Closes,
                                vars, lock
<1>6. QED
  BY <1>3, <1>4, <1>5, Settled DEF Preserved

-----------------------------------------------------------------------------
(* Dispatch *)

\* What entering or queueing makes of the task's dispatch: refused, or the request's.
LEMMA EntryFits ==
    ASSUME TypeOK, NEW t \in Tasks, NEW a, NEW g,
           \/ Enter(t, a, g)
           \/ DispatchQueues(t, a, g)
    PROVE  \/ Phase(t)' = "idle"
           \/ Phase(t)' # "idle" /\ dispatch'[t].actor = a
BY DEF TypeOK, Enter, DispatchQueues, Phase, Idle

\* After the lock, for a request that was called or waited and that is permitted.
LEMMA Entered ==
    ASSUME GatewayInv, NEW t \in Tasks, PC(t) \in {"called", "dispatching"}, t \notin applied,
           TypeOK', control_generation' = control_generation,
           \A u \in Tasks \ {t} : dispatch'[u] = dispatch[u],
           Phase(t)' = "idle" \/ dispatch'[t].actor = request[t].actor,
           DecisionTyped(t), policyLog'[t] = "ALLOW",
           AfterEntry(t), UNCHANGED applied
    PROVE  Preserved(t)
<1>0. RequestsTyped /\ Consistent(t)
  BY DEF GatewayInv, RequestsInv
<1>1. CASE Phase(t)' = "idle"
  <2>1. RecordAndAnswer(t, "FAILED", "REFUSED", LostBefore(t))
    BY <1>1 DEF AfterEntry, Phase
  <2>2. ClosesEarly(t)
    BY <1>0, <2>1, RecordEarly
       DEF Outcomes, LostBefore, EarlyReasons, Untouched, EvidenceLost
  <2>3. RequestsTyped' /\ Elsewhere(t)
    BY <1>0, <2>2 DEF RequestsTyped, Elsewhere, DecisionTyped, ClosesEarly, Closes
  <2>4. QED
    BY <1>1, <2>2, <2>3, Settled DEF Preserved
<1>2. CASE Phase(t)' # "idle"
  <2>1. /\ request' = [request EXCEPT ![t].pc = "dispatching"]
        /\ UNCHANGED actionLog
    BY <1>2 DEF AfterEntry, Phase
  <2>2. request' = [request EXCEPT ![t] = [request[t] EXCEPT !.pc = "dispatching"]]
    BY <1>0, <2>1 DEF RequestsTyped
  <2>3. /\ request' \in [Tasks -> [pc : Stages, actor : Actors \cup {Nobody},
                              generation : Generations, outcome : Outcomes, reason : Reasons]]
        /\ \A u \in Tasks \ {t} : request'[u] = request[u]
        /\ request'[t].pc = "dispatching"
        /\ request'[t].actor = request[t].actor
        /\ request'[t].generation = request[t].generation
        /\ request'[t].reason = request[t].reason
    BY <1>0, <2>2 DEF RequestsTyped, Stages
  <2>4. RequestsTyped' /\ Elsewhere(t)
    BY <1>0, <2>1, <2>3 DEF RequestsTyped, Elsewhere, DecisionTyped
  <2>5. PendingFits(t)'
    BY <1>0, <2>3 DEF Consistent, PendingFits, PC, ActorsOf
  <2>6. DispatchFits(t)' /\ AppliedFits(t)' /\ AnswerFits(t)'
    BY <1>0, <1>2, <2>3
       DEF Consistent, PendingFits, DispatchFits, AppliedFits, AnswerFits, Answered, PC,
           Phase, Queued
  <2>7. QED
    BY <2>4, <2>5, <2>6 DEF Preserved, Consistent
<1>3. QED
  BY <1>1, <1>2

\* A permission is recorded, and its request dispatches or queues.
LEMMA AllowPreserves ==
    ASSUME GatewayInv, TypeOK', NEW t \in Tasks, Allow(t)
    PROVE  Preserved(t)
<1>0. RequestsTyped /\ TypeOK
  BY DEF GatewayInv, RequestsInv, IInv
<1>1. PC(t) = "called" /\ t \notin applied
  BY CalledFits DEF Allow, PolicyRecorded
<1>2. DecisionTyped(t) /\ policyLog'[t] = "ALLOW"
  BY <1>0 DEF Allow, PolicyRecorded, RequestsTyped, Decisions, DecisionTyped
<1>3. Dispatching(t) /\ UNCHANGED session
  BY <1>1, PendingActor DEF Allow, Dispatching, DispatchAtOnce, DispatchQueues
<1>4. \A u \in Tasks \ {t} : dispatch'[u] = dispatch[u]
  BY <1>0, <1>3, DispatchElsewhere
<1>5. Phase(t)' = "idle" \/ dispatch'[t].actor = request[t].actor
  BY <1>0, EntryFits DEF Allow, DispatchAtOnce
<1>6. QED
  BY <1>1, <1>2, <1>3, <1>4, <1>5, Entered DEF Allow, session

\* The head of the queue is admitted, or refused and answered.
LEMMA WokenPreserves ==
    ASSUME GatewayInv, TypeOK', NEW t \in Tasks, Woken(t)
    PROVE  Preserved(t)
<1>0. RequestsTyped /\ TypeOK /\ Consistent(t)
  BY DEF GatewayInv, RequestsInv, IInv
\* The head of the queue is a task that waits.
<1>1. Queued(t)
  <2>1. 1 \in DOMAIN waiters /\ waiters[1] = t
    BY <1>0, TailQueue, LenProperties DEF GatewayInv, QueueInv, Woken, WokenDispatch, TypeOK
  <2>2. QED
    BY <2>1 DEF GatewayInv, QueueHoldsWaiters
<1>2. PC(t) = "dispatching" /\ t \notin applied /\ dispatch[t].actor = request[t].actor
  BY <1>0, <1>1 DEF Consistent, DispatchFits, AppliedFits, Queued
<1>3. DecisionTyped(t) /\ policyLog'[t] = "ALLOW"
  BY <1>0, <1>2 DEF Woken, RequestsTyped, DecisionTyped, Consistent, DispatchFits
<1>4. Dispatching(t) /\ UNCHANGED session
  BY DEF Woken, Dispatching, WokenDispatch
<1>5. \A u \in Tasks \ {t} : dispatch'[u] = dispatch[u]
  BY <1>0, <1>4, DispatchElsewhere
<1>6. Phase(t)' = "idle" \/ dispatch'[t].actor = request[t].actor
  BY <1>0, <1>2, EntryFits DEF Woken, WokenDispatch
<1>7. QED
  BY <1>2, <1>3, <1>4, <1>5, <1>6, Entered DEF Woken, session

\* After the surface's answer, whatever it was.
LEMMA SurfacePreserves ==
    ASSUME GatewayInv, NEW t \in Tasks, NEW outcome \in {"EXECUTED", "FAILED"},
           NEW reason \in SurfaceReasons,
           SurfaceAnswers(t, outcome, reason), outcome = "EXECUTED" => t \in applied
    PROVE  Preserved(t)
<1>0. RequestsTyped /\ TypeOK /\ Consistent(t)
  BY DEF GatewayInv, RequestsInv, IInv
<1>1. /\ Acting(t)
      /\ dispatch' = [dispatch EXCEPT ![t] = Idle]
      /\ UNCHANGED <<policyLog, applied>>
  BY DEF SurfaceAnswers, EndDispatch
<1>2. policyLog[t] = "ALLOW"
  BY <1>0, <1>1 DEF Consistent, DispatchFits, Acting
<1>3. Phase(t)' = "idle" /\ \A u \in Tasks \ {t} : dispatch'[u] = dispatch[u]
  BY <1>0, <1>1 DEF TypeOK, Idle, Phase
<1>4. /\ LostAfter(outcome) \in EvidenceLost \cap EarlyReasons
      /\ LostAfter(outcome) \notin Untouched
      /\ LostAfter(outcome) # "ABANDONED"
      /\ reason \notin Untouched /\ reason # "ABANDONED"
  BY DEF LostAfter, EvidenceLost, Untouched, EarlyReasons, SurfaceReasons
<1>5. Closes(t) /\ \/ Records(t, outcome, reason)
                   \/ request'[t].outcome = "FAILED" /\ request'[t].reason = LostAfter(outcome)
  BY <1>0, <1>4, RecordEffect DEF SurfaceAnswers, Outcomes, Reasons
<1>6. RequestsTyped' /\ Elsewhere(t)
  BY <1>0, <1>1, <1>3, <1>5 DEF RequestsTyped, Elsewhere, Closes
<1>7. AnswerFits(t)'
  BY <1>1, <1>4, <1>5 DEF AnswerFits, Answered, PC, Closes, Records
<1>8. PendingFits(t)' /\ DispatchFits(t)' /\ AppliedFits(t)'
  BY <1>1, <1>2, <1>3, <1>4, <1>5
     DEF PendingFits, DispatchFits, AppliedFits, PC, Phase, Queued, Closes, Records
<1>9. QED
  BY <1>6, <1>7, <1>8 DEF Preserved, Consistent

\* A cancelled request is abandoned; its action may be in flight still.
LEMMA CancelPreserves ==
    ASSUME GatewayInv, NEW t \in Tasks, CancelBeforeDispatch(t) \/ CancelInFlight(t)
    PROVE  Preserved(t)
<1>0. RequestsTyped /\ TypeOK /\ Consistent(t)
  BY DEF GatewayInv, RequestsInv, IInv
<1>1. CASE CancelBeforeDispatch(t)
  <2>1. /\ Answer(t, "FAILED", "CANCELLED")
        /\ UNCHANGED <<policyLog, actionLog, applied>>
    BY <1>1 DEF CancelBeforeDispatch, Cancelled, logs
  <2>2. ClosesEarly(t)
    BY <1>0, <2>1, AnswerEarly DEF Outcomes, EarlyReasons, Untouched
  <2>3. CASE PC(t) = "called" /\ UNCHANGED vars
    <3>1. /\ Phase(t)' = "idle" /\ t \notin applied'
          /\ \A u \in Tasks \ {t} : dispatch'[u] = dispatch[u]
      BY <2>1, <2>3, CalledFits DEF vars, lock, Phase
    <3>2. QED
      BY <1>0, <2>1, <2>2, <3>1, Settled
         DEF Preserved, RequestsTyped, Elsewhere, ClosesEarly, Closes
  <2>4. CASE CancelQueued(t)
    <3>1. /\ Phase(t)' = "idle" /\ t \notin applied'
          /\ \A u \in Tasks \ {t} : dispatch'[u] = dispatch[u]
      BY <1>0, <2>1, <2>4 DEF CancelQueued, Consistent, AppliedFits, TypeOK, Idle, Phase
    <3>2. QED
      BY <1>0, <2>1, <2>2, <3>1, Settled
         DEF Preserved, RequestsTyped, Elsewhere, ClosesEarly, Closes
  <2>5. QED
    BY <1>1, <2>3, <2>4 DEF CancelBeforeDispatch
<1>2. CASE CancelInFlight(t)
  <2>1. /\ Answer(t, "FAILED", "ABANDONED")
        /\ UNCHANGED <<policyLog, actionLog, applied>>
        /\ Acting(t)
        /\ dispatch' = [dispatch EXCEPT ![t] = Idle]
    BY <1>2 DEF CancelInFlight, Cancelled, EndDispatch, logs
  <2>2. Closes(t) /\ request'[t].outcome = "FAILED" /\ request'[t].reason = "ABANDONED"
    BY <1>0, <2>1, UnrecordedEffect DEF Outcomes, Reasons
  <2>3. Phase(t)' = "idle" /\ \A u \in Tasks \ {t} : dispatch'[u] = dispatch[u]
    BY <1>0, <2>1 DEF TypeOK, Idle, Phase
  <2>4. policyLog[t] = "ALLOW"
    BY <1>0, <2>1 DEF Consistent, DispatchFits, Acting
  <2>5. RequestsTyped' /\ Elsewhere(t)
    BY <1>0, <2>1, <2>2, <2>3 DEF RequestsTyped, Elsewhere, Closes
  <2>6. PendingFits(t)' /\ DispatchFits(t)' /\ AppliedFits(t)' /\ AnswerFits(t)'
    BY <2>1, <2>2, <2>3, <2>4 DEF PendingFits, DispatchFits, AppliedFits, AnswerFits, Answered,
       PC, Phase, Queued, Closes, Untouched
  <2>7. QED
    BY <2>5, <2>6 DEF Preserved, Consistent
<1>3. QED
  BY <1>1, <1>2

\* The browser brings the effect about.
LEMMA EffectPreserves ==
    ASSUME GatewayInv, NEW t \in Tasks, Effect(t)
    PROVE  Preserved(t)
<1>0. RequestsTyped /\ Consistent(t)
  BY DEF GatewayInv, RequestsInv
<1>1. /\ Acting(t) \/ request[t].reason = "ABANDONED"
      /\ applied' = applied \cup {t}
      /\ UNCHANGED <<control_generation, dispatch, request, policyLog, actionLog>>
  BY DEF Effect, vars, session, lock, logs
<1>2. policyLog[t] = "ALLOW" /\ ~ Queued(t) /\ PC(t) # "called"
  BY <1>0, <1>1 DEF Consistent, PendingFits, DispatchFits, Acting, Queued
<1>3. Answered(t) => request[t].reason = "ABANDONED"
  BY <1>0, <1>1 DEF Consistent, DispatchFits, Acting, Answered
<1>4. RequestsTyped' /\ Elsewhere(t)
  BY <1>0, <1>1 DEF RequestsTyped, Elsewhere
<1>5. PendingFits(t)' /\ DispatchFits(t)' /\ AppliedFits(t)'
  BY <1>0, <1>1, <1>2
     DEF Consistent, PendingFits, DispatchFits, AppliedFits, PC, Phase, Queued, ActorsOf
<1>6. AnswerFits(t)'
  BY <1>0, <1>1, <1>3 DEF Consistent, AnswerFits, Answered, PC, Untouched
<1>7. QED
  BY <1>4, <1>5, <1>6 DEF Preserved, Consistent

\* A call begins.
LEMMA CallPreserves ==
    ASSUME GatewayInv, NEW t \in Tasks, NEW a \in ActorsOf(t), NEW g \in 0 .. control_generation,
           Call(t, a, g)
    PROVE  Preserved(t)
<1>0. RequestsTyped /\ TypeOK /\ Consistent(t)
  BY DEF GatewayInv, RequestsInv, IInv
<1>1. a \in Actors /\ g \in Generations /\ control_generation \in Nat
  BY <1>0, SessionAssumption DEF ActorsOf, Actors, TypeOK, Generations
<1> DEFINE r == [NoRequest EXCEPT !.pc = "called", !.actor = a, !.generation = g]
<1>2. /\ PC(t) \in {"none", "answered"}
      /\ request' = [request EXCEPT ![t] = r]
      /\ policyLog' = [policyLog EXCEPT ![t] = "none"]
      /\ actionLog' = [actionLog EXCEPT ![t] = "none"]
      /\ applied' = applied \ {t}
      /\ UNCHANGED <<control_generation, dispatch>>
  BY DEF Call, vars, session, lock
<1>3. /\ r \in [pc : Stages, actor : Actors \cup {Nobody}, generation : Generations,
                outcome : Outcomes, reason : Reasons]
      /\ r.pc = "called" /\ r.actor = a /\ r.generation = g /\ r.reason = "none"
  <2>1. NoRequest \in [pc : Stages, actor : Actors \cup {Nobody}, generation : Nat,
                       outcome : Outcomes, reason : Reasons] /\ NoRequest.reason = "none"
    BY DEF NoRequest, Stages, Outcomes, Reasons, EarlyReasons
  <2>2. QED
    BY <1>1, <2>1 DEF Stages
<1> HIDE DEF r
<1>4. request'[t] = r /\ t \notin applied'
  BY <1>0, <1>2 DEF RequestsTyped
<1>5. RequestsTyped' /\ Elsewhere(t)
  BY <1>0, <1>2, <1>3 DEF RequestsTyped, Elsewhere, Decisions
<1>6. Phase(t) = "idle"
  BY <1>0, <1>2 DEF Consistent, DispatchFits
<1>7. PendingFits(t)' /\ AnswerFits(t)'
  BY <1>1, <1>2, <1>3, <1>4 DEF PendingFits, AnswerFits, Answered, PC, ActorsOf
<1>8. DispatchFits(t)' /\ AppliedFits(t)'
  BY <1>2, <1>3, <1>4, <1>6 DEF DispatchFits, AppliedFits, PC, Phase, Queued
<1>9. QED
  BY <1>5, <1>7, <1>8 DEF Preserved, Consistent

-----------------------------------------------------------------------------
(* The invariant *)

\* Before the first request the invariant holds.
LEMMA GatewayInitSafe == GatewayInit => GatewayInv
<1> SUFFICES ASSUME GatewayInit PROVE GatewayInv
  OBVIOUS
<1>1. IInv /\ QueueHoldsWaiters
  BY InitSafe, InitQueue DEF GatewayInit, QueueInv
<1>2. 0 \in Generations
  BY SessionAssumption DEF Generations
<1>3. RequestsTyped
  BY <1>2 DEF GatewayInit, NoRequest, RequestsTyped, Stages, Outcomes, Decisions, Reasons,
              EarlyReasons
<1>4. ASSUME NEW t \in Tasks PROVE Consistent(t)
  BY DEF GatewayInit, Init, NoRequest, Idle, Consistent, PendingFits, DispatchFits, AppliedFits,
         AnswerFits, Answered, PC, Phase, Queued
<1>5. QED
  BY <1>1, <1>3, <1>4 DEF GatewayInv, RequestsInv

\* Whatever a task's request does.
LEMMA TaskPreserves ==
    ASSUME GatewayInv, TypeOK', NEW t \in Tasks,
           \/ \E g \in 0 .. control_generation : \E a \in ActorsOf(t) : Call(t, a, g)
           \/ Serve(t) \/ Effect(t) \/ CancelBeforeDispatch(t) \/ CancelInFlight(t)
    PROVE  Preserved(t)
<1>1. CASE SurfaceApplied(t)
  BY <1>1, SurfacePreserves DEF SurfaceApplied, SurfaceReasons
<1>2. CASE SurfaceNotApplied(t)
  BY <1>2, SurfacePreserves DEF SurfaceNotApplied, SurfaceReasons
<1>3. CASE SurfaceRaises(t)
  BY <1>3, SurfacePreserves DEF SurfaceRaises, SurfaceReasons
<1>4. QED
  BY <1>1, <1>2, <1>3, EarlyAnswers, AllowPreserves, WokenPreserves, CancelPreserves,
     EffectPreserves, CallPreserves DEF Serve

\* The invariant is inductive.
LEMMA GatewayStepSafe == GatewayInv /\ [GatewayNext]_gatewayVars => GatewayInv'
<1> SUFFICES ASSUME GatewayInv, [GatewayNext]_gatewayVars PROVE GatewayInv'
  OBVIOUS
<1>1. [Next]_vars
  BY SessionStep
<1>2. IInv' /\ QueueHoldsWaiters'
  BY <1>1, StepSafe, StepKeepsQueue DEF GatewayInv, QueueInv, IInv
<1>3. TypeOK'
  BY <1>2 DEF IInv
<1>4. ASSUME NEW t \in Tasks, Preserved(t) PROVE RequestsInv'
  <2>1. ASSUME NEW u \in Tasks \ {t} PROVE Consistent(u)'
    BY <1>1, <1>4, Frame DEF Preserved, Elsewhere
  <2>2. QED
    BY <1>4, <2>1 DEF Preserved, RequestsInv
<1>5. CASE Handoffs \/ UNCHANGED gatewayVars
  <2>1. UNCHANGED <<request, policyLog, actionLog, applied, dispatch>>
    BY <1>5, ControlKeepsActions DEF Handoffs, gatewayVars, vars, lock, logs
  <2>2. RequestsTyped'
    BY <2>1 DEF GatewayInv, RequestsInv, RequestsTyped
  <2>3. ASSUME NEW u \in Tasks PROVE Consistent(u)'
    BY <1>1, <2>1, Frame
  <2>4. QED
    BY <1>2, <2>2, <2>3 DEF GatewayInv, RequestsInv
<1>6. CASE \E t \in Tasks : Preserved(t)
  BY <1>2, <1>4, <1>6 DEF GatewayInv
<1>7. QED
  BY <1>3, <1>5, <1>6, TaskPreserves DEF GatewayNext

\* The invariant holds.
LEMMA GatewayInvariance == GatewaySpec => []GatewayInv
BY GatewayInitSafe, GatewayStepSafe, PTL DEF GatewaySpec

\* Below both gateways the session keeps its own specification: whatever is requested, denied,
\* lost, cancelled or refused, every step is one of SessionControl's or none of its business.
THEOREM GatewaysKeepSession == GatewaySpec => Spec
<1>1. GatewayInit => Init
  BY DEF GatewayInit
<1>2. QED
  BY <1>1, GatewayInvariance, SessionStep, PTL DEF GatewaySpec, Spec

\* Hence the session keeps its abstract promise below both gateways: whatever they deny,
\* lose or cancel, a dispatch is the holder's, of the current term, and alone.
COROLLARY GatewaysKeepPromise == GatewaySpec => KeepsHandoffPromise
BY GatewaysKeepSession, ImplementsHandoff

\* Nothing touches the page for a request whose permission is not on record.
THEOREM EffectsPermitted == GatewaySpec => []EffectIsPermitted
<1>1. GatewayInv => EffectIsPermitted
  BY DEF GatewayInv, RequestsInv, RequestsTyped, Consistent, AppliedFits, EffectIsPermitted
<1>2. QED
  BY GatewayInvariance, <1>1, PTL

\* An answer promises an effect, or an untouched page, only where that is so.
THEOREM AnswersTruthful == GatewaySpec => []AnswerIsTruthful
<1>1. GatewayInv => AnswerIsTruthful
  BY DEF GatewayInv, RequestsInv, Consistent, AnswerFits, AnswerIsTruthful
<1>2. QED
  BY GatewayInvariance, <1>1, PTL

\* Every effect is on record, or its answer names the loss of the record, or its caller was
\* cancelled.
THEOREM EffectsAccounted == GatewaySpec => []EffectIsAccounted
<1>1. GatewayInv => EffectIsAccounted
  BY DEF GatewayInv, RequestsInv, RequestsTyped, Consistent, AnswerFits, EffectIsAccounted
<1>2. QED
  BY GatewayInvariance, <1>1, PTL

\* Only Effect brings an effect about.
LEMMA OnlyEffectApplies ==
    ASSUME [GatewayNext]_gatewayVars, NEW t \in applied' \ applied
    PROVE  Acting(t) \/ request[t].reason = "ABANDONED"
BY DEF GatewayNext, Call, Serve, Unbound, NoScope, ElementUnbound, NotObserved, OutOfScope,
       DecisionNotRecorded, Deny, AskApproval, Denied, Allow, Woken, SurfaceApplied,
       SurfaceNotApplied, SurfaceRaises, SurfaceAnswers, Effect, CancelBeforeDispatch,
       CancelInFlight, Cancelled, Handoffs, gatewayVars

\* An effect is brought about for the session's owner of that moment, one at a time, except
\* that of an action whose caller was cancelled.
THEOREM EffectsAreTheOwners == GatewaySpec => EffectIsTheOwners
<1>1. ASSUME GatewayInv, GatewayInv', [GatewayNext]_gatewayVars, NEW t \in applied' \ applied,
             request[t].reason # "ABANDONED"
      PROVE  /\ request[t].actor = owner
             /\ \A u \in Tasks \ {t} : ~ Acting(u)
  <2>1. Acting(t) /\ t \in Tasks
    BY <1>1, OnlyEffectApplies DEF GatewayInv, RequestsInv, RequestsTyped
  <2>2. request[t].actor = dispatch[t].actor
    BY <1>1, <2>1 DEF GatewayInv, RequestsInv, Consistent, DispatchFits, Acting
  <2>3. dispatch[t].actor = owner /\ \A u \in Tasks : Acting(u) => u = t
    BY <1>1, <2>1 DEF GatewayInv, IInv, InFlightBelongsToOwner, OneInFlight, InFlight
  <2>4. QED
    BY <2>2, <2>3
<1>2. GatewayInv /\ GatewayInv' /\ [GatewayNext]_gatewayVars =>
        [\A t \in applied' \ applied : request[t].reason # "ABANDONED" =>
             /\ request[t].actor = owner
             /\ \A u \in Tasks \ {t} : ~ Acting(u)]_gatewayVars
  BY <1>1
<1>3. QED
  BY GatewayInvariance, <1>2, PTL DEF GatewaySpec, EffectIsTheOwners
=============================================================================
