--------------------------- MODULE ActionGateway ----------------------------
(***************************************************************************)
(* The two gateways every surface action passes: ActionGateway for         *)
(* automation and OperatorActionGateway for the operator, on the session   *)
(* of SessionControl.                                                      *)
(*                                                                         *)
(* A request is bound to its target and, for automation with a browser     *)
(* scope, inspected on the page (an await); policy decides and its         *)
(* decision is recorded; an allowed action goes through protected dispatch *)
(* to the surface; what came of it is recorded and answered.  Writing      *)
(* evidence may raise at each record.  The surface brings the effect about *)
(* at some moment of the dispatch, or not at all, and its answer need not  *)
(* tell: only APPLIED proves the effect.                                   *)
(***************************************************************************)
EXTENDS SessionControl

CONSTANTS
    Console,      \* the tasks that use the operator's gateway
    MaxFaults     \* how often writing evidence may fail

ASSUME GatewayAssumption ==
    /\ Console \subseteq Tasks
    /\ MaxFaults \in Nat

\* Reason codes; REFUSED stands for the controller's error codes, OUT_OF_SCOPE for
\* POLICY_DENIED, NOT_APPLIED for the surface outcomes other than APPLIED.
Untouched ==
    {"TARGET_BINDING_NOT_FOUND", "OUT_OF_SCOPE", "ACTION_NOT_ALLOWED", "APPROVAL_REQUIRED",
     "REFUSED", "CANCELLED", "EVIDENCE_PRE_ACTION_FAILED"}
EvidenceLost == {"ACTION_EFFECT_OCCURRED_EVIDENCE_FAILED", "POST_ACTION_EVIDENCE_FAILED"}

VARIABLES
    request,      \* what each task asked and what it was answered
    policyLog,    \* the policy decision recorded for each request
    actionLog,    \* the outcome recorded for each request
    applied,      \* tasks whose action has taken effect on the surface
    faults        \* evidence failures so far

logs == <<policyLog, actionLog>>
gatewayVars == <<vars, request, logs, applied, faults>>

PC(t) == request[t].pc
Answered(t) == PC(t) = "answered"
ActorsOf(t) == IF t \in Console THEN Operators ELSE {Run}
NoRequest ==
    [pc |-> "none", actor |-> Nobody, generation |-> 0, outcome |-> "FAILED", reason |-> "none"]

GatewayInit ==
    /\ Init
    /\ request = [t \in Tasks |-> NoRequest]
    /\ policyLog = [t \in Tasks |-> "none"]
    /\ actionLog = [t \in Tasks |-> "none"]
    /\ applied = {}
    /\ faults = 0

-----------------------------------------------------------------------------
(* Evidence and answers *)

EvidenceFails == faults < MaxFaults /\ faults' = faults + 1

Answer(t, outcome, reason) ==
    request' = [request EXCEPT ![t].pc = "answered", ![t].outcome = outcome, ![t].reason = reason]

\* What is answered when an outcome's own record is lost.  The operator's gateway does not
\* tell a request it never dispatched from one it did.
LostBefore(t) ==
    IF t \in Console THEN "POST_ACTION_EVIDENCE_FAILED" ELSE "EVIDENCE_PRE_ACTION_FAILED"

\* Variant: the reply is the surface's even when its record is lost.
LostAfterSilently(outcome) == "NOT_APPLIED"

LostAfter(outcome) ==
    IF outcome = "EXECUTED"
    THEN "ACTION_EFFECT_OCCURRED_EVIDENCE_FAILED"
    ELSE "POST_ACTION_EVIDENCE_FAILED"

\* Record the outcome, then answer it; answer the loss if the record fails.
RecordAndAnswer(t, outcome, reason, lost) ==
    \/ /\ actionLog' = [actionLog EXCEPT ![t] = outcome]
       /\ Answer(t, outcome, reason)
       /\ UNCHANGED faults
    \/ /\ EvidenceFails
       /\ Answer(t, "FAILED", lost)
       /\ UNCHANGED actionLog

-----------------------------------------------------------------------------
(* Before dispatch *)

\* A new request of a task, under a generation its caller read earlier.
Call(t, a, g) ==
    /\ PC(t) \in {"none", "answered"}
    /\ request' = [request EXCEPT ![t] =
           [NoRequest EXCEPT !.pc = "called", !.actor = a, !.generation = g]]
    /\ policyLog' = [policyLog EXCEPT ![t] = "none"]
    /\ actionLog' = [actionLog EXCEPT ![t] = "none"]
    /\ applied' = applied \ {t}
    /\ UNCHANGED <<vars, faults>>

\* No trusted binding, or a reference to an element of an older page.
Unbound(t) ==
    /\ PC(t) = "called"
    /\ RecordAndAnswer(t, "FAILED", "TARGET_BINDING_NOT_FOUND", LostBefore(t))
    /\ UNCHANGED <<vars, policyLog, applied>>

\* Discovery only (execute_observed): without a browser scope, or for an element that has no
\* binding, the request is answered and nothing is recorded.
NotObserved(t, outcome, reason) ==
    /\ PC(t) = "called"
    /\ t \notin Console
    /\ Answer(t, outcome, reason)
    /\ UNCHANGED <<vars, logs, applied, faults>>

NoScope(t) == NotObserved(t, "DENIED", "OUT_OF_SCOPE")
ElementUnbound(t) == NotObserved(t, "FAILED", "TARGET_BINDING_NOT_FOUND")

\* Automation only: the element on the page is outside the browser scope.
OutOfScope(t) ==
    /\ PC(t) = "called"
    /\ t \notin Console
    /\ RecordAndAnswer(t, "DENIED", "OUT_OF_SCOPE", "EVIDENCE_PRE_ACTION_FAILED")
    /\ UNCHANGED <<vars, policyLog, applied>>

\* The policy's decision could not be recorded: nothing more is tried.
DecisionNotRecorded(t) ==
    /\ PC(t) = "called"
    /\ EvidenceFails
    /\ Answer(t, "FAILED", "EVIDENCE_PRE_ACTION_FAILED")
    /\ UNCHANGED <<vars, logs, applied>>

PolicyRecorded(t, d) ==
    /\ PC(t) = "called"
    /\ policyLog' = [policyLog EXCEPT ![t] = d]

\* Automation answers a denial at once, its decision being recorded; the operator's
\* gateway records the answer too.
Denied(t, d, outcome, reason) ==
    /\ PolicyRecorded(t, d)
    /\ IF t \in Console
       THEN RecordAndAnswer(t, outcome, reason, LostBefore(t))
       ELSE Answer(t, outcome, reason) /\ UNCHANGED <<actionLog, faults>>
    /\ UNCHANGED <<vars, applied>>

Deny(t) == Denied(t, "DENY", "DENIED", "ACTION_NOT_ALLOWED")
AskApproval(t) == Denied(t, "REQUIRE_APPROVAL", "APPROVAL_REQUIRED", "APPROVAL_REQUIRED")

-----------------------------------------------------------------------------
(* Dispatch *)

\* After the lock: a refused request is recorded and answered, any other waits or acts.
AfterEntry(t) ==
    IF dispatch'[t].phase = "idle"
    THEN RecordAndAnswer(t, "FAILED", "REFUSED", LostBefore(t))
    ELSE request' = [request EXCEPT ![t].pc = "dispatching"] /\ UNCHANGED <<actionLog, faults>>

\* Variant: the dispatch goes ahead although the decision's record was lost.
AllowUnrecorded(t) ==
    /\ PC(t) = "called"
    /\ UNCHANGED policyLog
    /\ \/ DispatchAtOnce(t, request[t].actor, request[t].generation)
       \/ DispatchQueues(t, request[t].actor, request[t].generation)
    /\ AfterEntry(t)
    /\ UNCHANGED applied

\* Allowed and recorded: the request asks for the dispatch lock in the same step.
Allow(t) ==
    /\ PolicyRecorded(t, "ALLOW")
    /\ \/ DispatchAtOnce(t, request[t].actor, request[t].generation)
       \/ DispatchQueues(t, request[t].actor, request[t].generation)
    /\ AfterEntry(t)
    /\ UNCHANGED applied

Woken(t) ==
    /\ WokenDispatch(t)
    /\ AfterEntry(t)
    /\ UNCHANGED <<policyLog, applied>>

\* The page takes the action.  The browser goes on with an action whose caller was
\* cancelled, after the lock is free again.
Effect(t) ==
    /\ Acting(t) \/ request[t].reason = "ABANDONED"
    /\ t \notin applied
    /\ applied' = applied \cup {t}
    /\ UNCHANGED <<vars, request, logs, faults>>

\* The lock is released and the answer recorded in one step.
SurfaceAnswers(t, outcome, reason) ==
    /\ EndDispatch(t)
    /\ RecordAndAnswer(t, outcome, reason, LostAfter(outcome))
    /\ UNCHANGED <<policyLog, applied>>

\* Variant: any answer of the surface counts as executed.
SurfaceAppliedAnyhow(t) == SurfaceAnswers(t, "EXECUTED", "APPLIED")

SurfaceApplied(t) == t \in applied /\ SurfaceAnswers(t, "EXECUTED", "APPLIED")

\* Not found, ambiguous, not actionable or timed out: a click that timed out, or whose page
\* could not be observed afterwards, has taken effect all the same.
SurfaceNotApplied(t) == SurfaceAnswers(t, "FAILED", "NOT_APPLIED")
SurfaceRaises(t) == SurfaceAnswers(t, "FAILED", "SURFACE_ADAPTER_ERROR")

\* Discovery's time limit cancels an automation request: no handler catches it, so nothing
\* is recorded and nothing answered, whether or not the action had begun.
Cancelled(t, reason) ==
    /\ t \notin Console
    /\ PC(t) \in {"called", "dispatching"}
    /\ Answer(t, "FAILED", reason)
    /\ UNCHANGED <<logs, applied, faults>>

CancelBeforeDispatch(t) ==
    /\ Cancelled(t, "CANCELLED")
    /\ \/ PC(t) = "called" /\ UNCHANGED vars
       \/ CancelQueued(t)

CancelInFlight(t) == Cancelled(t, "ABANDONED") /\ EndDispatch(t)

-----------------------------------------------------------------------------
\* What happens to a request once it is called.
Serve(t) ==
    \/ Unbound(t)
    \/ NoScope(t)
    \/ ElementUnbound(t)
    \/ OutOfScope(t)
    \/ DecisionNotRecorded(t)
    \/ Deny(t)
    \/ AskApproval(t)
    \/ Allow(t)
    \/ Woken(t)
    \/ SurfaceApplied(t)
    \/ SurfaceNotApplied(t)
    \/ SurfaceRaises(t)

Handoffs == Control /\ UNCHANGED <<request, logs, applied, faults>>

GatewayNext ==
    \/ \E t \in Tasks, g \in 0 .. control_generation : \E a \in ActorsOf(t) : Call(t, a, g)
    \/ \E t \in Tasks : Serve(t) \/ Effect(t) \/ CancelBeforeDispatch(t) \/ CancelInFlight(t)
    \/ Handoffs

\* A request goes on: the surface's waits have a time limit, and the browser is assumed to
\* answer the short reads around an action, which have none.
GatewayFairness == \A t \in Tasks : WF_gatewayVars(Serve(t))

GatewaySpec == GatewayInit /\ [][GatewayNext]_gatewayVars
FairGatewaySpec == GatewaySpec /\ GatewayFairness

-----------------------------------------------------------------------------
(* Properties *)

\* Nothing touches the page for a request whose permission is not on record.
EffectIsPermitted == \A t \in applied : policyLog[t] = "ALLOW"

\* Whoever waits, is handed over or is stopped, an effect is brought about only for the
\* session's owner of that moment, and one at a time: all but that of an action whose
\* caller was cancelled, which no lock holds back.
EffectIsTheOwners ==
    [][\A t \in applied' \ applied : request[t].reason # "ABANDONED" =>
           /\ request[t].actor = owner
           /\ \A u \in Tasks \ {t} : ~ Acting(u)]_gatewayVars

\* An answer says what is known: EXECUTED only for an effect that is also on record, and the
\* reasons that promise an untouched page (approval's NOT_EXECUTED checkpoint among them)
\* only for one.
AnswerIsTruthful ==
    \A t \in Tasks : Answered(t) =>
        /\ request[t].outcome = "EXECUTED" => t \in applied /\ actionLog[t] = "EXECUTED"
        /\ request[t].reason \in Untouched => t \notin applied

\* No effect goes unaccounted for: unless its request was cancelled, it is on record or its
\* answer names the loss of the record.
EffectIsAccounted ==
    \A t \in applied : Answered(t) =>
        \/ actionLog[t] # "none"
        \/ request[t].reason \in EvidenceLost \cup {"ABANDONED"}

\* Every request is answered, through the lock, the handoffs and the failures of evidence.
RequestIsAnswered == \A t \in Tasks : PC(t) = "called" ~> Answered(t)

\* The operator gateway's own summary for POST_ACTION_EVIDENCE_FAILED: "Operator dispatch
\* completed but action evidence could not be recorded."
LossAfterDispatchOnly ==
    \A t \in Tasks :
        Answered(t) /\ request[t].reason \in EvidenceLost => policyLog[t] = "ALLOW"
=============================================================================
