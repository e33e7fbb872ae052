-------------------------- MODULE BrowserDiscovery --------------------------
(***************************************************************************)
(* BrowserDiscovery: one bounded loop that observes the page, asks the     *)
(* model what to do, and acts on an element reference or proves the goal   *)
(* reached, on the adapter and the moving page of SurfaceObservation.      *)
(*                                                                         *)
(* The model's answer is any decision of the contract: the loop trusts     *)
(* none of it.  A reference is resolved by the loop, again by the gateway  *)
(* and again by the adapter's perform_action; what the gateway does        *)
(* between the last two (policy, evidence, dispatch: see ActionGateway)    *)
(* is one choice here.                                                     *)
(***************************************************************************)
EXTENDS SurfaceObservation

CONSTANTS
    Inputs,        \* the inputs goal_inputs finds in the goal
    ValueOf,       \* the text each of them stands for
    RowOf,         \* the text that identifies the row a name is in
    GoalContexts,  \* the row texts that the goal names
    NoText,        \* the absence of a text
    NoInput,       \* the input of a click, or one the goal does not have
    MaxTurns,      \* min(max_steps, 12)
    MaxActions,    \* 8
    MaxEvidence    \* 8, the references a completion may come to

ASSUME DiscoveryAssumption ==
    /\ ValueOf \in [Inputs -> Texts \ {NoText}]
    /\ RowOf \in [Names -> Texts]
    /\ NoText \in Texts /\ NoInput \notin Inputs
    /\ GoalContexts \subseteq Texts \ {NoText}
    /\ MaxTurns \in Nat /\ MaxActions \in Nat /\ MaxEvidence \in Nat

MaxInvalid == 2
MaxUnchanged == 2

VARIABLE loop    \* the discovery: its place, counters, decision and result

discoveryVars == <<surfaceVars, loop>>

NoDecision == [kind |-> "none", ref |-> [generation |-> 0, name |-> "none"], input |-> NoInput,
               identity |-> Unseen]

BrowserInit ==
    /\ SurfaceInit
    /\ loop = [pc |-> "turn", turn |-> 0, actions |-> 0, invalid |-> 0, unchanged |-> 0,
               fingerprint |-> {}, previous |-> {}, decision |-> NoDecision, pending |-> {},
               targets |-> Unseen, selected |-> {}, outcome |-> "none", reason |-> "none"]

-----------------------------------------------------------------------------
(* Ways out, and back to the next turn *)

Ended(l, outcome, reason) ==
    [l EXCEPT !.pc = "done", !.outcome = outcome, !.reason = reason, !.decision = NoDecision]

Failed(l, reason) ==
    Ended(l, IF reason = "RAISED" THEN "RAISED"
             ELSE IF reason \in {"ACTION_EFFECT_OCCURRED_EVIDENCE_FAILED", "APPROVAL_REQUIRED"}
             THEN "INTERVENTION_REQUIRED" ELSE "FAILED", reason)

Fail(reason) == loop' = Failed(loop, reason)
NextTurn(l) == [l EXCEPT !.pc = "turn", !.decision = NoDecision]

\* A second invalid answer in the whole discovery ends it.
Invalid(reason) ==
    loop' = IF loop.invalid + 1 >= MaxInvalid
            THEN Failed([loop EXCEPT !.invalid = @ + 1], reason)
            ELSE NextTurn([loop EXCEPT !.invalid = @ + 1])

At(pc) == loop.pc = pc /\ call.pc = "idle"
Still == UNCHANGED surfaceVars

-----------------------------------------------------------------------------
(* Observing *)

StartTurn ==
    /\ At("turn")
    /\ IF loop.turn = MaxTurns
       THEN Fail("DISCOVERY_LIMIT_REACHED") /\ Still
       ELSE /\ loop' = [loop EXCEPT !.pc = "observing", !.turn = @ + 1]
            /\ BeginObserve

ObservationFails ==
    /\ At("observing")
    /\ call.result # "OBSERVED"
    /\ Fail(call.result)
    /\ Still

Fingerprint == {[n \in DOMAIN surface.seen |-> surface.seen[n].text]}

Observed ==
    LET unchanged == IF loop.fingerprint = Fingerprint THEN loop.unchanged + 1 ELSE 0
        next == [loop EXCEPT !.unchanged = unchanged, !.fingerprint = Fingerprint]
    IN  /\ At("observing")
        /\ call.result = "OBSERVED"
        /\ loop' = IF unchanged >= MaxUnchanged
                   THEN Failed(next, "NO_PROGRESS")
                   ELSE [next EXCEPT !.pc = "thinking"]
        /\ Still

-----------------------------------------------------------------------------
(* The model's answer *)

\* The client fails; or the request does not fit the budget, which nothing here catches.
ModelFails ==
    /\ At("thinking")
    /\ Fail("MODEL_ERROR") \/ Fail("RAISED")
    /\ Still

Declines == At("thinking") /\ Fail("DECLINED") /\ Still
Inspects == At("thinking") /\ loop' = NextTurn(loop) /\ Still

\* No decision of the contract, or one about another observation.
Misanswers == At("thinking") /\ Invalid("INVALID") /\ Still

ActionsLeft == loop.actions < MaxActions

\* A fill or a click of a referenced element.
Proposes(kind, ref, input) ==
    /\ At("thinking")
    /\ kind = "click" => input = NoInput
    /\ IF ~ ActionsLeft
       THEN Fail("DISCOVERY_LIMIT_REACHED") /\ Still
       ELSE /\ loop' = [loop EXCEPT !.pc = "resolving", !.decision =
                   [kind |-> kind, ref |-> ref, input |-> input, identity |-> Unseen]]
            /\ BeginResolve(surface.generation, ref)

-----------------------------------------------------------------------------
(* An action *)

Resolution(pc, result) == At(pc) /\ call.result = result /\ Still

ResolutionFails ==
    /\ loop.pc \in {"resolving", "checking"}
    /\ call.pc = "idle"
    /\ call.result # "RESOLVED"
    /\ Fail(call.result)
    /\ Still

Chosen == loop.decision.ref.name
Kind(n) == IF n \in Fillable THEN "fill" ELSE IF n \in Clickable THEN "click" ELSE "none"
Typed == {ValueOf[i] : i \in DOMAIN loop.targets}

\* compile_binding: a row that an input identifies is bound to the input, not to its text.
Target(n) == <<n, RowOf[n] \in Typed>>
Proposal == <<Target(Chosen), loop.decision.input>>

\* Of another kind, or filling what the goal does not say.  (A binding that holds an input's
\* value is refused likewise; names of controls are not texts here.)
Unacceptable ==
    \/ Kind(Chosen) # loop.decision.kind
    \/ loop.decision.kind = "fill" /\ loop.decision.input \notin Inputs

RefuseProposal ==
    /\ Resolution("resolving", "RESOLVED")
    /\ \/ Unacceptable /\ Invalid("INVALID")
       \/ Kind(Chosen) = loop.decision.kind /\ {Proposal} = loop.previous /\ Invalid("NO_PROGRESS")

\* The gateway resolves the reference for itself before anything else.
SubmitToGateway ==
    /\ At("resolving")
    /\ call.result = "RESOLVED"
    /\ ~ Unacceptable
    /\ {Proposal} # loop.previous
    /\ loop' = [loop EXCEPT !.pc = "gateway"]
    /\ BeginResolve(surface.generation, loop.decision.ref)

Counted == [loop EXCEPT !.actions = @ + 1]

\* Variant: only an executed action is counted.
GatewayFailsUncounted(reason) == loop' = Failed(loop, reason) /\ Still

GatewayFails(reason) == loop' = Failed(Counted, reason) /\ Still

GatewayRefuses ==
    /\ At("gateway")
    /\ IF call.result = "RESOLVED"
       THEN GatewayFails("POLICY_DENIED") \/ GatewayFails("REFUSED")
       ELSE GatewayFails(IF call.result \in Refusals THEN call.result ELSE "STALE_ELEMENT_REF")
              \/ GatewayFails("REFUSED")

GatewayDispatches ==
    /\ At("gateway")
    /\ call.result = "RESOLVED"
    /\ loop' = [loop EXCEPT !.pc = "acting"]
    /\ BeginPerform(surface.generation, loop.decision.ref)

\* What an executed action leaves: a click in a row its text alone identifies selects that
\* row; a fill binds its input to the element.
Executed ==
    LET row == RowOf[Chosen]
    IN  /\ At("acting")
        /\ call.result = "APPLIED"
        /\ loop' = NextTurn([Counted EXCEPT
               !.previous = {Proposal},
               !.selected = IF loop.decision.kind = "click" /\ row \notin Typed \cup {NoText}
                            THEN @ \cup {row} ELSE @,
               !.targets = IF loop.decision.kind = "fill"
                           THEN Updated(@, [i \in {loop.decision.input} |-> Target(Chosen)])
                           ELSE @])
        /\ Still

ActionNotExecuted ==
    /\ At("acting")
    /\ IF call.result = "APPLIED"
       THEN GatewayFails("ACTION_EFFECT_OCCURRED_EVIDENCE_FAILED")
       ELSE GatewayFails("NOT_APPLIED") \/ GatewayFails("POST_ACTION_EVIDENCE_FAILED")

-----------------------------------------------------------------------------
(* Completion *)

Evidence(n) == n \in DOMAIN surface.seen /\ n \notin Fillable \cup Clickable
Unique(n) == Cardinality(surface.seen[n].nodes) = 1

\* The elements that show a selected row's text.
Showing(t) == {n \in DOMAIN surface.seen :
                  Evidence(n) /\ Unique(n) /\ surface.seen[n].text = t}

\* The cited, the identifying and the context elements: all are to be resolved.
Cited(evidence, identity) ==
    evidence \cup {identity[i] : i \in DOMAIN identity}
        \cup UNION {Showing(t) : t \in loop.selected}

Admissible(evidence, identity) ==
    /\ \A t \in loop.selected : t \in GoalContexts /\ Cardinality(Showing(t)) = 1
    /\ Cardinality(Cited(evidence, identity)) <= MaxEvidence
    /\ DOMAIN identity = DOMAIN loop.targets
    /\ DOMAIN loop.targets = Inputs
    /\ loop.actions > 0

Completes(generation, evidence, identity) ==
    /\ At("thinking")
    /\ IF Admissible(evidence, identity)
       THEN loop' = [loop EXCEPT !.pc = "proving", !.pending = Cited(evidence, identity),
                !.decision = [kind |-> "complete", input |-> NoInput, identity |-> identity,
                              ref |-> [generation |-> generation, name |-> "none"]]]
       ELSE Invalid("INVALID")
    /\ Still

ResolveEvidence(n) ==
    /\ At("proving")
    /\ n \in loop.pending
    /\ loop' = [loop EXCEPT !.pc = "checking"]
    /\ BeginResolve(surface.generation, [loop.decision.ref EXCEPT !.name = n])

\* Variant: an identity need only be displayed.
IdentifiedAnyhow == \A i \in Inputs : surface.seen[loop.decision.identity[i]].text # NoText

Identified == \A i \in Inputs : surface.seen[loop.decision.identity[i]].text = ValueOf[i]

\* Evidence that can be acted on or says nothing proves nothing.  After the last piece the
\* identities are compared; the package may still not compile, or yield no output.
EvidenceResolved ==
    LET n == call.ref.name
        left == loop.pending \ {n}
    IN  /\ Resolution("checking", "RESOLVED")
        /\ IF ~ Evidence(n) \/ surface.seen[n].text = NoText
           THEN Invalid("INVALID")
           ELSE IF left # {}
           THEN loop' = [loop EXCEPT !.pc = "proving", !.pending = left]
           ELSE IF ~ Identified
           THEN Invalid("WRONG_ENTITY")
           ELSE \/ Invalid("INVALID")
                \/ loop' = [loop EXCEPT !.pc = "done", !.pending = {},
                                        !.outcome = "SUCCESS", !.reason = "COMPLETED"]

-----------------------------------------------------------------------------
\* The time limit strikes at any await; what the browser was given goes on.
TimesOut ==
    /\ loop.pc \notin {"turn", "done"}
    /\ Fail("DISCOVERY_TIMEOUT")
    /\ Abandon

References ==
    [generation : {surface.generation - 1, surface.generation, surface.generation + 1},
     name : Names]
Identities == UNION {[known -> Names] : known \in SUBSET Inputs}

Answers ==
    \/ ModelFails
    \/ Declines
    \/ Inspects
    \/ Misanswers
    \/ \E kind \in {"fill", "click"}, ref \in References, input \in Inputs \cup {NoInput} :
           Proposes(kind, ref, input)
    \/ \E generation \in {surface.generation - 1, surface.generation},
          evidence \in SUBSET Names, identity \in Identities :
           Completes(generation, evidence, identity)

Advance ==
    \/ StartTurn
    \/ ObservationFails
    \/ Observed
    \/ Answers
    \/ ResolutionFails
    \/ RefuseProposal
    \/ SubmitToGateway
    \/ GatewayRefuses
    \/ GatewayDispatches
    \/ Executed
    \/ ActionNotExecuted
    \/ \E n \in Names : ResolveEvidence(n)
    \/ EvidenceResolved

BrowserNext ==
    \/ Advance
    \/ Adapter /\ UNCHANGED loop
    \/ PageChanges /\ UNCHANGED loop
    \/ TimesOut

\* The model's client and the adapter's waits have time limits of their own; the browser is
\* assumed to answer the short reads that have none (title, evaluate, count, is_visible).
BrowserFairness == WF_discoveryVars(Advance) /\ WF_discoveryVars(Adapter /\ UNCHANGED loop)

BrowserSpec == BrowserInit /\ [][BrowserNext]_discoveryVars
FairBrowserSpec == BrowserSpec /\ BrowserFairness

-----------------------------------------------------------------------------
(* Properties *)

\* SUCCESS rests on evidence: every input of the goal was typed by an executed action and is
\* shown as the identity of the page observed last, every row selected on the way is one the
\* goal names and is shown there too, and no effect is unaccounted for.
SuccessIsGrounded ==
    loop.outcome = "SUCCESS" =>
        /\ \A i \in Inputs :
               /\ i \in DOMAIN loop.targets
               /\ \E n \in DOMAIN surface.seen :
                      Evidence(n) /\ Unique(n) /\ surface.seen[n].text = ValueOf[i]
        /\ \A t \in loop.selected : t \in GoalContexts /\ Showing(t) # {}
        /\ effects = loop.actions /\ effects > 0

\* The reported number of actions keeps within its limit and is the number of effects, but
\* for one: an action in flight, which the time limit leaves out of the count for good.
EffectsAreCounted ==
    /\ loop.actions <= MaxActions
    /\ effects <= loop.actions + 1
    /\ effects > loop.actions => loop.pc = "acting" \/ loop.reason = "DISCOVERY_TIMEOUT"

\* The discovery ends by its own limits, without the help of the time limit.
DiscoveryEnds == <>(loop.pc = "done")
=============================================================================
