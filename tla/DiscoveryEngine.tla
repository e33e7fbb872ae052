-------------------------- MODULE DiscoveryEngine ---------------------------
(***************************************************************************)
(* DiscoveryEngine on an application with a trusted profile: a bounded     *)
(* loop that collects a snapshot, asks the model, and dispatches an action *)
(* or accepts a completion.                                                *)
(*                                                                         *)
(* The snapshot is collected target by target with awaits in between, and  *)
(* a target's text is awaited after it was found visible.  The page        *)
(* changes whenever it likes: a snapshot may show a page that never was.   *)
(* Dispatch is ActionGateway's; here it is one choice among the answers    *)
(* that module allows.                                                     *)
(***************************************************************************)
EXTENDS Naturals, FiniteSets, Sequences

CONSTANTS
    Targets,       \* the semantic targets the profile binds
    Stranger,      \* a target outside the profile
    Texts,         \* the texts that are told apart
    GoalTexts,     \* those that occur in the goal
    NotVisible,    \* the observation of a target that is not visible
    Unavailable,   \* the observation of a target that is ambiguous or cannot be inspected
    NoText,        \* the value of a click, and of an element that has no text
    RequiredSets,  \* the completion targets a caller may require
    MaxTurns,      \* min(max_steps, 12)
    MaxActions,    \* 8
    MaxChanges     \* bound: how often the page changes

MaxInvalid == 2

\* What a target's locator finds: nothing, several elements, or one, visible or not.
Element(state, text) == [state |-> state, text |-> text]
Absent == Element("ABSENT", NoText)
Shows ==
    {Absent, Element("SEVERAL", NoText)}
        \cup {Element(state, x) : state \in {"VISIBLE", "HIDDEN"}, x \in Texts \cup {NoText}}

\* A visible target is observed by its text.
Observations == Texts \cup {NoText, NotVisible, Unavailable}

ASSUME EngineAssumption ==
    /\ GoalTexts \subseteq Texts
    /\ Stranger \notin Targets
    /\ {NotVisible, Unavailable, NoText} \cap Texts = {}
    /\ \A r \in RequiredSets : r \subseteq Targets \cup {Stranger}
    /\ MaxTurns \in Nat /\ MaxActions \in Nat /\ MaxChanges \in Nat

VARIABLES
    page,       \* what each target's locator finds
    changes,    \* how often the page changed
    shown,      \* the texts each target has had since it was first visible in this turn
    found,      \* the target that was found visible and whose text is awaited, if any
    snapshot,   \* what was collected of the page so far
    filled,     \* executed_goal_values: the goal's texts that executed fills typed
    log,        \* each dispatched proposal, the snapshot it was made on, and the answer
    run         \* the loop: its place, counters, last proposal and result

engineVars == <<page, changes, shown, found, snapshot, filled, log, run>>

NoMemory == [proposal |-> << >>, snapshot |-> << >>]

\* A text counts as shown once its element is visible, and from then on.
Exposed(texts, element) ==
    IF \/ element.state = "VISIBLE"
       \/ element.state = "HIDDEN" /\ texts # {}
    THEN texts \cup {element.text} ELSE texts

EngineInit ==
    /\ page = [t \in Targets |-> Absent]
    /\ changes = 0
    /\ shown = [t \in Targets |-> {}]
    /\ found = {}
    /\ snapshot = << >>
    /\ filled = << >>
    /\ log = << >>
    /\ \E required \in RequiredSets :
           run = [pc |-> "start", required |-> required, turn |-> 0, actions |-> 0,
                  invalid |-> 0, previous |-> NoMemory, proposal |-> << >>,
                  verified |-> << >>, outcome |-> "none", reason |-> "none"]

-----------------------------------------------------------------------------
\* A dictionary with an entry more, or another value of it.
With(entries, key, value) ==
    [k \in DOMAIN entries \cup {key} |-> IF k = key THEN value ELSE entries[k]]

PageChanges(t, show) ==
    /\ changes < MaxChanges
    /\ changes' = changes + 1
    /\ page' = [page EXCEPT ![t] = show]
    /\ shown' = [shown EXCEPT ![t] = Exposed(@, show)]
    /\ UNCHANGED <<found, snapshot, filled, log, run>>

Ended(r, outcome, reason) == [r EXCEPT !.pc = "done", !.outcome = outcome, !.reason = reason]
Fail(reason) == run' = Ended(run, "FAILED", reason)
Steady == UNCHANGED <<page, changes, shown, found, snapshot, filled, log>>

\* Variant: what was done last is forgotten with an invalid answer.
InvalidForgetting(reason) ==
    LET next == [run EXCEPT !.invalid = @ + 1, !.previous = NoMemory]
    IN  run' = IF next.invalid >= MaxInvalid
               THEN Ended(next, "FAILED", reason)
               ELSE [next EXCEPT !.pc = "turn"]

\* The second invalid answer of a discovery ends it, however many valid ones lie between.
Invalid(reason) ==
    LET next == [run EXCEPT !.invalid = @ + 1]
    IN  run' = IF next.invalid >= MaxInvalid
               THEN Ended(next, "FAILED", reason)
               ELSE [next EXCEPT !.pc = "turn"]

-----------------------------------------------------------------------------
(* A turn: the snapshot *)

Start ==
    /\ run.pc = "start"
    /\ IF run.required \subseteq Targets
       THEN run' = [run EXCEPT !.pc = "turn"]
       ELSE Fail("REQUIRED_COMPLETION_TARGET_UNKNOWN")
    /\ Steady

\* Variant: only what the last snapshot did not show is inspected again.
Forgotten == {t \in DOMAIN snapshot : snapshot[t] \in {NotVisible, Unavailable}}

\* What the new turn's snapshot does not keep of the old one: all of it.
Outdated == DOMAIN snapshot

StartTurn ==
    /\ run.pc = "turn"
    /\ IF run.turn = MaxTurns
       THEN /\ Fail("TURN_LIMIT_REACHED")
            /\ Steady
       ELSE /\ run' = [run EXCEPT !.pc = "collecting", !.turn = @ + 1]
            /\ snapshot' = [t \in DOMAIN snapshot \ Outdated |-> snapshot[t]]
            /\ shown' = [t \in Targets |-> Exposed({}, page[t])]
            /\ UNCHANGED <<page, changes, found, filled, log>>

Collecting == run.pc = "collecting" /\ UNCHANGED <<page, changes, shown, filled, log, run>>

\* The locator is resolved and is_visible() awaited: either may find that there is nothing to
\* see, or several elements, or raise; collecting never fails.
Inspect(t) ==
    /\ Collecting
    /\ found = {}
    /\ t \in Targets \ DOMAIN snapshot
    /\ \/ /\ page[t].state = "VISIBLE"
          /\ found' = {t}
          /\ UNCHANGED snapshot
       \/ /\ page[t].state \in {"ABSENT", "HIDDEN"}
          /\ snapshot' = With(snapshot, t, NotVisible)
          /\ UNCHANGED found
       \/ /\ snapshot' = With(snapshot, t, Unavailable)
          /\ UNCHANGED found

\* inner_text() is awaited next: it reads the element also if it is hidden by then, waits for
\* one that is gone until the time limit, and raises if there are several.
ReadText(t) ==
    /\ Collecting
    /\ t \in found
    /\ \/ /\ page[t].state \in {"VISIBLE", "HIDDEN"}
          /\ snapshot' = With(snapshot, t, page[t].text)
       \/ snapshot' = With(snapshot, t, Unavailable)
    /\ found' = {}

Collected ==
    /\ run.pc = "collecting"
    /\ DOMAIN snapshot = Targets
    /\ run' = [run EXCEPT !.pc = "thinking"]
    /\ Steady

-----------------------------------------------------------------------------
(* The model's answer *)

Thinking == run.pc = "thinking" /\ Steady

ModelFails == Thinking /\ Fail("MODEL_ERROR")
Unparsable == Thinking /\ Invalid("MODEL_INVALID_RESPONSE")
DeclaresFailure == Thinking /\ Fail("MODEL_DECLARED_FAILURE")
AsksForHelp == Thinking /\ run' = Ended(run, "INTERVENTION_REQUIRED", "MODEL_REASON")

\* Evidence of the loop's own progress cannot be written: nothing here catches that.
EvidenceRaises == Thinking /\ run' = Ended(run, "RAISED", "none")

\* Cited texts are those of the snapshot, exactly, and one of them is the goal's.
Grounded(evidence) ==
    /\ \A t \in DOMAIN evidence :
           t \in Targets /\ snapshot[t] = evidence[t] /\ evidence[t] \in Texts
    /\ \E t \in DOMAIN evidence : evidence[t] \in GoalTexts

\* Each cited text is attributed to the executed fill that typed it, if there is one.
Attributed(evidence) ==
    [t \in DOMAIN evidence |->
        [text |-> evidence[t], sources |-> {s \in DOMAIN filled : filled[s] = evidence[t]}]]

Completes(evidence) ==
    /\ Thinking
    /\ IF ~ Grounded(evidence)
       THEN Invalid("COMPLETION_NOT_GROUNDED")
       ELSE IF ~ run.required \subseteq DOMAIN evidence
       THEN Invalid("COMPLETION_EVIDENCE_MISSING")
       ELSE run' = [Ended(run, "SUCCESS", "COMPLETED") EXCEPT !.verified = Attributed(evidence)]

Fill(t, x) == [kind |-> "fill", target |-> t, value |-> x]
Click(t) == [kind |-> "click", target |-> t, value |-> NoText]
Proposals ==
    {Fill(t, x) : t \in Targets \cup {Stranger}, x \in Texts}
        \cup {Click(t) : t \in Targets \cup {Stranger}}

Allowed(p) == p.target \in Targets /\ (p.kind = "fill" => p.value \in GoalTexts)

\* A proposal that repeats the last one on an unchanged snapshot is no progress.
Proposes(p) ==
    /\ run.pc = "thinking"
    /\ IF ~ Allowed(p)
       THEN Invalid("UNKNOWN_TARGET") /\ UNCHANGED log
       ELSE IF run.actions >= MaxActions
       THEN Fail("ACTION_LIMIT_REACHED") /\ UNCHANGED log
       ELSE IF run.previous = [proposal |-> <<p>>, snapshot |-> snapshot]
       THEN Fail("NO_PROGRESS") /\ UNCHANGED log
       ELSE /\ run' = [run EXCEPT !.pc = "acting", !.proposal = <<p>>]
            /\ log' = Append(log, [proposal |-> p, snapshot |-> snapshot, answer |-> "none"])
    /\ UNCHANGED <<page, changes, shown, found, snapshot, filled>>

-----------------------------------------------------------------------------
(* The gateway's answer *)

Proposed == run.proposal[1]

Answered(answer) ==
    /\ run.pc = "acting"
    /\ log' = [log EXCEPT ![Len(log)].answer = answer]
    /\ UNCHANGED <<page, changes, shown, found, snapshot>>

Acted ==
    [run EXCEPT !.actions = @ + 1, !.proposal = << >>,
                !.previous = [proposal |-> run.proposal, snapshot |-> snapshot]]

Executed ==
    /\ Answered("EXECUTED")
    /\ run' = [Acted EXCEPT !.pc = "turn"]
    /\ filled' = IF Proposed.kind = "fill"
                 THEN With(filled, Proposed.target, Proposed.value) ELSE filled

Refused(answer, outcome, reason) ==
    /\ Answered(answer)
    /\ run' = Ended(Acted, outcome, reason)
    /\ UNCHANGED filled

PolicyDenies == Refused("DENIED", "FAILED", "POLICY_DENIED")
PolicyAsks == Refused("APPROVAL_REQUIRED", "INTERVENTION_REQUIRED", "APPROVAL_REQUIRED")
EffectUncertain == Refused("UNCERTAIN", "INTERVENTION_REQUIRED", "ACTION_EFFECT_UNCERTAIN")

ActionFails == Refused("FAILED", "FAILED", "ACTION_FAILED")

\* The time limit's result reports no turn and no action, whatever was done.
TimesOut ==
    /\ run.pc \in {"collecting", "thinking", "acting"}
    /\ run' = Ended([run EXCEPT !.turn = 0, !.actions = 0], "FAILED", "DISCOVERY_TIMEOUT")
    /\ Steady

-----------------------------------------------------------------------------
Evidences == UNION {[cited -> Texts] : cited \in SUBSET (Targets \cup {Stranger})}

EngineNext ==
    \/ \E t \in Targets, show \in Shows : PageChanges(t, show)
    \/ Start
    \/ StartTurn
    \/ \E t \in Targets : Inspect(t) \/ ReadText(t)
    \/ Collected
    \/ ModelFails
    \/ Unparsable
    \/ DeclaresFailure
    \/ AsksForHelp
    \/ EvidenceRaises
    \/ \E evidence \in Evidences : Completes(evidence)
    \/ \E p \in Proposals : Proposes(p)
    \/ Executed
    \/ PolicyDenies
    \/ PolicyAsks
    \/ EffectUncertain
    \/ ActionFails
    \/ TimesOut

EngineSpec == EngineInit /\ [][EngineNext]_engineVars

-----------------------------------------------------------------------------
(* Properties *)

\* A completion is as good as the page of its own turn: each cited text is one its target had,
\* at or after a moment since the turn began at which it was visible; all that the caller
\* requires is cited; and a text is attributed to an input only if an executed fill typed it.
\* No more is true: the text may have come after the target was hidden, and the moments may
\* differ, so that a page that showed all of it at once need not have existed.
CompletionIsGrounded ==
    run.outcome = "SUCCESS" =>
        /\ run.required \subseteq DOMAIN run.verified
        /\ \E t \in DOMAIN run.verified : run.verified[t].text \in GoalTexts
        /\ \A t \in DOMAIN run.verified :
               /\ run.verified[t].text \in shown[t]
               /\ \A s \in run.verified[t].sources :
                      \E i \in DOMAIN log :
                          /\ log[i].proposal = Fill(s, run.verified[t].text)
                          /\ log[i].answer = "EXECUTED"

TimedOut == run.reason = "DISCOVERY_TIMEOUT"

\* Through invalid answers, repairs and other turns, dispatches are never blind: none follows
\* one that was not executed for sure, and none repeats the one just before it on the same
\* snapshot (with another one in between it may).  They are also accounted for: there are at
\* most MaxActions, and with the invalid answers no more than turns; and every result counts
\* them all, a failure too.  Only the result of the time limit does not count.
DispatchesAreAccounted ==
    /\ \A i \in 1 .. Len(log) - 1 :
           /\ log[i].answer = "EXECUTED"
           /\ log[i].proposal = log[i + 1].proposal => log[i].snapshot # log[i + 1].snapshot
    /\ Len(log) <= MaxActions
    /\ ~ TimedOut => Len(log) + run.invalid <= run.turn /\ run.turn <= MaxTurns
    /\ run.pc = "done" /\ ~ TimedOut => run.actions = Len(log)
=============================================================================
