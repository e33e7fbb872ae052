--------------------------- MODULE StateEvaluator ---------------------------
(***************************************************************************)
(* What a snapshot of the page says of a capability: conditions in three   *)
(* values, the terminal state, and whether the outputs can be read.        *)
(*                                                                         *)
(* A snapshot maps the targets that were observed to what was seen; a      *)
(* visible target may have no text.  A condition compares a target's text  *)
(* with a literal or with a runtime input.  Texts are trimmed already;     *)
(* Within says which text contains which.                                  *)
(***************************************************************************)
EXTENDS Naturals, FiniteSets

CONSTANTS
    Targets,       \* semantic targets
    Texts,         \* texts a target can show
    Within,        \* pairs <<a, b>> of texts: a is contained in b
    Readable,      \* texts that the output parsers accept
    InputNames,    \* runtime inputs
    NoText         \* a visible target without text

ASSUME EvaluatorAssumption ==
    /\ Within \subseteq Texts \X Texts
    /\ \A x \in Texts : <<x, x>> \in Within
    /\ Readable \subseteq Texts
    /\ InputNames \cap Texts = {}
    /\ NoText \notin Texts

Visible(x) == [state |-> "VISIBLE", text |-> x]
NotVisible == [state |-> "NOT_VISIBLE", text |-> NoText]
Unavailable == [state |-> "UNAVAILABLE", text |-> NoText]
Observations == {NotVisible, Unavailable} \cup {Visible(x) : x \in Texts \cup {NoText}}

Conditions == [kind : {"visible", "equals", "contains"}, target : Targets,
               expected : Texts \cup InputNames]

-----------------------------------------------------------------------------
Truth(b) == IF b THEN "TRUE" ELSE "FALSE"

\* Inputs that were not supplied are not in the domain of "inputs".
InputMissing(c, inputs) == c.expected \in InputNames \ DOMAIN inputs
Expected(c, inputs) == IF c.expected \in InputNames THEN inputs[c.expected] ELSE c.expected

Matches(kind, text, expected) ==
    IF kind = "equals" THEN text = expected ELSE <<expected, text>> \in Within

\* Variant: a target that could not be inspected counts as not visible.
EvaluateHastily(c, snapshot, inputs) ==
    LET seen == IF c.target \in DOMAIN snapshot THEN snapshot[c.target] ELSE NotVisible
    IN  IF c.kind = "visible" \/ seen.state # "VISIBLE" THEN Truth(seen.state = "VISIBLE")
        ELSE IF seen.text = NoText \/ InputMissing(c, inputs) THEN "UNKNOWN"
        ELSE Truth(Matches(c.kind, seen.text, Expected(c, inputs)))

EvaluateCondition(c, snapshot, inputs) ==
    LET seen == snapshot[c.target]
    IN  IF c.target \notin DOMAIN snapshot \/ seen.state = "UNAVAILABLE" THEN "UNKNOWN"
        ELSE IF c.kind = "visible" \/ seen.state = "NOT_VISIBLE" THEN Truth(seen.state = "VISIBLE")
        ELSE IF seen.text = NoText \/ InputMissing(c, inputs) THEN "UNKNOWN"
        ELSE Truth(Matches(c.kind, seen.text, Expected(c, inputs)))

\* The evaluation stopped at a runtime input that is not there.
RuntimeInputMissing(c, snapshot, inputs) ==
    /\ c.target \in DOMAIN snapshot
    /\ c.kind # "visible"
    /\ snapshot[c.target].state = "VISIBLE"
    /\ InputMissing(c, inputs)

\* Variant: a conjunction that only asks whether something is false.
AllNotFalse(conditions, snapshot, inputs) ==
    Truth(\A c \in conditions : EvaluateCondition(c, snapshot, inputs) # "FALSE")

AllConditions(conditions, snapshot, inputs) ==
    LET results == {EvaluateCondition(c, snapshot, inputs) : c \in conditions}
    IN  IF "FALSE" \in results THEN "FALSE"
        ELSE IF "UNKNOWN" \in results THEN "UNKNOWN"
        ELSE "TRUE"

\* The business outcomes, each a set of conditions, with a given result.
OutcomesThatAre(result, capability, snapshot, inputs) ==
    {o \in capability.outcomes : AllConditions(o, snapshot, inputs) = result}

TerminalState(capability, snapshot, inputs) ==
    LET reached == OutcomesThatAre("TRUE", capability, snapshot, inputs)
        open == OutcomesThatAre("UNKNOWN", capability, snapshot, inputs)
        success == AllConditions(capability.success, snapshot, inputs)
    IN  IF Cardinality(reached) > 1 \/ (reached # {} /\ success = "TRUE") THEN "CONFLICT"
        ELSE IF reached # {} THEN "BUSINESS_OUTCOME"
        ELSE IF success = "TRUE" THEN "SUCCESS"
        ELSE IF success = "UNKNOWN" \/ open # {} THEN "UNKNOWN"
        ELSE "INCOMPLETE"

OutputsExtracted(capability, snapshot) ==
    \A t \in capability.outputs :
        /\ t \in DOMAIN snapshot
        /\ snapshot[t].state = "VISIBLE"
        /\ snapshot[t].text \in Readable

-----------------------------------------------------------------------------
(* The pages a snapshot leaves possible, and conditions in two values on a page *)

PossiblePages(snapshot) ==
    {page \in [Targets -> {NotVisible} \cup {Visible(x) : x \in Texts}] :
        \A t \in DOMAIN snapshot :
            /\ snapshot[t].state = "VISIBLE" =>
                   /\ page[t].state = "VISIBLE"
                   /\ snapshot[t].text # NoText => page[t].text = snapshot[t].text
            /\ snapshot[t].state = "NOT_VISIBLE" => page[t] = NotVisible}

PossibleInputs(inputs) ==
    {all \in [InputNames -> Texts] : \A n \in DOMAIN inputs : all[n] = inputs[n]}

Holds(c, page, inputs) ==
    /\ page[c.target].state = "VISIBLE"
    /\ c.kind # "visible" => Matches(c.kind, page[c.target].text, Expected(c, inputs))

AllHold(conditions, page, inputs) == \A c \in conditions : Holds(c, page, inputs)
=============================================================================
