--------------------------- MODULE ControlHandoff ---------------------------
(***************************************************************************)
(* What session control promises its callers, without locks, queues or     *)
(* control states: one holder at a time, who alone may act, one action at  *)
(* a time, under the current term; the session changes hands only while    *)
(* closed and quiet, and for a later term; once ended it never reopens.    *)
(***************************************************************************)
EXTENDS Naturals

CONSTANT Holders

VARIABLES
    holder,     \* whose session it is
    term,       \* permissions of earlier terms are worthless
    open,       \* whether the holder may start an action
    ended,      \* whether the session is over
    acts        \* the action in flight, if any: who started it and in which term

vars == <<holder, term, open, ended, acts>>

Init ==
    /\ holder \in Holders
    /\ term = 0
    /\ open = TRUE
    /\ ended = FALSE
    /\ acts = {}

Start ==
    /\ open
    /\ acts = {}
    /\ acts' = {[by |-> holder, term |-> term]}
    /\ UNCHANGED <<holder, term, open, ended>>

Finish ==
    /\ acts # {}
    /\ acts' = {}
    /\ UNCHANGED <<holder, term, open, ended>>

\* Closing may end the term at once and never interrupts the action in flight.
Close ==
    /\ open
    /\ open' = FALSE
    /\ term' \in {term, term + 1}
    /\ UNCHANGED <<holder, ended, acts>>

HandOver ==
    /\ ~ open
    /\ ~ ended
    /\ acts = {}
    /\ holder' \in Holders \ {holder}
    /\ term' = term + 1
    /\ open' = TRUE
    /\ UNCHANGED <<ended, acts>>

End ==
    /\ ~ ended
    /\ ended' = TRUE
    /\ open' = FALSE
    /\ term' = term + 1
    /\ UNCHANGED <<holder, acts>>

Next == Start \/ Finish \/ Close \/ HandOver \/ End

Spec == Init /\ [][Next]_vars
=============================================================================
