------------------------- MODULE MCBrowserDiscovery -------------------------
(* One search form and one result page: a number to fill, a row to open and   *)
(* the result's identity and kind, in an iframe.  A view may show two rows    *)
(* of the same name, another row under the name, or another member's result.  *)
EXTENDS BrowserDiscovery, TLC

CONSTANTS
    number, open, holder, category, n1, n2, n3, n4, n5, ours, other, savings, blank, member, noinput

MCFrameOf == (number :> 1) @@ (open :> 1) @@ (holder :> 2) @@ (category :> 2)
MCValueOf == member :> ours
MCRowOf == [n \in Names |-> IF n = open THEN savings ELSE blank]

View(rows, who, what) ==
    (number :> [nodes |-> {n1}, text |-> blank]) @@
    (open :> [nodes |-> rows, text |-> IF rows = {n2} THEN savings ELSE other]) @@
    (holder :> [nodes |-> IF who = blank THEN {} ELSE {n3}, text |-> who]) @@
    (category :> [nodes |-> IF what = blank THEN {} ELSE {n4}, text |-> what])

MCEntryViews == {View({n2}, blank, blank)}
MCViews ==
    MCEntryViews \cup
    {View({n2, n5}, blank, blank), View({n5}, ours, savings),
     View({n2}, ours, savings), View({n2}, other, savings)}
=============================================================================
