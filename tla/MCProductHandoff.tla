------------------------- MODULE MCProductHandoff --------------------------
(* Two threads, so that the exit handler, a stop or a second take meets a    *)
(* return; four requests lead through a whole handoff with one to spare.     *)
EXTENDS ProductHandoff
=============================================================================
