-------------------------- MODULE MCReplayHandoff --------------------------
(* Small instances of ReplayHandoff for TLC. *)
EXTENDS ReplayHandoff

CONSTANTS run, o1, c1, c2, t1, none, noid, i1, i2
============================================================================
