-------------------------- MODULE MCSessionControl --------------------------
(* Small instances of SessionControl for TLC. *)
EXTENDS SessionControl

CONSTANTS run, o1, o2, t1, t2, t3, none
=============================================================================
