-------------------------- MODULE MCActionGateway --------------------------
(* A small instance of ActionGateway for TLC. *)
EXTENDS ActionGateway

CONSTANTS run, o1, o2, a1, h1, none
============================================================================
