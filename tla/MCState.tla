------------------------------ MODULE MCState ------------------------------
(***************************************************************************)
(* Instances of StateManager for TLC.                                      *)
(***************************************************************************)
EXTENDS StateManager

CONSTANTS creator, deleter, t1, t2, x1, x2, j1, c1
=============================================================================
