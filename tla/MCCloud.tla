------------------------------- MODULE MCCloud -------------------------------
(***************************************************************************)
(* Instances of CloudSource for TLC.                                       *)
(***************************************************************************)
EXTENDS CloudSource

CONSTANTS c1, j1, j2, j3
=============================================================================
