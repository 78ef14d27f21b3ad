-------------------------------- MODULE MCOP --------------------------------
(***************************************************************************)
(* Instances of OPSource for TLC: two tables, one of them in two files.    *)
(***************************************************************************)
EXTENDS OPSource

CONSTANTS t1, t2, f1, f2, f3, j1, j2

TwoFilesAndOne == [f \in Files |-> IF f = f3 THEN t2 ELSE t1]
=============================================================================
