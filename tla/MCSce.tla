------------------------------- MODULE MCSce -------------------------------
(***************************************************************************)
(* The model values of the instance of Sce that TLC checks.  It has no     *)
(* symmetry set: the run includes a liveness property.                     *)
(***************************************************************************)
EXTENDS Sce

CONSTANTS o1, o2, r1, r2, t1, t2
=============================================================================
