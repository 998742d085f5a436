------------------------------ MODULE MCDriver ------------------------------
(***************************************************************************)
(* The model values of the instance of Driver that TLC checks.             *)
(***************************************************************************)
EXTENDS Driver

CONSTANTS d1, d2, i1, t1
=============================================================================
