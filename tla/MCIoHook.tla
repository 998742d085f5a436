------------------------------ MODULE MCIoHook ------------------------------
(***************************************************************************)
(* Instances of IoHook for TLC.  No symmetry: liveness is checked.         *)
(***************************************************************************)
EXTENDS IoHook

CONSTANTS i1, i2
=============================================================================
