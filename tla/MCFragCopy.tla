----------------------------- MODULE MCFragCopy -----------------------------
(***************************************************************************)
(* Instances of FragCopy for TLC.                                          *)
(***************************************************************************)
EXTENDS FragCopy
=============================================================================
