----------------------------- MODULE MCLunSlot ------------------------------
(***************************************************************************)
(* The model values of the instances of LunSlot that TLC checks; nothing   *)
(* orders the tasks.                                                       *)
(***************************************************************************)
EXTENDS LunSlot, TLC

CONSTANTS t1, t2

MCSymmetry == Permutations(Task)
=============================================================================
