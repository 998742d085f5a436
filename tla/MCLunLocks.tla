----------------------------- MODULE MCLunLocks -----------------------------
(***************************************************************************)
(* The model values of the instances of LunLocks that TLC checks; nothing  *)
(* orders the LUNs.                                                        *)
(***************************************************************************)
EXTENDS LunLocks, TLC

CONSTANTS l1, l2

MCSymmetry == Permutations(Lun)
=============================================================================
