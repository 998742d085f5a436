----------------------------- MODULE MCHotplug -----------------------------
(***************************************************************************)
(* Instances of Hotplug for TLC.                                           *)
(***************************************************************************)
EXTENDS Hotplug, TLC

CONSTANTS o1, r1, r2, t1, t2

MCSymmetry == Permutations(Reader) \cup Permutations(Task)
=============================================================================
