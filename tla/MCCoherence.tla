---------------------------- MODULE MCCoherence ----------------------------
(***************************************************************************)
(* Instances of Coherence for TLC.                                         *)
(***************************************************************************)
EXTENDS Coherence, TLC

CONSTANTS o1, o2, r1, t1, t2, w1, w2

MCSymmetry == Permutations(Off) \cup Permutations(Task) \cup Permutations(Writer)
=============================================================================
