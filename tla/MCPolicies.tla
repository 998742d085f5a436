----------------------------- MODULE MCPolicies -----------------------------
(***************************************************************************)
(* The instance of Policies for TLC.  A fresh heat of 2 stands for         *)
(* 0x5555555.                                                              *)
(***************************************************************************)
EXTENDS Policies

\* Bound: one policy is at its start while the other one goes through all its
\* states.  Neither sees the other, so this leaves nothing out.
MCOneAtStart == Init \/ ClockInit
=============================================================================
