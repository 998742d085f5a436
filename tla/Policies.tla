------------------------------ MODULE Policies ------------------------------
(***************************************************************************)
(* The two policies behind sce_get4pop side by side: which fragment to     *)
(* populate (MissLog) and which one to evict for it (Clock).  They share   *)
(* no variable: the engine of module Sce, where any choice is possible, is *)
(* what connects them in the code.                                         *)
(***************************************************************************)
EXTENDS MissLog, Clock

PoliciesInit == Init /\ ClockInit

PoliciesNext ==
    \/ Next /\ UNCHANGED clockvars
    \/ ClockNext /\ UNCHANGED vars

PoliciesSpec == PoliciesInit /\ [][PoliciesNext]_<<vars, clockvars>>
=============================================================================
