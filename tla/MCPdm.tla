------------------------------- MODULE MCPdm -------------------------------
(***************************************************************************)
(* The instance of Pdm that TLC checks: two of the rows of gpdmcfg, with   *)
(* percentages in halves.                                                 *)
(***************************************************************************)
EXTENDS Pdm

MCMinFree == <<1, 0>>
MCTarget == <<1, 0>>
=============================================================================
