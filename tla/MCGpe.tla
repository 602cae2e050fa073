------------------------------- MODULE MCGpe -------------------------------
(***************************************************************************)
(* Two general purpose events of one register, one with an AML method and  *)
(* one that a driver handles, masks, suspends and sets up for wake.        *)
(***************************************************************************)
EXTENDS UacpiGpe

GpeSpec == GpeInit /\ [][GpeNext]_gpeVars
=============================================================================
