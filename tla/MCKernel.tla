------------------------------ MODULE MCKernel ------------------------------
(***************************************************************************)
(* The smaller services of the kernel.  They share no state: a behaviour   *)
(* takes the steps of one of them, chosen at the start.                    *)
(***************************************************************************)
EXTENDS Hlec, Vmm, KernelSync, IoVector

VARIABLE part
kernelVars == <<vars, vmmVars, syncVars, vecVars, part>>

KernelInit ==
  /\ part \in {"hlec", "vmm", "sync", "vector"}
  /\ Init /\ VmmInit /\ SyncInit /\ VecInit

KernelNext ==
  /\ UNCHANGED part
  /\ \/ part = "hlec" /\ Next /\ UNCHANGED <<vmmVars, syncVars, vecVars>>
     \/ part = "vmm" /\ VmmNext /\ UNCHANGED <<vars, syncVars, vecVars>>
     \/ part = "sync" /\ SyncNext /\ UNCHANGED <<vars, vmmVars, vecVars>>
     \/ part = "vector" /\ VecNext /\ UNCHANGED <<vars, vmmVars, syncVars>>

KernelSpec == KernelInit /\ [][KernelNext]_kernelVars

\* The types of all the services: every variable stays in the range that the
\* declaration of its C counterpart gives it.
KernelTypeOK == TypeOK /\ VmmTypeOK /\ SyncTypeOK /\ VecTypeOK
=============================================================================
