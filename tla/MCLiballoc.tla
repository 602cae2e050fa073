----------------------------- MODULE MCLiballoc -----------------------------
(* The kernel heap alone, on its smallest interesting regions. *)
EXTENDS Liballoc
Spec == HeapInit /\ [][HeapNext]_heapVars
=============================================================================
