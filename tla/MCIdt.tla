------------------------------- MODULE MCIdt -------------------------------
(***************************************************************************)
(* Idt with three drivers that compete for IRQs and three keys.            *)
(***************************************************************************)
EXTENDS Idt, TLC

\* Drivers and keys are interchangeable.
Symmetry == Permutations(Drivers) \cup Permutations(Keys)
=============================================================================
