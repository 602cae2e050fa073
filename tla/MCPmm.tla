------------------------------- MODULE MCPmm -------------------------------
(***************************************************************************)
(* Pmm on a memory map in which every branch of initialise is taken: an    *)
(* entry below 1 MiB, one that straddles it, a reserved one, and one whose *)
(* pages are not a power of two and whose base is not aligned to its size. *)
(***************************************************************************)
EXTENDS Pmm

MCMemMap ==
  <<[type |-> "usable", base |-> 4096, length |-> 16 * PageSize],
    [type |-> "usable", base |-> MiB - PageSize, length |-> 5 * PageSize],
    [type |-> "reserved", base |-> MiB + 4 * PageSize, length |-> PageSize],
    [type |-> "acpi_reclaimable", base |-> 2 * MiB + PageSize,
     length |-> 3 * PageSize]>>

\* One page, two pages and (rounded up to four) three pages.
MCRequests == {1, 2 * PageSize, 2 * PageSize + 1}
=============================================================================
