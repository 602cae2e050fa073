----------------------------- MODULE PmmSegtab -----------------------------
(***************************************************************************)
(* The geometry of the physical memory manager (kernel/src/mm/pmm.cpp):    *)
(* block sizes, the order of a request, the buddy of a block, and what     *)
(* mm::pmm::initialise makes of one entry of the bootloader's memory map.  *)
(* Addresses and sizes are bytes, with the code's own constants.           *)
(***************************************************************************)
EXTENDS Integers, Sequences

PageSize   == 4096
MiB        == 1048576
max_segtab == 128
Orders     == 0..15                \* the indices of free_list[16]

\* Bound: the shifts 1ULL << k that are modelled, 1 page to 1 GiB.
Shifts == 0..18

\* 1ULL << k.
Pow2(k) == <<1, 2, 4, 8, 16, 32, 64, 128, 256, 512, 1024, 2048, 4096, 8192,
             16384, 32768, 65536, 131072, 262144>>[k + 1]

\* The bytes of a block of order k: 1ULL << (k + 12).
BlockSize(k) == Pow2(k) * PageSize

\* (n + 0xFFF) >> 12
Pages(n) == (n + PageSize - 1) \div PageSize

\* while ((1ULL << order) < pages) order++
OrderOf(n) ==
  CHOOSE k \in Shifts : /\ Pages(n) <= Pow2(k)
                        /\ \A j \in Shifts : j < k => Pow2(j) < Pages(n)

-----------------------------------------------------------------------------
(* mm::pmm::initialise, for one entry of the memory map.                   *)

EntryTypes == {"usable", "acpi_reclaimable", "bootloader_reclaimable",
               "reserved"}

Entries == [type: EntryTypes, base: Nat, length: Nat]

\* The entries that the loop does not skip.
Considered(mme) ==
  /\ mme.type \in {"usable", "acpi_reclaimable", "bootloader_reclaimable"}
  /\ mme.base + mme.length > MiB

\* Mutant: the order is rounded up.
CeilOrder(pages) ==
  CHOOSE k \in Shifts : /\ pages <= Pow2(k)
                        /\ \A j \in Shifts : j < k => Pow2(j) < pages

\* while ((1ULL << (order + 1)) <= pages) order++
FloorOrder(pages) ==
  CHOOSE k \in Shifts : /\ k = 0 \/ Pow2(k) <= pages
                        /\ k + 1 \in Shifts => pages < Pow2(k + 1)

\* An entry that begins below 1 MiB is trimmed to begin there.  Only the
\* largest power of two of the entry's pages is managed.
Segment(mme) ==
  LET base   == IF mme.base < MiB THEN MiB ELSE mme.base
      length == mme.base + mme.length - base
  IN  [base_ptr  |-> base,
       size      |-> length,
       max_order |-> FloorOrder(length \div PageSize)]

\* The segment table for a whole memory map: the first 128 entries that are
\* considered (PmmBoot shows that the loop of initialise computes it).
SegtabOf(memmap) ==
  LET considered == SelectSeq(memmap, Considered)
      count      == IF Len(considered) < max_segtab
                      THEN Len(considered) ELSE max_segtab
  IN  [i \in 1..count |-> Segment(considered[i])]

\* The first address after the blocks that the free lists of seg manage.
ManagedEnd(seg) == seg.base_ptr + BlockSize(seg.max_order)
=============================================================================
