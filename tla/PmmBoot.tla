------------------------------ MODULE PmmBoot ------------------------------
(***************************************************************************)
(* mm::pmm::initialise as the loop it is, over any of a set of memory      *)
(* maps: one entry of the map per step, a segment table that grows, and    *)
(* the break when the table is full.  Pmm takes the result of the loop as  *)
(* the constant segtab.                                                    *)
(***************************************************************************)
EXTENDS PmmSegtab

CONSTANT MemMaps   \* the memory maps a bootloader may report

ASSUME MemMapsAssumption == MemMaps \subseteq Seq(Entries)

VARIABLES
  memmap,   \* gMemMap
  i,        \* the loop's index; 0-based in the code
  table,    \* segtab[0 .. num_segtab - 1]
  done,     \* the loop has ended
  total_mem \* in pages

vars == <<memmap, i, table, done, total_mem>>

Init ==
  /\ memmap \in MemMaps
  /\ i = 1
  /\ table = <<>>
  /\ done = FALSE
  /\ total_mem = 0

More == ~done /\ i <= Len(memmap)

\* Both continue statements.
Skip ==
  /\ More /\ ~Considered(memmap[i])
  /\ i' = i + 1
  /\ UNCHANGED <<memmap, table, done, total_mem>>

\* Mutant: the entry that would not fit overwrites the last one.
AddSegmentClobber ==
  /\ More /\ Considered(memmap[i])
  /\ table' = IF Len(table) < max_segtab
                THEN Append(table, Segment(memmap[i]))
                ELSE [table EXCEPT ![max_segtab] = Segment(memmap[i])]
  /\ i' = i + 1
  /\ UNCHANGED <<memmap, done, total_mem>>

AddSegment ==
  /\ More /\ Considered(memmap[i]) /\ Len(table) < max_segtab
  /\ table' = Append(table, Segment(memmap[i]))
  /\ i' = i + 1
  /\ UNCHANGED <<memmap, done, total_mem>>

\* The sum of the segment sizes, in bytes: total_memory().
total_size ==
  LET sum[n \in 0..Len(table)] ==
        IF n = 0 THEN 0 ELSE sum[n - 1] + table[n].size
  IN  sum[Len(table)]

\* The loop ends at the end of the map, or by the break when a segment does
\* not fit in the table; total_mem is computed after it.
Finish ==
  /\ ~done
  /\ \/ i > Len(memmap)
     \/ More /\ Considered(memmap[i]) /\ Len(table) = max_segtab
  /\ done' = TRUE
  /\ total_mem' = Pages(total_size)
  /\ UNCHANGED <<memmap, i, table>>

Next == Skip \/ AddSegment \/ Finish

Spec == Init /\ [][Next]_vars

-----------------------------------------------------------------------------
(* Properties                                                              *)

\* Every variable has its type; the table never exceeds segtab[128].
TypeOK ==
  /\ memmap \in MemMaps
  /\ i \in 1..(Len(memmap) + 1)
  /\ Len(table) <= max_segtab
  /\ table \in Seq([base_ptr: Nat, size: Nat, max_order: Shifts])
  /\ done \in BOOLEAN
  /\ total_mem \in Nat

\* Every block that initialise puts on a free list is memory that the
\* bootloader reported as usable or reclaimable, above 1 MiB, and no two
\* segments overlap: the code hands out nothing else.
SegmentsSound ==
  /\ TypeOK
  /\ \A s \in DOMAIN table :
       /\ table[s].base_ptr >= MiB
       /\ \E e \in DOMAIN memmap :
            /\ Considered(memmap[e])
            /\ memmap[e].base <= table[s].base_ptr
            /\ ManagedEnd(table[s]) <= memmap[e].base + memmap[e].length
       /\ \A t \in DOMAIN table : s # t =>
            \/ ManagedEnd(table[s]) <= table[t].base_ptr
            \/ ManagedEnd(table[t]) <= table[s].base_ptr

\* The loop computes the segment table that Pmm starts from, whatever the
\* map, the entries it skips and the point at which the table is full.
LoopBuildsSegtab == done => table = SegtabOf(memmap)

\* add_block(seg->free_list[order], ...) stays inside free_list[16].
FreeListInBounds == \A s \in DOMAIN table : table[s].max_order \in Orders
=============================================================================
