----------------------------- MODULE MCPmmBoot -----------------------------
(***************************************************************************)
(* PmmBoot on all short maps made of entries around the 1 MiB line, on a   *)
(* map with more entries than the segment table, and, for the run that     *)
(* disagrees with the code, on the map of a real machine.                  *)
(***************************************************************************)
EXTENDS PmmBoot

Entry(t, b, l) == [type |-> t, base |-> b, length |-> l]

\* Two or three consecutive entries that end below, at, across or above the
\* 1 MiB line, of one to five pages, of every type.
Sizes == {PageSize, 3 * PageSize, 4 * PageSize, 5 * PageSize}

Consecutive(t, b, l) ==
  [e \in DOMAIN t |->
     Entry(t[e], b + (IF e = 1 THEN 0 ELSE l[1])
                   + (IF e = 3 THEN l[2] ELSE 0), l[e])]

ShortMaps ==
  {Consecutive(t, b, l) : t \in [1..3 -> EntryTypes],
                          b \in {MiB - 4 * PageSize, MiB - PageSize, MiB},
                          l \in [1..3 -> Sizes]}

\* 130 pages that are each an entry of their own.
LongMap ==
  [e \in 1..130 |-> Entry("usable", MiB + 2 * e * PageSize, PageSize)]

MCMemMaps == ShortMaps \cup {LongMap}

\* 256 MiB and more in one entry, as QEMU reports with -m 8G.
LargeMaps == {<<Entry("usable", MiB, 300 * MiB)>>}
=============================================================================
