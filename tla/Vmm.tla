-------------------------------- MODULE Vmm --------------------------------
(***************************************************************************)
(* mm/vmm.cpp: four levels of page tables in frames that the PMM gives,    *)
(* and the two functions of the uACPI interface that map memory.  A page   *)
(* number has one digit per level; the upper half of the pages is the      *)
(* direct map of the frames.  Mapping and unmapping take one step per      *)
(* page, as their loops do.                                                *)
(***************************************************************************)
EXTENDS Naturals, FiniteSets, FiniteSetsExt

CONSTANTS
  TableEntries, \* entries of a table: 512, and 2 when model-checked
  PageBytes,    \* bytes in a page (PAGE_SIZE), scaled down
  FreeAtStart,  \* the frames that the PMM can give
  Roots,        \* the frames of the PML4s that exist
  kernel_cr3,   \* the one that initialise read from CR3
  MapAddrs,     \* physical addresses passed to uacpi_kernel_map
  MapLens,      \* lengths passed to it
  MmapFrames,   \* frames, pages and numbers of pages that other callers pass
  MmapPages,    \* to mmap and munmap
  MmapCounts

VARIABLES
  table,        \* frame -> index -> entry: what a frame holds as a table
  pmm_free,     \* the frames that the PMM would give
  current_cr3,
  call,         \* the mmap or munmap in progress
  mappings      \* what uacpi_kernel_map returned and nobody has unmapped
vmmVars == <<table, pmm_free, current_cr3, call, mappings>>

NumPages == TableEntries * (TableEntries * (TableEntries * TableEntries))
VPages == 0 .. NumPages - 1
HigherHalf == NumPages \div 2
Frames == 0 .. HigherHalf - 1
Indices == 0 .. TableEntries - 1

\* The pages of n bytes.
PagesOf(n) == (n + PageBytes - 1) \div PageBytes

\* The PMM gives frames of memory that no PML4 is in, and memory that the host maps
\* ends below the size of the direct map.
ASSUME VmmAssumption ==
  /\ TableEntries \in Nat /\ TableEntries > 1 /\ PageBytes \in Nat \ {0}
  /\ FreeAtStart \subseteq Frames /\ Roots \subseteq Frames
  /\ kernel_cr3 \in Roots /\ Roots \cap FreeAtStart = {}
  /\ MapAddrs \subseteq Nat /\ MapLens \subseteq Nat
  /\ \A a \in MapAddrs, len \in MapLens : a \div PageBytes + PagesOf(len) <= HigherHalf
  /\ MmapFrames \subseteq Nat /\ MmapPages \subseteq Nat /\ MmapCounts \subseteq Nat

NotPresent == [frame |-> 0, user |-> FALSE, low |-> 0, present |-> FALSE]
Entry(f, u, low) == [frame |-> f, user |-> u, low |-> low, present |-> TRUE]
EmptyTable == [i \in Indices |-> NotPresent]
\* What a frame may hold when the PMM gives it.
Garbage == [i \in Indices |-> Entry(0, TRUE, 0)]
Idle == [op |-> "none"]

\* The digits of a page number: each level is the page's number in larger pages.
Larger(v) == v \div TableEntries
PT_IDX(v) == v % TableEntries
PD_IDX(v) == PT_IDX(Larger(v))
PDPT_IDX(v) == PD_IDX(Larger(v))
PML4_IDX(v) == PDPT_IDX(Larger(v))

\* Page numbers; the byte offset in a page is the same on both sides.
pa_to_va(f) == IF f >= HigherHalf THEN f ELSE f + HigherHalf
va_to_pa(v) == IF v <= HigherHalf THEN v ELSE v - HigherHalf

VmmInit ==
  /\ table = [f \in Frames |-> IF f \in FreeAtStart THEN Garbage ELSE EmptyTable]
  /\ pmm_free = FreeAtStart
  /\ current_cr3 = kernel_cr3
  /\ call = Idle
  /\ mappings = {}

(***************************************************************************)
(* The tables are a structure [tab, free, at, ok]: at is the table reached *)
(* and ok is false once a table could not be allocated.                    *)
(***************************************************************************)
\* Slips: the memset is forgotten; a table that is there is not looked for.
get_or_create_table_unzeroed(s, idx, user) ==
  CASE ~s.ok -> s
    [] s.ok /\ s.tab[s.at][idx].present -> [s EXCEPT !.at = s.tab[s.at][idx].frame]
    [] s.ok /\ ~s.tab[s.at][idx].present /\ s.free = {} -> [s EXCEPT !.ok = FALSE]
    [] OTHER -> [tab |-> [s.tab EXCEPT ![s.at][idx] = Entry(Min(s.free), user, 0)],
                 free |-> s.free \ {Min(s.free)}, at |-> Min(s.free), ok |-> TRUE]
create_table(s, idx, user) ==
  IF ~s.ok \/ s.free = {} THEN [s EXCEPT !.ok = FALSE]
  ELSE [tab |-> [s.tab EXCEPT ![Min(s.free)] = EmptyTable,
                              ![s.at][idx] = Entry(Min(s.free), user, 0)],
        free |-> s.free \ {Min(s.free)}, at |-> Min(s.free), ok |-> TRUE]

get_or_create_table(s, idx, user) ==
  CASE ~s.ok -> s
    [] s.ok /\ s.tab[s.at][idx].present -> [s EXCEPT !.at = s.tab[s.at][idx].frame]
    [] s.ok /\ ~s.tab[s.at][idx].present /\ s.free = {} -> [s EXCEPT !.ok = FALSE]
    [] OTHER ->
         LET f == Min(s.free)
         IN  [tab |-> [s.tab EXCEPT ![f] = EmptyTable, ![s.at][idx] = Entry(f, user, 0)],
              free |-> s.free \ {f}, at |-> f, ok |-> TRUE]

\* What the processor finds for page v below the root r.
Walk(r, v) ==
  LET step(e, idx) == IF e.present THEN table[e.frame][idx] ELSE NotPresent
  IN  step(step(step(table[r][PML4_IDX(v)], PDPT_IDX(v)), PD_IDX(v)), PT_IDX(v))

mmap(pa, va, low, n, user) ==
  call' = [op |-> "mmap", pa |-> pa, va |-> va, low |-> low, left |-> n,
           user |-> user \/ va < HigherHalf]

\* One iteration of the loop of mmap, or its early return.
MmapPage ==
  /\ call.op \in {"mmap", "uacpi_map"} /\ call.left > 0
  /\ LET s0 == [tab |-> table, free |-> pmm_free, at |-> current_cr3, ok |-> TRUE]
         s1 == get_or_create_table(s0, PML4_IDX(call.va), call.user)
         s2 == get_or_create_table(s1, PDPT_IDX(call.va), call.user)
         s  == get_or_create_table(s2, PD_IDX(call.va), call.user)
     IN  /\ pmm_free' = s.free
         /\ IF s.ok
            THEN /\ table' = [s.tab EXCEPT ![s.at][PT_IDX(call.va)] =
                                Entry(call.pa, call.user, call.low)]
                 /\ call' = [call EXCEPT !.pa = @ + 1, !.va = @ + 1, !.left = @ - 1]
            ELSE table' = s.tab /\ call' = Idle
  /\ UNCHANGED <<current_cr3, mappings>>

MmapReturn ==
  /\ call.op \in {"mmap", "uacpi_map"} /\ call.left = 0
  /\ mappings' = IF call.op = "mmap" THEN mappings
                 ELSE mappings \cup {[addr |-> call.addr, len |-> call.len]}
  /\ call' = Idle
  /\ UNCHANGED <<table, pmm_free, current_cr3>>

\* munmap takes bytes: the loop runs for every page that va, va + PAGE_SIZE ...
\* below va + n begins in.
munmap(va, n) == call' = [op |-> "munmap", va |-> va, left |-> PagesOf(n)]

\* One iteration of munmap: an absent table is skipped.
MunmapPage ==
  /\ call.op = "munmap"
  /\ IF call.left = 0 THEN table' = table /\ call' = Idle
     ELSE LET v == call.va
              e3 == table[current_cr3][PML4_IDX(v)]
              e2 == table[e3.frame][PDPT_IDX(v)]
              e1 == table[e2.frame][PD_IDX(v)]
          IN  /\ table' = IF e3.present /\ e2.present /\ e1.present
                          THEN [table EXCEPT ![e1.frame][PT_IDX(v)] = NotPresent]
                          ELSE table
              /\ call' = [call EXCEPT !.va = @ + 1, !.left = @ - 1]
  /\ UNCHANGED <<pmm_free, current_cr3, mappings>>

\* The pages are counted from the length alone, and the low bits of the
\* address go into the entry.
uacpi_kernel_map(a, len) ==
  /\ call = Idle
  /\ call' = [op |-> "uacpi_map", pa |-> a \div PageBytes, va |-> pa_to_va(a \div PageBytes),
              low |-> a % PageBytes, left |-> PagesOf(len),
              user |-> FALSE, addr |-> a, len |-> len]
  /\ UNCHANGED <<table, pmm_free, current_cr3, mappings>>

\* The number of pages is passed where munmap expects bytes.
uacpi_kernel_unmap(m) ==
  /\ call = Idle
  /\ munmap(pa_to_va(m.addr \div PageBytes), PagesOf(m.len))
  /\ mappings' = mappings \ {m}
  /\ UNCHANGED <<table, pmm_free, current_cr3>>

Mmap(f, v, n) ==
  /\ call = Idle /\ v + n - 1 \in VPages /\ f + n - 1 \in Frames
  /\ mmap(f, v, 0, n, FALSE)
  /\ UNCHANGED <<table, pmm_free, current_cr3, mappings>>

Munmap(v, n) ==
  /\ call = Idle /\ v + n - 1 \in VPages
  /\ munmap(v, n * PageBytes)
  /\ UNCHANGED <<table, pmm_free, current_cr3, mappings>>

switch_to_new_table(cr3) ==
  /\ call = Idle /\ mappings = {}
  /\ current_cr3' = IF cr3 = 0 THEN kernel_cr3 ELSE cr3
  /\ UNCHANGED <<table, pmm_free, call, mappings>>

VmmNext ==
  \/ \E a \in MapAddrs, len \in MapLens : uacpi_kernel_map(a, len)
  \/ \E m \in mappings : uacpi_kernel_unmap(m)
  \/ \E f \in MmapFrames, v \in MmapPages, n \in MmapCounts : Mmap(f, v, n)
  \/ \E v \in MmapPages, n \in MmapCounts : Munmap(v, n)
  \/ \E r \in Roots \cup {0} : switch_to_new_table(r)
  \/ MmapPage \/ MmapReturn \/ MunmapPage

(***************************************************************************)
(* Properties.                                                             *)
(***************************************************************************)
VmmTypeOK ==
  /\ \A f \in Frames : table[f] \in [Indices -> [frame : Frames, user : BOOLEAN,
                                                low : 0 .. PageBytes - 1, present : BOOLEAN]]
  /\ pmm_free \subseteq FreeAtStart
  /\ current_cr3 \in Roots

TableFrames == FreeAtStart \ pmm_free

Uppers(fs) == UNION {{table[f][i].frame : i \in {j \in Indices : table[f][j].present}} : f \in fs}

\* Every frame that get_or_create_table took from the PMM hangs below exactly
\* one entry of one address space, whatever calls failed half way: no table is
\* shared between two places or two spaces, none is the target of no entry, and
\* none is still free.
TablesHaveOneParent ==
  LET l3 == Roots
      l2 == Uppers(l3)
      l1 == Uppers(l2)
      l0 == Uppers(l1)
      Parents(f) == {p \in (l3 \cup l2 \cup l1) \X Indices :
                       table[p[1]][p[2]].present /\ table[p[1]][p[2]].frame = f}
  IN  /\ l2 \cup l1 \cup l0 = TableFrames
      /\ \A f \in TableFrames : Cardinality(Parents(f)) = 1

\* A step of mmap or munmap changes what the processor finds for the page of its
\* iteration in the current address space and for no other page of any space:
\* the hierarchy of tables behaves as one flat map per space.  A page of mmap
\* that succeeds is found afterwards with its frame.
OnePagePerStep ==
  [][\A r \in Roots, v \in VPages :
       LET here == call # Idle /\ r = current_cr3 /\ v = call.va
       IN  /\ Walk(r, v)' # Walk(r, v) =>
                /\ here
                /\ Walk(r, v)' = IF call.op = "munmap" THEN NotPresent
                                 ELSE Entry(call.pa, call.user, call.low)
           /\ here /\ call.op # "munmap" /\ call.left > 0 /\ call' # Idle =>
                Walk(r, v)' = Entry(call.pa, call.user, call.low)
    ]_vmmVars
=============================================================================
