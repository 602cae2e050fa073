-------------------------------- MODULE Pmm --------------------------------
(***************************************************************************)
(* The physical memory manager (kernel/src/mm/pmm.cpp): a table of         *)
(* segments taken from the bootloader's memory map, each with a binary     *)
(* buddy allocator of 16 free lists.                                       *)
(*                                                                         *)
(* A free list is the sequence of the addresses linked from its head, in   *)
(* list order; the links live inside the free pages themselves, which is   *)
(* sound as long as no one writes to a page it does not own (the           *)
(* invariants below).  pmm::alloc and pmm::free are loops: the call in     *)
(* progress is the record `call`, and one iteration of its loop is one     *)
(* step, so the invariants also hold between two iterations.               *)
(*                                                                         *)
(* A caller frees what alloc returned to it, with the same byte count, as  *)
(* vmm::free and liballoc do.  A free of an address outside every segment  *)
(* changes nothing and is left out.                                        *)
(***************************************************************************)
EXTENDS PmmSegtab, SequencesExt

CONSTANTS
  MemMap,      \* the memory map: a sequence of Entries
  Requests,    \* the byte counts n that callers pass to alloc
  CounterMod,  \* pages_used and num_used are unsigned, modulo CounterMod
  MaxErrors    \* bound: failed calls explored

segtab == SegtabOf(MemMap)

Segs == DOMAIN segtab

base_ptr(s)  == segtab[s].base_ptr
size(s)      == segtab[s].size
max_order(s) == segtab[s].max_order
SegEnd(s)    == ManagedEnd(segtab[s])

\* Limine's entries do not overlap.  The other conjuncts are what the code
\* needs of the machine and does not check (PmmBoot): a segment holds its
\* largest block, and its largest block has a free list.
ASSUME SegtabAssumption ==
  /\ segtab \in Seq([base_ptr: Nat, size: Nat, max_order: Orders])
  /\ \A s \in Segs : SegEnd(s) <= base_ptr(s) + size(s)
  /\ \A s, t \in Segs :
       s # t => \/ base_ptr(s) + size(s) <= base_ptr(t)
                \/ base_ptr(t) + size(t) <= base_ptr(s)

\* 1 GiB is the largest request that Shifts can express.
ASSUME ConstantsAssumption ==
  /\ Requests \subseteq Nat
  /\ \A n \in Requests : n <= BlockSize(18)
  /\ CounterMod \in Nat \ {0}
  /\ MaxErrors \in Nat

-----------------------------------------------------------------------------
VARIABLES
  num_segtab,  \* 0 until initialise has run
  free_list,   \* free_list[s][k]: addresses of the free blocks of order k
  pages_used,  \* per segment
  num_used,
  num_errors,
  call,        \* the call in progress: the locals of alloc or free
  live         \* what callers own: [p, n] returned by alloc(n), not yet freed

vars == <<num_segtab, free_list, pages_used, num_used, num_errors, call, live>>

\* In a "split" (alloc) the block in hand has order `current`, and `order` is
\* the order asked for; in a "merge" (free) it has order `order`.
Calls == [op: {"idle", "split", "merge"}, seg: Segs \cup {0}, order: Shifts,
          current: Shifts, addr: Nat, n: Requests \cup {0}]

Idle == [op |-> "idle", seg |-> 0, order |-> 0, current |-> 0, addr |-> 0,
         n |-> 0]

Init ==
  /\ num_segtab = 0
  /\ free_list  = [s \in Segs |-> [k \in Orders |-> <<>>]]
  /\ pages_used = [s \in Segs |-> 0]
  /\ num_used   = 0
  /\ num_errors = 0
  /\ call       = Idle
  /\ live       = {}

\* One block per segment, on the list of the segment's largest order.
InitialLists ==
  [s \in Segs |-> [k \in Orders |-> IF k = max_order(s)
                                      THEN <<base_ptr(s)>> ELSE <<>>]]

initialise ==
  /\ num_segtab = 0
  /\ call = Idle
  /\ num_segtab' = Len(segtab)
  /\ free_list'  = InitialLists
  /\ pages_used' = [s \in Segs |-> 0]
  /\ num_used'   = 0
  /\ num_errors' = 0
  /\ UNCHANGED <<call, live>>

-----------------------------------------------------------------------------
(* mm::pmm::alloc                                                          *)

add_block(s, k, addr) ==
  free_list' = [free_list EXCEPT ![s][k] = Cons(addr, @)]

\* A list that serves a request of the given order.
Serves(s, k, order) == k \in order..max_order(s) /\ free_list[s][k] # <<>>

\* The list the two nested loops stop at: the first segment that has a large
\* enough block, and the smallest such block in it.
FirstServing(s, k, order) ==
  /\ Serves(s, k, order)
  /\ \A j \in Orders : Serves(s, j, order) => k <= j
  /\ \A t \in 1..num_segtab, j \in Orders : Serves(t, j, order) => s <= t

\* alloc finds a block and takes it off its list.
AllocTake(n) ==
  /\ call = Idle
  /\ \E s \in 1..num_segtab, k \in Orders :
       /\ FirstServing(s, k, OrderOf(n))
       /\ free_list' = [free_list EXCEPT ![s][k] = Tail(@)]
       /\ call' = [op |-> "split", seg |-> s, order |-> OrderOf(n),
                   current |-> k, addr |-> Head(free_list[s][k]), n |-> n]
  /\ UNCHANGED <<num_segtab, pages_used, num_used, num_errors, live>>

\* Mutant: the search looks at the list of exactly the order asked for.
AllocFailExactOrder(n) ==
  /\ call = Idle
  /\ num_errors < MaxErrors
  /\ \A s \in 1..num_segtab : ~Serves(s, OrderOf(n), OrderOf(n))
  /\ num_errors' = num_errors + 1
  /\ UNCHANGED <<num_segtab, free_list, pages_used, num_used, call, live>>

\* No list serves the request: alloc returns nullptr.
AllocFail(n) ==
  /\ call = Idle
  /\ num_errors < MaxErrors
  /\ \A s \in 1..num_segtab, k \in Orders : ~Serves(s, k, OrderOf(n))
  /\ num_errors' = num_errors + 1
  /\ UNCHANGED <<num_segtab, free_list, pages_used, num_used, call, live>>

\* Mutant: the upper half is put back at the order before the split.
AllocSplitBeforeDecrement ==
  /\ call.op = "split" /\ call.current > call.order
  /\ call' = [call EXCEPT !.current = @ - 1]
  /\ add_block(call.seg, call.current, call.addr + BlockSize(call.current - 1))
  /\ UNCHANGED <<num_segtab, pages_used, num_used, num_errors, live>>

\* Mutant: the upper half is not put back.
AllocSplitLeak ==
  /\ call.op = "split" /\ call.current > call.order
  /\ call' = [call EXCEPT !.current = @ - 1]
  /\ UNCHANGED <<num_segtab, free_list, pages_used, num_used, num_errors, live>>

\* Mutant: the loop variable is not decremented.
AllocSplitForever ==
  /\ call.op = "split" /\ call.current > call.order
  /\ UNCHANGED vars

\* while (current > order): the upper half of the block is put back.
AllocSplit ==
  /\ call.op = "split" /\ call.current > call.order
  /\ call' = [call EXCEPT !.current = @ - 1]
  /\ add_block(call.seg, call.current - 1,
               call.addr + BlockSize(call.current - 1))
  /\ UNCHANGED <<num_segtab, pages_used, num_used, num_errors, live>>

AllocReturn ==
  /\ call.op = "split" /\ call.current = call.order
  /\ pages_used' = [pages_used EXCEPT
                      ![call.seg] = (@ + Pow2(call.order)) % CounterMod]
  /\ num_used' = (num_used + Pow2(call.order)) % CounterMod
  /\ live' = live \cup {[p |-> call.addr, n |-> call.n]}
  /\ call' = Idle
  /\ UNCHANGED <<num_segtab, free_list, num_errors>>

-----------------------------------------------------------------------------
(* mm::pmm::free                                                           *)

\* Segments do not overlap: the first segment that holds p is the only one.
Holds(s, p) == p \in base_ptr(s)..(base_ptr(s) + size(s) - 1)

FreeCall(b) ==
  /\ call = Idle
  /\ \E s \in 1..num_segtab :
       /\ Holds(s, b.p)
       /\ call' = [op |-> "merge", seg |-> s, order |-> OrderOf(b.n),
                   current |-> 0, addr |-> b.p, n |-> b.n]
  /\ live' = live \ {b}
  /\ UNCHANGED <<num_segtab, free_list, pages_used, num_used, num_errors>>

\* Mutant: the buddy is found from the address, not from the offset.
BuddyOfAddress(s, k, addr) ==
  IF (addr \div BlockSize(k)) % 2 = 0
    THEN addr + BlockSize(k) ELSE addr - BlockSize(k)

\* base + (rel ^ (1ULL << (order + 12))): the exclusive or flips one bit of
\* rel, which adds the block size when the bit is 0 and subtracts it when 1.
Buddy(s, k, addr) ==
  IF ((addr - base_ptr(s)) \div BlockSize(k)) % 2 = 0
    THEN addr + BlockSize(k) ELSE addr - BlockSize(k)

\* The place of the held block's buddy on the free list, when it is there.
IsBuddyAt(i) ==
  /\ call.op = "merge" /\ call.order < max_order(call.seg)
  /\ i \in 1..Len(free_list[call.seg][call.order])
  /\ free_list[call.seg][call.order][i] =
       Buddy(call.seg, call.order, call.addr)

BuddyFree == \E i \in 1..Len(free_list[call.seg][call.order]) : IsBuddyAt(i)

\* Mutant: the merged block keeps the address of the block being freed.
FreeMergeKeepAddress ==
  /\ call.op = "merge"
  /\ \E i \in 1..Len(free_list[call.seg][call.order]) :
       /\ IsBuddyAt(i)
       /\ free_list' = [free_list EXCEPT
                          ![call.seg][call.order] = RemoveAt(@, i)]
  /\ call' = [call EXCEPT !.order = @ + 1]
  /\ UNCHANGED <<num_segtab, pages_used, num_used, num_errors, live>>

\* while (order < max_order): the buddy is free, unlink it and merge.
FreeMerge ==
  /\ call.op = "merge"
  /\ \E i \in 1..Len(free_list[call.seg][call.order]) :
       /\ IsBuddyAt(i)
       /\ free_list' = [free_list EXCEPT
                          ![call.seg][call.order] = RemoveAt(@, i)]
  /\ LET buddy == Buddy(call.seg, call.order, call.addr) IN
       call' = [call EXCEPT !.order = @ + 1,
                            !.addr = IF buddy < @ THEN buddy ELSE @]
  /\ UNCHANGED <<num_segtab, pages_used, num_used, num_errors, live>>

\* Mutant: the counters are signed.
FreeInsertSigned ==
  /\ call.op = "merge" /\ ~BuddyFree
  /\ add_block(call.seg, call.order, call.addr)
  /\ pages_used' = [pages_used EXCEPT ![call.seg] = @ - Pow2(call.order)]
  /\ num_used' = num_used - Pow2(call.order)
  /\ call' = Idle
  /\ UNCHANGED <<num_segtab, num_errors, live>>

\* The loop ends; the counters are reduced by the size of the merged block.
FreeInsert ==
  /\ call.op = "merge" /\ ~BuddyFree
  /\ add_block(call.seg, call.order, call.addr)
  /\ pages_used' = [pages_used EXCEPT
                      ![call.seg] = (@ - Pow2(call.order)) % CounterMod]
  /\ num_used' = (num_used - Pow2(call.order)) % CounterMod
  /\ call' = Idle
  /\ UNCHANGED <<num_segtab, num_errors, live>>

-----------------------------------------------------------------------------
Step == AllocSplit \/ AllocReturn \/ FreeMerge \/ FreeInsert

Next ==
  \/ initialise
  \/ \E n \in Requests : AllocTake(n) \/ AllocFail(n)
  \/ \E b \in live : FreeCall(b)
  \/ Step

\* A call, once entered, is executed; callers need not make another one.
Spec == Init /\ [][Next]_vars /\ WF_vars(Step)
-----------------------------------------------------------------------------
(* Properties                                                              *)

\* The order of the block that a call in progress holds.
HeldOrder == IF call.op = "split" THEN call.current ELSE call.order

\* Every variable has its type; the counters stay in their word, and the
\* block in hand never exceeds the largest order of its segment.
TypeOK ==
  /\ num_segtab \in {0, Len(segtab)}
  /\ free_list \in [Segs -> [Orders -> Seq(Nat)]]
  /\ pages_used \in [Segs -> 0..(CounterMod - 1)]
  /\ num_used \in 0..(CounterMod - 1)
  /\ num_errors \in 0..MaxErrors
  /\ call \in Calls
  /\ live \subseteq [p: Nat, n: Requests]
  /\ call.op = "idle" => call = Idle
  /\ call.op # "idle" =>
       /\ call.seg \in 1..num_segtab
       /\ call.n \in Requests
       /\ HeldOrder \in 0..max_order(call.seg)
       /\ call.op = "split" =>
            call.order <= call.current /\ call.order = OrderOf(call.n)

\* The blocks [a, a + 2^j pages) and [b, b + 2^k pages) share no byte.
Apart(a, j, b, k) == \/ a + BlockSize(j) <= b
                     \/ b + BlockSize(k) <= a

Within(s, k, addr) == base_ptr(s) <= addr /\ addr + BlockSize(k) <= SegEnd(s)

\* The indices of the free list of order k of segment s.
Idx(s, k) == 1..Len(free_list[s][k])

FreeWithin ==
  \A s \in Segs, k \in Orders : \A i \in Idx(s, k) :
    Within(s, k, free_list[s][k][i])

LiveWithin == \A b \in live : \E s \in 1..num_segtab :
                Within(s, OrderOf(b.n), b.p)

HeldWithin == call.op # "idle" => Within(call.seg, HeldOrder, call.addr)

FreeApart ==
  \A s, t \in Segs, k, l \in Orders : \A i \in Idx(s, k), j \in Idx(t, l) :
    \/ s = t /\ k = l /\ i = j
    \/ Apart(free_list[s][k][i], k, free_list[t][l][j], l)

FreeLiveApart ==
  \A s \in Segs, k \in Orders, b \in live : \A i \in Idx(s, k) :
    Apart(free_list[s][k][i], k, b.p, OrderOf(b.n))

LiveApart ==
  \A b, c \in live : b # c => Apart(b.p, OrderOf(b.n), c.p, OrderOf(c.n))

HeldFreeApart ==
  call.op # "idle" =>
    \A s \in Segs, k \in Orders : \A i \in Idx(s, k) :
      Apart(call.addr, HeldOrder, free_list[s][k][i], k)

HeldLiveApart ==
  call.op # "idle" =>
    \A b \in live : Apart(call.addr, HeldOrder, b.p, OrderOf(b.n))

\* No byte is in two places: the blocks that callers own, the blocks on the
\* free lists and the block that alloc or free has in hand are pairwise
\* disjoint, and each lies in the managed part of its segment, in every
\* state between two iterations of the loops of alloc and free.
BlocksDisjoint ==
  /\ FreeWithin
  /\ LiveWithin
  /\ HeldWithin
  /\ FreeApart
  /\ FreeLiveApart
  /\ LiveApart
  /\ HeldFreeApart
  /\ HeldLiveApart

\* The pages of segment s that the free lists can hand out, as offsets.
PagesOf(s) == 0..(Pow2(max_order(s)) - 1)

\* Page i of segment s lies in the block of order k at addr.
Covers(s, i, k, addr) ==
  addr <= base_ptr(s) + i * PageSize
    /\ base_ptr(s) + i * PageSize < addr + BlockSize(k)

\* Splitting and merging lose no memory: once initialised, every managed
\* page is owned by a caller, on a free list or in the block in hand.
NoPageLost ==
  num_segtab > 0 =>
    \A s \in Segs : \A i \in PagesOf(s) :
      \/ \E k \in Orders : \E j \in Idx(s, k) :
           Covers(s, i, k, free_list[s][k][j])
      \/ \E b \in live : Covers(s, i, OrderOf(b.n), b.p)
      \/ call.op # "idle" /\ Covers(s, i, HeldOrder, call.addr)

\* free undoes alloc: whatever the order of the calls, when callers own
\* nothing, the free lists are those that initialise set up.
RestoredWhenAllFreed ==
  num_segtab > 0 /\ call = Idle /\ live = {} => free_list = InitialLists

\* The block of order k at offset i * BlockSize(k) of segment s is unowned.
Unowned(s, k, i) ==
  \A b \in live : Apart(base_ptr(s) + i * BlockSize(k), k, b.p, OrderOf(b.n))

\* alloc returns nullptr only when there is no room: no aligned run of pages
\* as large as the request is free in any segment.  This rests on the
\* search of every list and on free merging buddies eagerly.
FailsOnlyWhenFull ==
  [][\A n \in Requests :
       num_segtab > 0 /\ AllocFail(n) =>
         \A s \in Segs : OrderOf(n) <= max_order(s) =>
           \A i \in 0..(Pow2(max_order(s) - OrderOf(n)) - 1) :
             ~Unowned(s, OrderOf(n), i)]_vars

\* A call that has found a block returns it: the splitting loop ends, and so
\* does the merging loop.
CallsReturn == call.op # "idle" ~> call.op = "idle"

Managed == {[lo |-> base_ptr(s), hi |-> SegEnd(s)] : s \in Segs}

Extent(n) == BlockSize(OrderOf(n))

Abs == INSTANCE PmmAbs WITH Regions <- Managed, owned <- live

\* The buddy allocator implements exclusive ownership of memory.
ImplementsAbs == Abs!Spec
=============================================================================
