----------------------------- MODULE PmmProofs -----------------------------
(***************************************************************************)
(* Proofs about the buddy allocator, for every memory map, every set of    *)
(* requests and every counter width that meet the assumptions of Pmm.      *)
(*                                                                         *)
(* The invariant Inv is inductive: TypeOK bounds the order of the block in *)
(* hand by its segment's largest order, and BlocksDisjoint keeps that      *)
(* block, the free blocks and the owned blocks apart.  No alignment fact   *)
(* is needed: free finds a buddy only on a free list, so the buddy is a    *)
(* block that is already known to be disjoint from all others, and the     *)
(* merged block is the union of the two.                                   *)
(*                                                                         *)
(* The free lists change in two ways only, one entry unlinked or one put   *)
(* at a head (IsUnlink, IsPush); UnlinkKeeps and PushKeeps say what each   *)
(* does to the invariant, and there is one lemma per action.               *)
(***************************************************************************)
EXTENDS Pmm, SequenceTheorems, WellFoundedInduction, TLAPS

\* Every index of free_list[16] is a shift that Pow2 models.
LEMMA OrdersShifts == \A k \in Orders : k \in Shifts
  BY DEF Orders, Shifts

\* 1ULL << k is a positive number.
LEMMA Pow2Type == \A k \in Shifts : Pow2(k) \in Nat \ {0}
  BY DEF Shifts, Pow2

\* 1ULL << (k + 1) is twice 1ULL << k.
LEMMA Pow2Double == \A k \in 0..17 : Pow2(k + 1) = 2 * Pow2(k)
  BY DEF Pow2

\* A block has a positive number of bytes.
LEMMA BlockSizeType ==
  \A k \in Shifts : BlockSize(k) \in Nat /\ BlockSize(k) > 0
  BY Pow2Type DEF BlockSize, PageSize

\* A block is as large as the two halves that alloc splits it into.
LEMMA BlockSizeDouble ==
  \A k \in 0..17 : BlockSize(k + 1) = BlockSize(k) + BlockSize(k)
  BY Pow2Double, Pow2Type DEF BlockSize, PageSize, Shifts

\* The loop that computes the order of a request of up to 1 GiB ends.
LEMMA OrderExists ==
  ASSUME NEW p \in Nat, p <= 262144
  PROVE  \E k \in Shifts : p <= Pow2(k) /\ \A j \in Shifts : j < k => Pow2(j) < p
  BY DEF Shifts, Pow2

\* The order that alloc and free compute is large enough for the n bytes of
\* the request.
LEMMA OrderOfType ==
  ASSUME NEW n \in Requests
  PROVE  /\ OrderOf(n) \in Shifts
         /\ n <= BlockSize(OrderOf(n))
<1>1. n \in Nat /\ n <= 262144 * 4096
  BY ConstantsAssumption DEF BlockSize, Pow2, PageSize
<1>2. Pages(n) \in Nat /\ Pages(n) <= 262144 /\ n <= Pages(n) * 4096
  BY <1>1 DEF Pages, PageSize
<1>3. \E k \in Shifts : /\ Pages(n) <= Pow2(k)
                        /\ \A j \in Shifts : j < k => Pow2(j) < Pages(n)
  BY <1>2, OrderExists
<1>4. OrderOf(n) \in Shifts /\ Pages(n) <= Pow2(OrderOf(n))
  BY <1>3, Zenon DEF OrderOf
<1> QED
  BY <1>1, <1>2, <1>4, Pow2Type DEF BlockSize, PageSize

-----------------------------------------------------------------------------
\* remove_block on the head of a list: the rest moves up by one.
LEMMA TailProps ==
  ASSUME NEW q \in Seq(Nat), q # <<>>
  PROVE  /\ Tail(q) \in Seq(Nat)
         /\ Len(q) >= 1
         /\ Len(Tail(q)) = Len(q) - 1
         /\ Head(q) = q[1]
         /\ Head(q) \in Nat
         /\ \A j \in 1..(Len(q) - 1) : Tail(q)[j] = q[j + 1]
  OBVIOUS

\* add_block: the new block is the head, the rest moves down by one.
LEMMA ConsProps ==
  ASSUME NEW q \in Seq(Nat), NEW e \in Nat
  PROVE  /\ Cons(e, q) \in Seq(Nat)
         /\ Len(Cons(e, q)) = Len(q) + 1
         /\ Cons(e, q)[1] = e
         /\ \A j \in 2..(Len(q) + 1) : Cons(e, q)[j] = q[j - 1]
  BY DEF Cons

\* remove_block inside a list: the entries behind it move up by one.
LEMMA RemoveAtProps ==
  ASSUME NEW q \in Seq(Nat), NEW i \in 1..Len(q)
  PROVE  /\ RemoveAt(q, i) \in Seq(Nat)
         /\ Len(RemoveAt(q, i)) = Len(q) - 1
         /\ \A j \in 1..(Len(q) - 1) :
              RemoveAt(q, i)[j] = q[IF j < i THEN j ELSE j + 1]
<1> DEFINE u == SubSeq(q, 1, i - 1)
           v == SubSeq(q, i + 1, Len(q))
<1>1. u \in Seq(Nat) /\ Len(u) = i - 1 /\ \A j \in 1..(i - 1) : u[j] = q[j]
  OBVIOUS
<1>2. /\ v \in Seq(Nat) /\ Len(v) = Len(q) - i
      /\ \A j \in 1..(Len(q) - i) : v[j] = q[j + i]
  OBVIOUS
<1> HIDE DEF u, v
<1>3. /\ u \o v \in Seq(Nat)
      /\ Len(u \o v) = Len(q) - 1
      /\ \A j \in 1..(Len(q) - 1) :
           (u \o v)[j] = IF j < i THEN u[j] ELSE v[j - (i - 1)]
  <2>1. /\ u \o v \in Seq(Nat)
        /\ Len(u \o v) = Len(u) + Len(v)
        /\ \A j \in 1..(Len(u) + Len(v)) :
             (u \o v)[j] = IF j <= Len(u) THEN u[j] ELSE v[j - Len(u)]
    BY <1>1, <1>2, ConcatProperties
  <2>2. Len(u) + Len(v) = Len(q) - 1 /\ \A j \in Int : j <= Len(u) <=> j < i
    BY <1>1, <1>2
  <2>3. ASSUME NEW j \in 1..(Len(q) - 1)
        PROVE  (u \o v)[j] = IF j < i THEN u[j] ELSE v[j - (i - 1)]
    <3>1. (u \o v)[j] = IF j <= Len(u) THEN u[j] ELSE v[j - Len(u)]
      BY <2>1, <2>2, Zenon
    <3>2. Len(u) = i - 1 /\ (j <= Len(u) <=> j < i)
      BY <1>1, <2>2
    <3> QED
      BY <3>1, <3>2, Zenon
  <2> QED
    BY <2>1, <2>2, <2>3, Zenon
<1>4. RemoveAt(q, i) = u \o v
  BY DEF RemoveAt, u, v
<1> HIDE DEF u, v
<1>5. ASSUME NEW j \in 1..(Len(q) - 1)
      PROVE  (u \o v)[j] = q[IF j < i THEN j ELSE j + 1]
  <2>1. CASE j < i
    BY <1>1, <1>3, <2>1
  <2>2. CASE ~(j < i)
    <3>1. j - (i - 1) \in 1..(Len(q) - i) /\ (j - (i - 1)) + i = j + 1
      BY <2>2
    <3>2. v[j - (i - 1)] = q[j + 1]
      BY <1>2, <3>1
    <3> QED
      BY <1>3, <2>2, <3>2
  <2> QED
    BY <2>1, <2>2
<1> QED
  BY <1>3, <1>4, <1>5

\* The free lists of all segments.
Lists == [Segs -> [Orders -> Seq(Nat)]]

\* The entries of the free lists are addresses, of blocks with a size.
LEMMA ListEntry ==
  ASSUME NEW f \in Lists, NEW t \in Segs, NEW l \in Orders,
         NEW j \in 1..Len(f[t][l])
  PROVE  f[t][l][j] \in Nat /\ BlockSize(l) \in Nat
<1>1. f[t][l] \in Seq(Nat)
  BY DEF Lists
<1>2. f[t][l][j] \in Nat
  BY <1>1, ElementOfSeq, Zenon
<1>3. BlockSize(l) \in Nat
  BY BlockSizeType, OrdersShifts
<1> QED
  BY <1>2, <1>3

\* The index in f of entry j of list (t, l) of g, when g is f without entry i
\* of list (s, k).
OldAt(s, k, i, t, l, j) == IF t = s /\ l = k /\ j >= i THEN j + 1 ELSE j

\* g is f without entry i of list (s, k).
IsUnlink(f, g, s, k, i) ==
  /\ g \in Lists
  /\ \A t \in Segs, l \in Orders : \A j \in 1..Len(g[t][l]) :
       /\ OldAt(s, k, i, t, l, j) \in 1..Len(f[t][l])
       /\ g[t][l][j] = f[t][l][OldAt(s, k, i, t, l, j)]

\* Taking the head off one list (alloc) is an unlinking of its entry 1.
LEMMA UnlinkTail ==
  ASSUME NEW f \in Lists, NEW s \in Segs, NEW k \in Orders, f[s][k] # <<>>
  PROVE  IsUnlink(f, [f EXCEPT ![s][k] = Tail(f[s][k])], s, k, 1)
<1> DEFINE g == [f EXCEPT ![s][k] = Tail(f[s][k])]
<1>1. f[s][k] \in Seq(Nat)
  BY DEF Lists
<1>2. g \in Lists
  BY <1>1, TailProps DEF Lists
<1>3. \A t \in Segs, l \in Orders :
        g[t][l] = IF t = s /\ l = k THEN Tail(f[s][k]) ELSE f[t][l]
  BY DEF Lists
<1> QED
  BY <1>1, <1>2, <1>3, TailProps DEF IsUnlink, OldAt, Lists

\* Taking the buddy off one list (free) is an unlinking of its entry.
LEMMA UnlinkRemoveAt ==
  ASSUME NEW f \in Lists, NEW s \in Segs, NEW k \in Orders,
         NEW i \in 1..Len(f[s][k])
  PROVE  IsUnlink(f, [f EXCEPT ![s][k] = RemoveAt(f[s][k], i)], s, k, i)
<1> DEFINE g == [f EXCEPT ![s][k] = RemoveAt(f[s][k], i)]
<1>1. f[s][k] \in Seq(Nat)
  BY DEF Lists
<1>2. g \in Lists
  BY <1>1, RemoveAtProps DEF Lists
<1>3. \A t \in Segs, l \in Orders :
        g[t][l] = IF t = s /\ l = k THEN RemoveAt(f[s][k], i) ELSE f[t][l]
  BY DEF Lists
<1> HIDE DEF g
<1>4. ASSUME NEW t \in Segs, NEW l \in Orders, NEW j \in 1..Len(g[t][l])
      PROVE  /\ OldAt(s, k, i, t, l, j) \in 1..Len(f[t][l])
             /\ g[t][l][j] = f[t][l][OldAt(s, k, i, t, l, j)]
  <2>1. CASE t = s /\ l = k
    <3> DEFINE q == f[s][k]
               r == RemoveAt(q, i)
    <3>1. g[t][l] = r /\ f[t][l] = q
      BY <1>3, <2>1
    <3>2. /\ Len(r) = Len(q) - 1
          /\ \A m \in 1..(Len(q) - 1) : r[m] = q[IF m < i THEN m ELSE m + 1]
      BY <1>1, RemoveAtProps
    <3>3. Len(q) \in Nat
      BY <1>1
    <3> HIDE DEF q, r
    <3> QED
      BY <2>1, <3>1, <3>2, <3>3 DEF OldAt
  <2>2. CASE ~(t = s /\ l = k)
    BY <1>3, <2>2 DEF OldAt
  <2> QED
    BY <2>1, <2>2
<1> QED
  BY <1>2, <1>4 DEF IsUnlink, g

\* g is f with addr put at the head of list (s, k).
IsPush(f, g, s, k, addr) ==
  /\ g \in Lists
  /\ Len(g[s][k]) >= 1
  /\ g[s][k][1] = addr
  /\ \A t \in Segs, l \in Orders : \A j \in 1..Len(g[t][l]) :
       \/ t = s /\ l = k /\ j = 1
       \/ t = s /\ l = k /\ j - 1 \in 1..Len(f[t][l]) /\ g[t][l][j] = f[t][l][j - 1]
       \/ ~(t = s /\ l = k) /\ j \in 1..Len(f[t][l]) /\ g[t][l][j] = f[t][l][j]

\* add_block is a push on one list.
LEMMA PushCons ==
  ASSUME NEW f \in Lists, NEW s \in Segs, NEW k \in Orders, NEW addr \in Nat
  PROVE  IsPush(f, [f EXCEPT ![s][k] = Cons(addr, f[s][k])], s, k, addr)
<1> DEFINE g == [f EXCEPT ![s][k] = Cons(addr, f[s][k])]
<1>1. f[s][k] \in Seq(Nat)
  BY DEF Lists
<1>2. g \in Lists
  BY <1>1, ConsProps DEF Lists
<1>3. \A t \in Segs, l \in Orders :
        g[t][l] = IF t = s /\ l = k THEN Cons(addr, f[s][k]) ELSE f[t][l]
  BY DEF Lists
<1> HIDE DEF g
<1> DEFINE q == f[s][k]
           r == Cons(addr, q)
<1>4. /\ Len(q) \in Nat
      /\ Len(r) = Len(q) + 1
      /\ r[1] = addr
      /\ \A m \in 2..(Len(q) + 1) : r[m] = q[m - 1]
  <2>1. Len(q) \in Nat
    BY <1>1
  <2>2. q \in Seq(Nat)
    BY <1>1
  <2> HIDE DEF q
  <2> QED
    BY <2>1, <2>2, ConsProps, Zenon
<1>5. g[s][k] = r /\ f[s][k] = q
  BY <1>3
<1> HIDE DEF q, r
<1>6. ASSUME NEW t \in Segs, NEW l \in Orders, NEW j \in 1..Len(g[t][l])
      PROVE  \/ t = s /\ l = k /\ j = 1
             \/ /\ t = s /\ l = k
                /\ j - 1 \in 1..Len(f[t][l]) /\ g[t][l][j] = f[t][l][j - 1]
             \/ /\ ~(t = s /\ l = k)
                /\ j \in 1..Len(f[t][l]) /\ g[t][l][j] = f[t][l][j]
  <2>1. CASE t = s /\ l = k
    BY <1>4, <1>5, <2>1
  <2>2. CASE ~(t = s /\ l = k)
    BY <1>3, <2>2
  <2> QED
    BY <2>1, <2>2
<1> QED
  BY <1>2, <1>4, <1>5, <1>6 DEF IsPush, g

-----------------------------------------------------------------------------
\* The fields of the segment table, and the end of what a segment manages.
LEMMA SegFacts ==
  /\ Len(segtab) \in Nat /\ Segs = 1..Len(segtab)
  /\ \A s \in Segs : /\ base_ptr(s) \in Nat /\ size(s) \in Nat
                     /\ max_order(s) \in Orders
                     /\ SegEnd(s) \in Nat
                     /\ SegEnd(s) = base_ptr(s) + BlockSize(max_order(s))
<1>1. segtab \in Seq([base_ptr: Nat, size: Nat, max_order: Orders])
  BY SegtabAssumption
<1>2. Len(segtab) \in Nat /\ Segs = 1..Len(segtab)
  BY <1>1 DEF Segs
<1>3. \A s \in Segs : segtab[s] \in [base_ptr: Nat, size: Nat, max_order: Orders]
  BY <1>1, <1>2, ElementOfSeq, Zenon
<1>4. \A s \in Segs : /\ base_ptr(s) \in Nat /\ size(s) \in Nat
                      /\ max_order(s) \in Orders
  BY <1>3 DEF base_ptr, size, max_order
<1>5. ASSUME NEW s \in Segs
      PROVE  /\ SegEnd(s) \in Nat
             /\ SegEnd(s) = base_ptr(s) + BlockSize(max_order(s))
  <2>1. SegEnd(s) = base_ptr(s) + BlockSize(max_order(s))
    BY DEF SegEnd, ManagedEnd, base_ptr, max_order
  <2>2. BlockSize(max_order(s)) \in Nat
    BY <1>4, BlockSizeType DEF Orders, Shifts
  <2> QED
    BY <1>4, <2>1, <2>2
<1> QED
  BY <1>2, <1>4, <1>5

\* A block that fits in another one has no larger order.
LEMMA BlockSizeMono ==
  ASSUME NEW j \in Shifts, NEW k \in Shifts, BlockSize(j) <= BlockSize(k)
  PROVE  j <= k
<1>1. Pow2(k) < Pow2(j) \/ j <= k
  BY DEF Pow2, Shifts
<1> QED
  BY <1>1, Pow2Type DEF BlockSize, PageSize

\* The inductive invariant.
Inv == TypeOK /\ BlocksDisjoint

\* The invariant holds before initialise has run.
LEMMA InitInv == Init => Inv
<1> SUFFICES ASSUME Init PROVE Inv
  OBVIOUS
<1> USE DEF Init
<1>1. TypeOK
  BY ConstantsAssumption DEF TypeOK, Idle, Calls, Shifts
<1>2. BlocksDisjoint
  BY DEF BlocksDisjoint, FreeWithin, LiveWithin, HeldWithin, FreeApart,
         FreeLiveApart, LiveApart, HeldFreeApart, HeldLiveApart, Idx, Idle
<1> QED
  BY <1>1, <1>2 DEF Inv

\* Unlinking a block keeps the free blocks apart and in their segments, and
\* leaves the unlinked block apart from all that stay.
LEMMA UnlinkKeeps ==
  ASSUME Inv, NEW s \in Segs, NEW k \in Orders, NEW i \in Idx(s, k),
         IsUnlink(free_list, free_list', s, k, i), live' = live
  PROVE  /\ FreeWithin' /\ FreeApart' /\ FreeLiveApart'
         /\ \A t \in Segs, l \in Orders : \A j \in Idx(t, l)' :
              /\ Apart(free_list[s][k][i], k, free_list[t][l][j]', l)
              /\ \E m \in Idx(t, l) : free_list[t][l][j]' = free_list[t][l][m]
<1> DEFINE old(t, l, j) == OldAt(s, k, i, t, l, j)
<1>1. \A t \in Segs, l \in Orders : \A j \in Idx(t, l)' :
        /\ old(t, l, j) \in Idx(t, l)
        /\ free_list[t][l][j]' = free_list[t][l][old(t, l, j)]
  BY DEF IsUnlink, Idx
<1>2. \A t \in Segs, l \in Orders : \A j \in Idx(t, l)' :
        ~(t = s /\ l = k /\ old(t, l, j) = i)
  BY DEF OldAt, Idx
<1>3. \A t \in Segs, l \in Orders : \A j, m \in Idx(t, l)' :
        old(t, l, j) = old(t, l, m) => j = m
  BY DEF OldAt, Idx
<1> HIDE DEF old
<1>4. FreeWithin'
  BY <1>1 DEF Inv, BlocksDisjoint, FreeWithin
<1>5. FreeApart'
  <2> SUFFICES ASSUME NEW t \in Segs, NEW u \in Segs,
                      NEW l \in Orders, NEW m \in Orders,
                      NEW j \in Idx(t, l)', NEW n \in Idx(u, m)',
                      ~(t = u /\ l = m /\ j = n)
               PROVE  Apart(free_list[t][l][j]', l, free_list[u][m][n]', m)
    BY DEF FreeApart
  <2>1. ~(t = u /\ l = m /\ old(t, l, j) = old(u, m, n))
    BY <1>3
  <2> QED
    BY <1>1, <2>1 DEF Inv, BlocksDisjoint, FreeApart
<1>6. FreeLiveApart'
  BY <1>1 DEF Inv, BlocksDisjoint, FreeLiveApart
<1>7. ASSUME NEW t \in Segs, NEW l \in Orders, NEW j \in Idx(t, l)'
      PROVE  /\ Apart(free_list[s][k][i], k, free_list[t][l][j]', l)
             /\ \E m \in Idx(t, l) : free_list[t][l][j]' = free_list[t][l][m]
  BY <1>1, <1>2 DEF Inv, BlocksDisjoint, FreeApart
<1> QED
  BY <1>4, <1>5, <1>6, <1>7

\* Putting a block on a list keeps the free blocks apart, if the block is in
\* the segment and apart from every free and every owned block.
LEMMA PushKeeps ==
  ASSUME Inv, NEW s \in Segs, NEW k \in Orders, NEW addr \in Nat,
         IsPush(free_list, free_list', s, k, addr), live' = live,
         Within(s, k, addr),
         \A t \in Segs, l \in Orders : \A j \in Idx(t, l) :
           Apart(addr, k, free_list[t][l][j], l),
         \A b \in live : Apart(addr, k, b.p, OrderOf(b.n))
  PROVE  /\ FreeWithin' /\ FreeApart' /\ FreeLiveApart'
         /\ \A t \in Segs, l \in Orders : \A j \in Idx(t, l)' :
              \/ t = s /\ l = k /\ free_list[t][l][j]' = addr
              \/ \E m \in Idx(t, l) : free_list[t][l][j]' = free_list[t][l][m]
<1> DEFINE new(t, l, j) == t = s /\ l = k /\ j = 1
           old(t, l, j) == IF t = s /\ l = k THEN j - 1 ELSE j
<1>1. \A t \in Segs, l \in Orders : \A j \in Idx(t, l)' :
        \/ new(t, l, j) /\ free_list[t][l][j]' = addr
        \/ /\ ~new(t, l, j)
           /\ old(t, l, j) \in Idx(t, l)
           /\ free_list[t][l][j]' = free_list[t][l][old(t, l, j)]
  BY DEF IsPush, Idx
<1>2. \A t \in Segs, l \in Orders : \A j, m \in Idx(t, l)' :
        old(t, l, j) = old(t, l, m) => j = m
  BY DEF Idx
<1>3. \A t, u \in Segs, l, m \in Orders : \A j \in Idx(t, l)', n \in Idx(u, m)' :
        new(t, l, j) /\ new(u, m, n) => t = u /\ l = m /\ j = n
  OBVIOUS
<1>4. \A t \in Segs, l \in Orders : \A j \in Idx(t, l)' :
        new(t, l, j) => t = s /\ l = k
  OBVIOUS
<1> HIDE DEF old, new
<1>5. FreeWithin'
  BY <1>1, <1>4 DEF Inv, BlocksDisjoint, FreeWithin
<1>6. FreeApart'
  <2> SUFFICES ASSUME NEW t \in Segs, NEW u \in Segs,
                      NEW l \in Orders, NEW m \in Orders,
                      NEW j \in Idx(t, l)', NEW n \in Idx(u, m)',
                      ~(t = u /\ l = m /\ j = n)
               PROVE  Apart(free_list[t][l][j]', l, free_list[u][m][n]', m)
    BY DEF FreeApart
  <2>1. ~(t = u /\ l = m /\ old(t, l, j) = old(u, m, n))
    BY <1>2
  <2>2. CASE ~new(t, l, j) /\ ~new(u, m, n)
    BY <1>1, <2>1, <2>2 DEF Inv, BlocksDisjoint, FreeApart
  <2>3. CASE new(t, l, j) /\ ~new(u, m, n)
    BY <1>1, <1>4, <2>3
  <2>4. CASE ~new(t, l, j) /\ new(u, m, n)
    BY <1>1, <1>4, <2>4 DEF Apart
  <2>5. CASE new(t, l, j) /\ new(u, m, n)
    BY <1>3, <2>5
  <2> QED
    BY <2>2, <2>3, <2>4, <2>5
<1>7. FreeLiveApart'
  BY <1>1, <1>4 DEF Inv, BlocksDisjoint, FreeLiveApart
<1> QED
  BY <1>1, <1>4, <1>5, <1>6, <1>7

-----------------------------------------------------------------------------
\* initialise: one block per segment, and segments do not overlap.
LEMMA initialiseKeeps == ASSUME Inv, initialise PROVE Inv'
<1>1. live = {} /\ live' = {} /\ call = Idle /\ call' = Idle
  <2>1. 1..num_segtab = {}
    BY DEF initialise
  <2> QED
    BY <2>1 DEF Inv, BlocksDisjoint, LiveWithin, initialise
<1>2. free_list' \in Lists
  BY SegFacts DEF initialise, InitialLists, Lists
<1>3. ASSUME NEW s \in Segs, NEW k \in Orders, NEW i \in Idx(s, k)'
      PROVE  k = max_order(s) /\ i = 1 /\ free_list[s][k][i]' = base_ptr(s)
  BY SegFacts DEF initialise, InitialLists, Idx
<1>4. TypeOK'
  <2>1. /\ num_segtab' \in {0, Len(segtab)}
        /\ pages_used' \in [Segs -> 0..(CounterMod - 1)]
        /\ num_used' \in 0..(CounterMod - 1)
        /\ num_errors' \in 0..MaxErrors
    BY ConstantsAssumption DEF initialise
  <2>2. Idle \in Calls
    BY DEF Idle, Calls, Shifts
  <2> QED
    BY <1>1, <1>2, <2>1, <2>2 DEF TypeOK, Lists, Idle
<1>5. FreeWithin'
  BY <1>3, SegFacts DEF FreeWithin, Within
<1>6. FreeApart'
  <2> SUFFICES ASSUME NEW s \in Segs, NEW t \in Segs,
                      NEW k \in Orders, NEW l \in Orders,
                      NEW i \in Idx(s, k)', NEW j \in Idx(t, l)',
                      ~(s = t /\ k = l /\ i = j)
               PROVE  Apart(free_list[s][k][i]', k, free_list[t][l][j]', l)
    BY DEF FreeApart
  <2>1. s # t
    BY <1>3
  <2>2. \/ base_ptr(s) + size(s) <= base_ptr(t)
        \/ base_ptr(t) + size(t) <= base_ptr(s)
    BY <2>1, SegtabAssumption
  <2>3. SegEnd(s) <= base_ptr(s) + size(s) /\ SegEnd(t) <= base_ptr(t) + size(t)
    BY SegtabAssumption
  <2>4. /\ Within(s, k, free_list[s][k][i]') /\ free_list[s][k][i]' = base_ptr(s)
        /\ Within(t, l, free_list[t][l][j]') /\ free_list[t][l][j]' = base_ptr(t)
    BY <1>3, <1>5 DEF FreeWithin
  <2>5. BlockSize(k) \in Nat /\ BlockSize(l) \in Nat
    BY BlockSizeType, OrdersShifts
  <2> QED
    BY <2>2, <2>3, <2>4, <2>5, SegFacts DEF Within, Apart
<1> QED
  BY <1>1, <1>4, <1>5, <1>6
     DEF Inv, BlocksDisjoint, LiveWithin, HeldWithin, FreeLiveApart,
         LiveApart, HeldFreeApart, HeldLiveApart, Idle

\* alloc takes a block off its list: it is in hand, and apart from the rest.
LEMMA AllocTakeKeeps ==
  ASSUME Inv, NEW n \in Requests, AllocTake(n)
  PROVE  Inv'
<1>1. PICK s \in 1..num_segtab, k \in Orders :
        /\ FirstServing(s, k, OrderOf(n))
        /\ free_list' = [free_list EXCEPT ![s][k] = Tail(free_list[s][k])]
        /\ call' = [op |-> "split", seg |-> s, order |-> OrderOf(n),
                    current |-> k, addr |-> Head(free_list[s][k]), n |-> n]
  BY DEF AllocTake
<1>2. s \in Segs
  BY SegFacts DEF Inv, TypeOK
<1>3. OrderOf(n) \in Shifts
  BY OrderOfType
<1>4. free_list[s][k] # <<>> /\ k \in OrderOf(n)..max_order(s)
  BY <1>1 DEF FirstServing, Serves
<1>5. free_list \in Lists /\ free_list[s][k] \in Seq(Nat)
  BY <1>2 DEF Inv, TypeOK, Lists
<1>6. IsUnlink(free_list, free_list', s, k, 1)
  BY <1>1, <1>2, <1>4, <1>5, UnlinkTail
<1>7. /\ 1 \in Idx(s, k)
      /\ Head(free_list[s][k]) = free_list[s][k][1]
      /\ Head(free_list[s][k]) \in Nat
  BY <1>4, <1>5, TailProps DEF Idx
<1>8. UNCHANGED <<num_segtab, pages_used, num_used, num_errors, live>>
  BY DEF AllocTake
<1>9. TypeOK'
  <2>1. call' \in Calls
    BY <1>1, <1>2, <1>3, <1>7 DEF Calls, Orders, Shifts
  <2>2. free_list' \in [Segs -> [Orders -> Seq(Nat)]]
    BY <1>6 DEF IsUnlink, Lists
  <2>3. /\ HeldOrder' = k /\ k \in 0..max_order(s)
        /\ call.op' = "split" /\ call.seg' = s /\ call.n' = n
        /\ call.order' = OrderOf(n) /\ call.current' = k
        /\ OrderOf(n) <= k
    <3>1. /\ call.op' = "split" /\ call.seg' = s /\ call.n' = n
          /\ call.order' = OrderOf(n) /\ call.current' = k
      BY <1>1
    <3>2. max_order(s) \in 0..15 /\ OrderOf(n) \in 0..18
      BY <1>2, <1>3, SegFacts DEF Orders, Shifts
    <3>3. k \in 0..max_order(s) /\ OrderOf(n) <= k
      BY <1>4, <3>2
    <3> QED
      BY <3>1, <3>3 DEF HeldOrder
  <2> QED
    BY <1>2, <1>8, <2>1, <2>2, <2>3 DEF Inv, TypeOK
<1>10. call.addr' = free_list[s][k][1] /\ HeldOrder' = k /\ call.seg' = s
  BY <1>1, <1>7 DEF HeldOrder
<1>11. /\ FreeWithin' /\ FreeApart' /\ FreeLiveApart'
       /\ \A t \in Segs, l \in Orders : \A j \in Idx(t, l)' :
            Apart(free_list[s][k][1], k, free_list[t][l][j]', l)
  BY <1>2, <1>6, <1>7, <1>8, UnlinkKeeps
<1>12. HeldWithin' /\ HeldFreeApart'
  BY <1>2, <1>7, <1>10, <1>11
     DEF Inv, BlocksDisjoint, FreeWithin, HeldWithin, HeldFreeApart
<1>13. HeldLiveApart'
  BY <1>2, <1>7, <1>8, <1>10
     DEF Inv, BlocksDisjoint, FreeLiveApart, HeldLiveApart
<1>14. LiveWithin' /\ LiveApart'
  BY <1>8 DEF Inv, BlocksDisjoint, LiveWithin, LiveApart
<1> QED
  BY <1>9, <1>11, <1>12, <1>13, <1>14 DEF Inv, BlocksDisjoint

\* A failed alloc changes only the error counter.
LEMMA AllocFailKeeps ==
  ASSUME Inv, NEW n \in Requests, AllocFail(n)
  PROVE  Inv'
<1>1. UNCHANGED <<num_segtab, free_list, pages_used, num_used, call, live>>
  BY DEF AllocFail
<1>2. num_errors' \in 0..MaxErrors
  BY ConstantsAssumption DEF AllocFail, Inv, TypeOK
<1>3. TypeOK'
  BY <1>1, <1>2 DEF Inv, TypeOK, HeldOrder
<1>4. BlocksDisjoint'
  BY <1>1 DEF Inv, BlocksDisjoint, FreeWithin, LiveWithin, HeldWithin,
              FreeApart, FreeLiveApart, LiveApart, HeldFreeApart,
              HeldLiveApart, HeldOrder, Idx
<1> QED
  BY <1>3, <1>4 DEF Inv

\* alloc splits the block in hand: the upper half is free, the lower in hand.
LEMMA AllocSplitKeeps == ASSUME Inv, AllocSplit PROVE Inv'
<1> DEFINE s == call.seg
           k == call.current - 1
           a == call.addr
           up == a + BlockSize(k)
<1>1. /\ call \in Calls /\ call.op = "split" /\ call.op # "idle"
      /\ s \in 1..num_segtab /\ s \in Segs /\ call.n \in Requests
      /\ call.order \in Shifts /\ call.current \in Shifts
      /\ a \in Nat /\ HeldOrder = call.current
      /\ call.current \in 0..max_order(s) /\ call.order = OrderOf(call.n)
      /\ call.order < call.current
  BY SegFacts DEF AllocSplit, Inv, TypeOK, HeldOrder, Calls
<1>2. /\ k \in Orders /\ k \in Shifts /\ k \in 0..17
      /\ k + 1 = call.current /\ k \in 0..max_order(s) /\ call.order <= k
  <2>1. max_order(s) \in 0..15
    BY <1>1, SegFacts DEF Orders
  <2> QED
    BY <1>1, <2>1 DEF Orders, Shifts
<1>3. /\ BlockSize(k) \in Nat /\ BlockSize(k) > 0
      /\ BlockSize(call.current) = BlockSize(k) + BlockSize(k)
  <2> HIDE DEF k
  <2> QED
    BY <1>2, BlockSizeType, BlockSizeDouble
<1>4. up \in Nat
  BY <1>1, <1>3
<1>5. /\ call' = [call EXCEPT !.current = k]
      /\ free_list' = [free_list EXCEPT ![s][k] = Cons(up, free_list[s][k])]
      /\ UNCHANGED <<num_segtab, pages_used, num_used, num_errors, live>>
  BY DEF AllocSplit, add_block
<1>6. /\ call' \in Calls /\ call.op' = "split" /\ call.seg' = s
      /\ call.n' = call.n /\ call.order' = call.order
      /\ call.current' = k /\ call.addr' = a /\ HeldOrder' = k
  BY <1>1, <1>2, <1>5 DEF Calls, HeldOrder
<1> HIDE DEF s, k, a, up
<1>7. free_list \in Lists
  BY DEF Inv, TypeOK, Lists
<1>8. IsPush(free_list, free_list', s, k, up)
  BY <1>1, <1>2, <1>4, <1>5, <1>7, PushCons
<1>9. Within(s, k, up) /\ Within(s, k, a)
  <2>1. Within(s, call.current, a)
    BY <1>1 DEF Inv, BlocksDisjoint, HeldWithin, s, a
  <2> QED
    BY <1>1, <1>3, <2>1, SegFacts DEF Within, up
<1>10. ASSUME NEW t \in Segs, NEW l \in Orders, NEW j \in Idx(t, l)
       PROVE  /\ Apart(up, k, free_list[t][l][j], l)
              /\ Apart(a, k, free_list[t][l][j], l)
  <2>1. Apart(a, call.current, free_list[t][l][j], l)
    BY <1>1 DEF Inv, BlocksDisjoint, HeldFreeApart, a
  <2>2. free_list[t][l][j] \in Nat /\ BlockSize(l) \in Nat
    BY <1>7, ListEntry DEF Idx
  <2> QED
    BY <1>1, <1>3, <2>1, <2>2 DEF Apart, up
<1>11. ASSUME NEW b \in live
       PROVE  /\ Apart(up, k, b.p, OrderOf(b.n))
              /\ Apart(a, k, b.p, OrderOf(b.n))
  <2>1. Apart(a, call.current, b.p, OrderOf(b.n))
    BY <1>1 DEF Inv, BlocksDisjoint, HeldLiveApart, a
  <2>2. b.p \in Nat /\ b.n \in Requests
    BY DEF Inv, TypeOK
  <2>3. BlockSize(OrderOf(b.n)) \in Nat
    BY <2>2, OrderOfType, BlockSizeType
  <2> QED
    BY <1>1, <1>3, <2>1, <2>2, <2>3 DEF Apart, up
<1>12. /\ FreeWithin' /\ FreeApart' /\ FreeLiveApart'
       /\ \A t \in Segs, l \in Orders : \A j \in Idx(t, l)' :
            \/ t = s /\ l = k /\ free_list[t][l][j]' = up
            \/ \E m \in Idx(t, l) : free_list[t][l][j]' = free_list[t][l][m]
  BY <1>1, <1>2, <1>4, <1>5, <1>8, <1>9, <1>10, <1>11, PushKeeps, ZenonT(60)
<1>13. TypeOK'
  <2>1. free_list' \in [Segs -> [Orders -> Seq(Nat)]]
    BY <1>8 DEF IsPush, Lists
  <2> QED
    BY <1>1, <1>2, <1>5, <1>6, <2>1 DEF Inv, TypeOK
<1>14. HeldWithin'
  BY <1>6, <1>9 DEF HeldWithin
<1>15. HeldFreeApart'
  <2> SUFFICES ASSUME NEW t \in Segs, NEW l \in Orders, NEW j \in Idx(t, l)'
               PROVE  Apart(a, k, free_list[t][l][j]', l)
    BY <1>6 DEF HeldFreeApart
  <2>1. CASE t = s /\ l = k /\ free_list[t][l][j]' = up
    BY <1>1, <1>3, <2>1 DEF Apart, up
  <2>2. CASE \E m \in Idx(t, l) : free_list[t][l][j]' = free_list[t][l][m]
    BY <1>10, <2>2
  <2> QED
    BY <1>12, <2>1, <2>2
<1>16. HeldLiveApart'
  BY <1>5, <1>6, <1>11 DEF HeldLiveApart
<1>17. LiveWithin' /\ LiveApart'
  BY <1>5 DEF Inv, BlocksDisjoint, LiveWithin, LiveApart
<1> QED
  BY <1>12, <1>13, <1>14, <1>15, <1>16, <1>17 DEF Inv, BlocksDisjoint

\* alloc returns the block in hand: it is owned.
LEMMA AllocReturnKeeps == ASSUME Inv, AllocReturn PROVE Inv'
<1> DEFINE new == [p |-> call.addr, n |-> call.n]
<1>1. /\ call \in Calls /\ call.op # "idle"
      /\ call.seg \in 1..num_segtab /\ call.seg \in Segs
      /\ call.n \in Requests /\ call.addr \in Nat
      /\ HeldOrder = OrderOf(call.n)
  BY SegFacts DEF AllocReturn, Inv, TypeOK, HeldOrder, Calls
<1>2. /\ live' = live \cup {new} /\ call' = Idle
      /\ UNCHANGED <<num_segtab, free_list, num_errors>>
  BY DEF AllocReturn
<1>3. /\ new.p = call.addr /\ new.n = call.n /\ OrderOf(new.n) = HeldOrder
      /\ new \in [p: Nat, n: Requests]
  BY <1>1
<1> HIDE DEF new
<1>4. TypeOK'
  <2>1. Idle \in Calls /\ Idle.op = "idle"
    BY DEF Idle, Calls, Shifts
  <2>2. Pow2(call.order) \in Nat
    BY <1>1, Pow2Type DEF Calls
  <2>3. num_used' \in 0..(CounterMod - 1)
    BY <2>2, ConstantsAssumption DEF AllocReturn, Inv, TypeOK
  <2>4. pages_used' \in [Segs -> 0..(CounterMod - 1)]
    <3>1. pages_used[call.seg] \in Nat
      BY <1>1 DEF Inv, TypeOK
    <3>2. (pages_used[call.seg] + Pow2(call.order)) % CounterMod
            \in 0..(CounterMod - 1)
      BY <2>2, <3>1, ConstantsAssumption
    <3> QED
      BY <3>2 DEF AllocReturn, Inv, TypeOK
  <2>5. live' \subseteq [p: Nat, n: Requests]
    BY <1>2, <1>3 DEF Inv, TypeOK
  <2> QED
    BY <1>2, <2>1, <2>3, <2>4, <2>5 DEF Inv, TypeOK
<1>5. FreeWithin' /\ FreeApart'
  BY <1>2 DEF Inv, BlocksDisjoint, FreeWithin, FreeApart, Idx
<1>6. FreeLiveApart'
  <2> SUFFICES ASSUME NEW s \in Segs, NEW k \in Orders, NEW b \in live',
                      NEW i \in Idx(s, k)
               PROVE  Apart(free_list[s][k][i], k, b.p, OrderOf(b.n))
    BY <1>2 DEF FreeLiveApart, Idx
  <2>1. CASE b \in live
    BY <2>1 DEF Inv, BlocksDisjoint, FreeLiveApart
  <2>2. CASE b = new
    BY <1>1, <1>3, <2>2 DEF Inv, BlocksDisjoint, HeldFreeApart, Apart
  <2> QED
    BY <1>2, <2>1, <2>2
<1>7. LiveApart'
  <2> SUFFICES ASSUME NEW b \in live', NEW c \in live', b # c
               PROVE  Apart(b.p, OrderOf(b.n), c.p, OrderOf(c.n))
    BY DEF LiveApart
  <2>1. CASE b \in live /\ c \in live
    BY <2>1 DEF Inv, BlocksDisjoint, LiveApart
  <2>2. CASE b = new /\ c \in live
    BY <1>1, <1>3, <2>2 DEF Inv, BlocksDisjoint, HeldLiveApart
  <2>3. CASE b \in live /\ c = new
    BY <1>1, <1>3, <2>3 DEF Inv, BlocksDisjoint, HeldLiveApart, Apart
  <2> QED
    BY <1>2, <2>1, <2>2, <2>3
<1>8. LiveWithin'
  <2> QED
    BY <1>1, <1>2, <1>3 DEF Inv, BlocksDisjoint, LiveWithin, HeldWithin
<1>9. HeldWithin' /\ HeldFreeApart' /\ HeldLiveApart'
  BY <1>2 DEF HeldWithin, HeldFreeApart, HeldLiveApart, Idle
<1> QED
  BY <1>4, <1>5, <1>6, <1>7, <1>8, <1>9 DEF Inv, BlocksDisjoint

\* free takes an owned block in hand: the segment that holds its address is
\* the one that contains all of it.
LEMMA FreeCallKeeps ==
  ASSUME Inv, NEW b \in live, FreeCall(b)
  PROVE  Inv'
<1>1. PICK s \in 1..num_segtab :
        /\ Holds(s, b.p)
        /\ call' = [op |-> "merge", seg |-> s, order |-> OrderOf(b.n),
                    current |-> 0, addr |-> b.p, n |-> b.n]
  BY DEF FreeCall
<1>2. /\ live' = live \ {b}
      /\ UNCHANGED <<num_segtab, free_list, pages_used, num_used, num_errors>>
  BY DEF FreeCall
<1>3. /\ b.p \in Nat /\ b.n \in Requests /\ s \in Segs
      /\ OrderOf(b.n) \in Shifts /\ BlockSize(OrderOf(b.n)) \in Nat
      /\ BlockSize(OrderOf(b.n)) > 0
  <2>1. b.p \in Nat /\ b.n \in Requests /\ s \in Segs
    BY SegFacts DEF Inv, TypeOK
  <2> QED
    BY <2>1, OrderOfType, BlockSizeType
<1>4. Within(s, OrderOf(b.n), b.p)
  <2>1. PICK t \in 1..num_segtab : Within(t, OrderOf(b.n), b.p)
    BY DEF Inv, BlocksDisjoint, LiveWithin
  <2>2. t \in Segs
    BY SegFacts DEF Inv, TypeOK
  <2>3. s = t
    <3> SUFFICES ASSUME s # t PROVE FALSE
      OBVIOUS
    <3>1. \/ base_ptr(s) + size(s) <= base_ptr(t)
          \/ base_ptr(t) + size(t) <= base_ptr(s)
      BY <1>3, <2>2, SegtabAssumption
    <3>2. SegEnd(t) <= base_ptr(t) + size(t)
      BY <2>2, SegtabAssumption
    <3>3. /\ base_ptr(s) \in Nat /\ size(s) \in Nat /\ SegEnd(t) \in Nat
          /\ base_ptr(t) \in Nat /\ size(t) \in Nat
      BY <1>3, <2>2, SegFacts
    <3>4. base_ptr(s) <= b.p /\ b.p < base_ptr(s) + size(s)
      BY <1>1, <1>3, <3>3 DEF Holds
    <3>5. base_ptr(t) <= b.p /\ b.p < SegEnd(t)
      BY <1>3, <2>1, <3>3 DEF Within
    <3> QED
      BY <1>3, <3>1, <3>2, <3>3, <3>4, <3>5
  <2> QED
    BY <2>1, <2>3
<1>5. OrderOf(b.n) \in 0..max_order(s)
  <2>1. max_order(s) \in 0..15 /\ max_order(s) \in Shifts
    BY <1>3, SegFacts DEF Orders, Shifts
  <2>2. BlockSize(OrderOf(b.n)) <= BlockSize(max_order(s))
    BY <1>3, <1>4, <2>1, SegFacts, BlockSizeType DEF Within
  <2>3. OrderOf(b.n) <= max_order(s)
    BY <1>3, <2>1, <2>2, BlockSizeMono
  <2> QED
    BY <1>3, <2>1, <2>3 DEF Shifts
<1>6. /\ call' \in Calls /\ call.op' = "merge" /\ call.seg' = s
      /\ call.n' = b.n /\ call.addr' = b.p /\ HeldOrder' = OrderOf(b.n)
  BY <1>1, <1>3 DEF Calls, HeldOrder, Shifts
<1>7. TypeOK'
  BY <1>2, <1>3, <1>5, <1>6 DEF Inv, TypeOK
<1>8. FreeWithin' /\ FreeApart'
  BY <1>2 DEF Inv, BlocksDisjoint, FreeWithin, FreeApart, Idx
<1>9. FreeLiveApart' /\ LiveApart' /\ LiveWithin'
  BY <1>2 DEF Inv, BlocksDisjoint, FreeLiveApart, LiveApart, LiveWithin, Idx
<1>10. HeldWithin'
  BY <1>4, <1>6 DEF HeldWithin
<1>11. HeldFreeApart'
  BY <1>2, <1>6
     DEF Inv, BlocksDisjoint, FreeLiveApart, HeldFreeApart, Idx, Apart
<1>12. HeldLiveApart'
  BY <1>2, <1>6 DEF Inv, BlocksDisjoint, LiveApart, HeldLiveApart
<1> QED
  BY <1>7, <1>8, <1>9, <1>10, <1>11, <1>12 DEF Inv, BlocksDisjoint

\* free merges: the block in hand and its buddy, taken off the list, are two
\* adjacent blocks, and their union is the block in hand.
LEMMA FreeMergeKeeps == ASSUME Inv, FreeMerge PROVE Inv'
<1> DEFINE s == call.seg
           k == call.order
           a == call.addr
           buddy == Buddy(s, k, a)
           low == IF buddy < a THEN buddy ELSE a
<1>1. /\ call \in Calls /\ call.op = "merge" /\ call.op # "idle"
      /\ s \in 1..num_segtab /\ s \in Segs /\ call.n \in Requests
      /\ k \in Shifts /\ a \in Nat /\ HeldOrder = k
  BY SegFacts DEF FreeMerge, Inv, TypeOK, HeldOrder, Calls
<1>2. PICK i \in 1..Len(free_list[s][k]) :
        /\ IsBuddyAt(i)
        /\ free_list' = [free_list EXCEPT ![s][k] = RemoveAt(free_list[s][k], i)]
  BY DEF FreeMerge
<1>3. /\ call' = [call EXCEPT !.order = k + 1, !.addr = low]
      /\ UNCHANGED <<num_segtab, pages_used, num_used, num_errors, live>>
  BY DEF FreeMerge
<1>4. k < max_order(s) /\ free_list[s][k][i] = buddy
  BY <1>2 DEF IsBuddyAt
<1>5. buddy = a + BlockSize(k) \/ buddy = a - BlockSize(k)
  BY DEF Buddy
<1> HIDE DEF s, k, a, buddy
<1>6. /\ k \in Orders /\ k \in 0..17 /\ k + 1 \in Shifts
      /\ k + 1 \in 0..max_order(s)
  <2>1. max_order(s) \in 0..15
    BY <1>1, SegFacts DEF Orders
  <2>2. k \in 0..18 /\ k < max_order(s)
    BY <1>1, <1>4 DEF Shifts
  <2> QED
    BY <2>1, <2>2 DEF Orders, Shifts
<1>7. /\ BlockSize(k) \in Nat
      /\ BlockSize(k + 1) = BlockSize(k) + BlockSize(k)
  BY <1>1, <1>6, BlockSizeType, BlockSizeDouble
<1>8. free_list \in Lists /\ i \in Idx(s, k)
  BY <1>2 DEF Inv, TypeOK, Lists, Idx
<1>9. buddy \in Nat /\ low \in Nat
  <2>1. buddy \in Nat
    BY <1>1, <1>4, <1>6, <1>8, ListEntry DEF Idx
  <2> QED
    BY <1>1, <2>1
<1>10. /\ call' \in Calls /\ call.op' = "merge" /\ call.seg' = s
       /\ call.n' = call.n /\ call.addr' = low /\ HeldOrder' = k + 1
  BY <1>1, <1>3, <1>6, <1>9 DEF Calls, HeldOrder, s
<1>11. IsUnlink(free_list, free_list', s, k, i)
  BY <1>1, <1>2, <1>6, <1>8, UnlinkRemoveAt
<1>12. /\ FreeWithin' /\ FreeApart' /\ FreeLiveApart'
       /\ \A t \in Segs, l \in Orders : \A j \in Idx(t, l)' :
            /\ Apart(free_list[s][k][i], k, free_list[t][l][j]', l)
            /\ \E m \in Idx(t, l) : free_list[t][l][j]' = free_list[t][l][m]
  BY <1>1, <1>3, <1>6, <1>8, <1>11, UnlinkKeeps
<1>13. ASSUME NEW x \in Nat, NEW l, BlockSize(l) \in Nat,
              Apart(a, k, x, l), Apart(buddy, k, x, l), BlockSize(l) > 0
       PROVE  Apart(low, k + 1, x, l)
  BY <1>1, <1>5, <1>7, <1>9, <1>13 DEF Apart
<1>14. TypeOK'
  <2>1. free_list' \in [Segs -> [Orders -> Seq(Nat)]]
    BY <1>11 DEF IsUnlink, Lists
  <2> QED
    BY <1>1, <1>3, <1>6, <1>10, <2>1 DEF Inv, TypeOK
<1>15. HeldWithin'
  <2>1. Within(s, k, a) /\ Within(s, k, buddy)
    BY <1>1, <1>4, <1>6, <1>8
       DEF Inv, BlocksDisjoint, HeldWithin, FreeWithin, s, a
  <2>2. Within(s, k + 1, low)
    BY <1>1, <1>5, <1>7, <1>9, <2>1, SegFacts DEF Within
  <2> QED
    BY <1>10, <2>2 DEF HeldWithin
<1>16. HeldFreeApart'
  <2> SUFFICES ASSUME NEW t \in Segs, NEW l \in Orders, NEW j \in Idx(t, l)'
               PROVE  Apart(low, k + 1, free_list[t][l][j]', l)
    BY <1>10 DEF HeldFreeApart
  <2>1. PICK m \in Idx(t, l) : free_list[t][l][j]' = free_list[t][l][m]
    BY <1>12
  <2>2. Apart(buddy, k, free_list[t][l][m], l)
    BY <1>4, <1>12, <2>1
  <2>3. Apart(a, k, free_list[t][l][m], l)
    BY <1>1 DEF Inv, BlocksDisjoint, HeldFreeApart, a
  <2>4. free_list[t][l][m] \in Nat
    BY <1>8, ListEntry DEF Idx
  <2>5. BlockSize(l) \in Nat /\ BlockSize(l) > 0
    BY BlockSizeType, OrdersShifts
  <2> QED
    BY <1>13, <2>1, <2>2, <2>3, <2>4, <2>5
<1>17. HeldLiveApart'
  <2> SUFFICES ASSUME NEW b \in live
               PROVE  Apart(low, k + 1, b.p, OrderOf(b.n))
    BY <1>3, <1>10 DEF HeldLiveApart
  <2>1. Apart(buddy, k, b.p, OrderOf(b.n))
    BY <1>1, <1>4, <1>6, <1>8 DEF Inv, BlocksDisjoint, FreeLiveApart
  <2>2. Apart(a, k, b.p, OrderOf(b.n))
    BY <1>1 DEF Inv, BlocksDisjoint, HeldLiveApart, a
  <2>3. b.p \in Nat /\ b.n \in Requests
    BY DEF Inv, TypeOK
  <2>4. BlockSize(OrderOf(b.n)) \in Nat /\ BlockSize(OrderOf(b.n)) > 0
    BY <2>3, OrderOfType, BlockSizeType
  <2> QED
    BY <1>13, <2>1, <2>2, <2>3, <2>4
<1>18. LiveWithin' /\ LiveApart'
  BY <1>3 DEF Inv, BlocksDisjoint, LiveWithin, LiveApart
<1> QED
  BY <1>12, <1>14, <1>15, <1>16, <1>17, <1>18 DEF Inv, BlocksDisjoint

\* free puts the block in hand on the list of its order.
LEMMA FreeInsertKeeps == ASSUME Inv, FreeInsert PROVE Inv'
<1> DEFINE s == call.seg
           k == call.order
           a == call.addr
<1>1. /\ call \in Calls /\ call.op = "merge" /\ call.op # "idle"
      /\ s \in 1..num_segtab /\ s \in Segs
      /\ k \in Shifts /\ a \in Nat /\ HeldOrder = k /\ k \in 0..max_order(s)
  BY SegFacts DEF FreeInsert, Inv, TypeOK, HeldOrder, Calls
<1>2. /\ free_list' = [free_list EXCEPT ![s][k] = Cons(a, free_list[s][k])]
      /\ call' = Idle
      /\ UNCHANGED <<num_segtab, num_errors, live>>
  BY DEF FreeInsert, add_block
<1>3. /\ pages_used' = [pages_used EXCEPT
                          ![s] = (pages_used[s] - Pow2(k)) % CounterMod]
      /\ num_used' = (num_used - Pow2(k)) % CounterMod
  BY DEF FreeInsert
<1>4. /\ Within(s, k, a)
      /\ \A t \in Segs, l \in Orders : \A j \in Idx(t, l) :
           Apart(a, k, free_list[t][l][j], l)
      /\ \A b \in live : Apart(a, k, b.p, OrderOf(b.n))
  BY <1>1 DEF Inv, BlocksDisjoint, HeldWithin, HeldFreeApart, HeldLiveApart
<1> HIDE DEF s, k, a
<1>5. k \in Orders
  <2>1. max_order(s) \in 0..15
    BY <1>1, SegFacts DEF Orders
  <2> QED
    BY <1>1, <2>1 DEF Orders
<1>6. IsPush(free_list, free_list', s, k, a)
  <2>1. free_list \in Lists
    BY DEF Inv, TypeOK, Lists
  <2> QED
    BY <1>1, <1>2, <1>5, <2>1, PushCons
<1>7. FreeWithin' /\ FreeApart' /\ FreeLiveApart'
  BY <1>1, <1>2, <1>4, <1>5, <1>6, PushKeeps
<1>8. TypeOK'
  <2>1. free_list' \in [Segs -> [Orders -> Seq(Nat)]]
    BY <1>6 DEF IsPush, Lists
  <2>2. Idle \in Calls /\ Idle.op = "idle"
    BY DEF Idle, Calls, Shifts
  <2>3. Pow2(k) \in Nat
    BY <1>1, Pow2Type
  <2>4. num_used' \in 0..(CounterMod - 1)
    BY <1>3, <2>3, ConstantsAssumption DEF Inv, TypeOK
  <2>5. pages_used' \in [Segs -> 0..(CounterMod - 1)]
    <3>1. pages_used[s] \in Nat
      BY <1>1 DEF Inv, TypeOK
    <3>2. (pages_used[s] - Pow2(k)) % CounterMod \in 0..(CounterMod - 1)
      BY <2>3, <3>1, ConstantsAssumption
    <3> QED
      BY <1>3, <3>2 DEF Inv, TypeOK
  <2> QED
    BY <1>2, <2>1, <2>2, <2>4, <2>5 DEF Inv, TypeOK
<1>9. LiveWithin' /\ LiveApart'
  BY <1>2 DEF Inv, BlocksDisjoint, LiveWithin, LiveApart
<1>10. HeldWithin' /\ HeldFreeApart' /\ HeldLiveApart'
  BY <1>2 DEF HeldWithin, HeldFreeApart, HeldLiveApart, Idle
<1> QED
  BY <1>7, <1>8, <1>9, <1>10 DEF Inv, BlocksDisjoint

\* A stuttering step keeps the invariant.
LEMMA StutterKeeps == ASSUME Inv, UNCHANGED vars PROVE Inv'
  BY DEF Inv, TypeOK, BlocksDisjoint, FreeWithin, LiveWithin, HeldWithin,
         FreeApart, FreeLiveApart, LiveApart, HeldFreeApart, HeldLiveApart,
         HeldOrder, Idx, vars

-----------------------------------------------------------------------------
\* In every state between two iterations of the loops of pmm::alloc and
\* pmm::free, variables have their types and blocks are disjoint.
THEOREM Invariance == Spec => []Inv
<1>1. Init => Inv
  BY InitInv
<1>2. Inv /\ [Next]_vars => Inv'
  <2> SUFFICES ASSUME Inv, [Next]_vars PROVE Inv'
    OBVIOUS
  <2>1. CASE initialise
    BY <2>1, initialiseKeeps
  <2>2. ASSUME NEW n \in Requests, AllocTake(n) PROVE Inv'
    BY <2>2, AllocTakeKeeps
  <2>3. ASSUME NEW n \in Requests, AllocFail(n) PROVE Inv'
    BY <2>3, AllocFailKeeps
  <2>4. ASSUME NEW b \in live, FreeCall(b) PROVE Inv'
    BY <2>4, FreeCallKeeps
  <2>5. CASE AllocSplit
    BY <2>5, AllocSplitKeeps
  <2>6. CASE AllocReturn
    BY <2>6, AllocReturnKeeps
  <2>7. CASE FreeMerge
    BY <2>7, FreeMergeKeeps
  <2>8. CASE FreeInsert
    BY <2>8, FreeInsertKeeps
  <2>9. CASE UNCHANGED vars
    BY <2>9, StutterKeeps
  <2> QED
    BY <2>1, <2>2, <2>3, <2>4, <2>5, <2>6, <2>7, <2>8, <2>9 DEF Next, Step
<1> QED
  BY <1>1, <1>2, PTL DEF Spec

\* The counters of pmm.cpp stay in their words and the order of the block
\* that alloc or free holds never exceeds the largest order of its segment.
THEOREM TypeCorrect == Spec => []TypeOK
<1>1. Inv => TypeOK
  BY DEF Inv
<1> QED
  BY <1>1, Invariance, PTL

\* pmm::alloc and pmm::free keep owned blocks, free blocks and the block in
\* hand pairwise disjoint and inside the memory that initialise found.
THEOREM Disjointness == Spec => []BlocksDisjoint
<1>1. Inv => BlocksDisjoint
  BY DEF Inv
<1> QED
  BY <1>1, Invariance, PTL

\* The buddy allocator of pmm.cpp implements exclusive ownership (PmmAbs):
\* what alloc returns is large enough, managed, and owned by no one else.
THEOREM Refinement == Spec => ImplementsAbs
<1>1. Init => Abs!Init
  BY DEF Init, Abs!Init
<1>2. Inv /\ [Next]_vars => [Abs!Next]_live
  <2> SUFFICES ASSUME Inv, [Next]_vars PROVE [Abs!Next]_live
    OBVIOUS
  <2>1. CASE AllocReturn
    <3> DEFINE new == [p |-> call.addr, n |-> call.n]
    <3>1. /\ call.op # "idle" /\ call.seg \in Segs
          /\ call.n \in Requests /\ call.addr \in Nat
          /\ HeldOrder = OrderOf(call.n)
      BY <2>1, SegFacts DEF AllocReturn, Inv, TypeOK, HeldOrder, Calls
    <3>2. /\ new \in [p: Nat, n: Requests] /\ new.p = call.addr /\ new.n = call.n
      BY <3>1
    <3>3. live' = live \cup {new}
      BY <2>1 DEF AllocReturn
    <3> HIDE DEF new
    <3>4. /\ Extent(new.n) \in Nat /\ Extent(new.n) > 0 /\ Extent(new.n) >= new.n
      <4>1. OrderOf(new.n) \in Shifts /\ new.n <= BlockSize(OrderOf(new.n))
        BY <3>2, OrderOfType
      <4>2. new.n \in Nat
        BY <3>2, ConstantsAssumption
      <4> QED
        BY <4>1, <4>2, BlockSizeType DEF Extent
    <3>5. \A c \in live : Abs!Disjoint(new, c)
      BY <3>1, <3>2 DEF Inv, BlocksDisjoint, HeldLiveApart, Apart, Extent,
                        Abs!Disjoint
    <3>6. \E r \in Managed : Abs!Inside(new, r)
      <4> DEFINE r == [lo |-> base_ptr(call.seg), hi |-> SegEnd(call.seg)]
      <4>1. r \in Managed
        BY <3>1 DEF Managed
      <4>2. Within(call.seg, HeldOrder, call.addr)
        BY <3>1 DEF Inv, BlocksDisjoint, HeldWithin
      <4>3. Abs!Inside(new, r)
        BY <3>1, <3>2, <4>2 DEF Abs!Inside, Within, Extent
      <4> QED
        BY <4>1, <4>3
    <3>7. new \notin live
      <4> SUFFICES ASSUME new \in live PROVE FALSE
        OBVIOUS
      <4>1. Abs!Disjoint(new, new)
        BY <3>5
      <4> QED
        BY <3>2, <3>4, <4>1 DEF Abs!Disjoint
    <3>8. Abs!Alloc(new)
      BY <3>2, <3>3, <3>4, <3>5, <3>6 DEF Abs!Alloc
    <3> QED
      BY <3>3, <3>7, <3>8 DEF Abs!Next
  <2>2. ASSUME NEW b \in live, FreeCall(b) PROVE Abs!Next
    BY <2>2 DEF FreeCall, Abs!Next, Abs!Free
  <2>3. CASE UNCHANGED live
    BY <2>3
  <2> QED
    BY <2>1, <2>2, <2>3
       DEF Next, Step, vars, initialise, AllocTake, AllocFail, AllocSplit,
           FreeMerge, FreeInsert
<1> QED
  BY <1>1, <1>2, Invariance, PTL DEF Spec, ImplementsAbs, Abs!Spec

(***************************************************************************)
(* The buddy allocator gives back what it took: no page is lost, freeing   *)
(* everything restores the lists that initialise built, and alloc fails    *)
(* only when no aligned run of the request's size is free.                 *)
(*                                                                         *)
(* Disjointness alone does not give this.  Two facts are                   *)
(* added: every block lies at a multiple of its size from the base of its  *)
(* segment (BlocksAligned), and no free list below the largest order holds *)
(* both halves of a block (NoBuddies), which is what the loop of free is   *)
(* for.  From the two, Finds: if no caller owns a byte of an aligned run,  *)
(* one free block holds the whole run.  Were it in pieces, the smallest    *)
(* piece would have a buddy inside the run, on no list by NoBuddies, hence *)
(* inside a larger free block, which would then hold the piece too.        *)
(***************************************************************************)

-----------------------------------------------------------------------------
(* The geometry of aligned blocks.                                         *)

\* 1ULL << l is 1ULL << k times 1ULL << (l - k).
LEMMA Pow2Quotient ==
  ASSUME NEW k \in Shifts, NEW l \in Shifts, k <= l
  PROVE  Pow2(l) = Pow2(l - k) * Pow2(k)
  BY DEF Pow2, Shifts

\* A block of a larger order is an even number of smaller ones.
LEMMA Pow2Even ==
  ASSUME NEW k \in Shifts, NEW l \in Shifts, k < l
  PROVE  \E t \in Nat : t > 0 /\ BlockSize(l) = (2 * t) * BlockSize(k)
<1>1. l - k - 1 \in Shifts /\ l - k - 1 \in 0..17 /\ l - k \in Shifts
      /\ (l - k - 1) + 1 = l - k
  BY DEF Shifts
<1> DEFINE t == Pow2(l - k - 1)
<1>2. t \in Nat /\ t > 0
  BY <1>1, Pow2Type
<1>3. Pow2(l - k) = 2 * t
  BY <1>1, Pow2Double
<1> HIDE DEF t
<1>4. Pow2(l) = (2 * t) * Pow2(k)
  <2>1. k <= l
    BY DEF Shifts
  <2> QED
    BY <1>3, <2>1, Pow2Quotient
<1>5. Pow2(k) \in Nat
  BY Pow2Type
<1> QED
  BY <1>2, <1>4, <1>5 DEF BlockSize, PageSize

\* The offset of a block of order k is a number of such blocks.
LEMMA DivBlock ==
  ASSUME NEW k \in Shifts, NEW q \in Nat
  PROVE  (q * BlockSize(k)) \div BlockSize(k) = q
  BY DEF BlockSize, Pow2, PageSize, Shifts

LEMMA Cancel ==
  ASSUME NEW B \in Nat, B > 0, NEW u \in Int, NEW v \in Int, u * B < v * B
  PROVE  u < v
  OBVIOUS

\* addr is a multiple of the size of a block of order k away from the base.
Aligned(s, k, addr) ==
  \E q \in Nat : addr = base_ptr(s) + q * BlockSize(k)

\* The exclusive or of free, on an aligned block: of blocks 2p and 2p + 1,
\* each is the buddy of the other.
LEMMA BuddyOf ==
  ASSUME NEW s \in Segs, NEW k \in Shifts, NEW q \in Nat
  PROVE  LET B == BlockSize(k) IN
         /\ q % 2 = 0 => /\ Buddy(s, k, base_ptr(s) + q * B) =
                              base_ptr(s) + (q + 1) * B
         /\ q % 2 = 1 => /\ q - 1 \in Nat
                         /\ Buddy(s, k, base_ptr(s) + q * B) =
                              base_ptr(s) + (q - 1) * B
<1> DEFINE B == BlockSize(k)
           b == base_ptr(s)
           a == b + q * B
<1>1. B \in Nat /\ B > 0 /\ b \in Nat
  BY BlockSizeType, SegFacts
<1>2. (q * B) \div B = q
  BY DivBlock
<1> HIDE DEF B, b
<1>3. q * B \in Nat /\ a - b = q * B
  BY <1>1
<1>4. (a - b) \div B = q
  BY <1>2, <1>3
<1>5. Buddy(s, k, a) = IF q % 2 = 0 THEN a + B ELSE a - B
  BY <1>4 DEF Buddy, B, b
<1>6. (q + 1) * B = q * B + B /\ (q - 1) * B = q * B - B
  BY <1>1
<1>7. q % 2 = 1 => q - 1 \in Nat
  OBVIOUS
<1>8. q % 2 = 0 => Buddy(s, k, a) = b + (q + 1) * B
  BY <1>1, <1>3, <1>5, <1>6
<1>9. q % 2 = 1 => Buddy(s, k, a) = b + (q - 1) * B
  BY <1>1, <1>3, <1>5, <1>6
<1> QED
  BY <1>7, <1>8, <1>9 DEF B, b

\* The buddy of an aligned block is aligned, and has that block as its buddy.
LEMMA BuddyBack ==
  ASSUME NEW s \in Segs, NEW k \in Shifts, NEW a, Aligned(s, k, a)
  PROVE  /\ Aligned(s, k, Buddy(s, k, a))
         /\ Buddy(s, k, Buddy(s, k, a)) = a
<1>1. PICK q \in Nat : a = base_ptr(s) + q * BlockSize(k)
  BY DEF Aligned
<1>2. CASE q % 2 = 0
  <2>1. Buddy(s, k, a) = base_ptr(s) + (q + 1) * BlockSize(k)
    BY <1>1, <1>2, BuddyOf
  <2>2. q + 1 \in Nat /\ (q + 1) % 2 = 1 /\ (q + 1) - 1 = q
    BY <1>2
  <2>3. Buddy(s, k, base_ptr(s) + (q + 1) * BlockSize(k)) =
          base_ptr(s) + ((q + 1) - 1) * BlockSize(k)
    BY <2>2, BuddyOf
  <2> QED
    BY <1>1, <2>1, <2>2, <2>3 DEF Aligned
<1>3. CASE q % 2 = 1
  <2>1. Buddy(s, k, a) = base_ptr(s) + (q - 1) * BlockSize(k) /\ q - 1 \in Nat
    BY <1>1, <1>3, BuddyOf
  <2>2. (q - 1) % 2 = 0 /\ (q - 1) + 1 = q
    BY <1>3, <2>1
  <2>3. Buddy(s, k, base_ptr(s) + (q - 1) * BlockSize(k)) =
          base_ptr(s) + ((q - 1) + 1) * BlockSize(k)
    BY <2>1, <2>2, BuddyOf
  <2> QED
    BY <1>1, <2>1, <2>2, <2>3 DEF Aligned
<1> QED
  BY <1>2, <1>3

\* Block x of order l holds block a of order k.
Inside(a, k, x, l) == x <= a /\ a + BlockSize(k) <= x + BlockSize(l)

\* A larger aligned block that shares a byte with a block holds both the
\* block and its buddy.
LEMMA HoldsBoth ==
  ASSUME NEW s \in Segs, NEW k \in Shifts, NEW l \in Shifts, k < l,
         NEW a, Aligned(s, k, a), NEW x, Aligned(s, l, x), ~Apart(a, k, x, l)
  PROVE  Inside(a, k, x, l) /\ Inside(Buddy(s, k, a), k, x, l)
<1> DEFINE B == BlockSize(k)
           b == base_ptr(s)
<1>1. PICK q \in Nat : a = b + q * B
  BY DEF Aligned
<1>2. PICK p \in Nat : x = b + p * BlockSize(l)
  BY DEF Aligned
<1>3. PICK t \in Nat : t > 0 /\ BlockSize(l) = (2 * t) * B
  BY Pow2Even
<1>4. B \in Nat /\ B > 0 /\ b \in Nat
  BY BlockSizeType, SegFacts
<1> DEFINE m == p * t
           y == Buddy(s, k, a)
<1>5. m \in Nat
  OBVIOUS
<1>6. /\ q % 2 = 0 => y = b + (q + 1) * B
      /\ q % 2 = 1 => y = b + (q - 1) * B
  BY <1>1, BuddyOf
<1>7. x = b + (2 * m) * B /\ x + BlockSize(l) = b + (2 * m + 2 * t) * B
  BY <1>2, <1>3, <1>4
<1>8. a + B = b + (q + 1) * B
  BY <1>1, <1>4
<1>9. a < x + BlockSize(l) /\ x < a + B
  <2>1. ~(x + BlockSize(l) <= a) /\ ~(a + B <= x)
    BY DEF Apart
  <2> QED
    BY <1>1, <1>2, <1>3, <1>4, <2>1
<1> HIDE DEF m, y, B, b
<1>10. q < 2 * m + 2 * t
  <2>1. q * B < (2 * m + 2 * t) * B
    BY <1>1, <1>4, <1>5, <1>7, <1>9
  <2>2. 2 * m + 2 * t \in Int
    BY <1>5
  <2> QED
    BY <1>4, <2>1, <2>2, Cancel
<1>11. 2 * m < q + 1
  <2>1. (2 * m) * B < (q + 1) * B
    BY <1>4, <1>5, <1>7, <1>8, <1>9
  <2>2. 2 * m \in Int
    BY <1>5
  <2> QED
    BY <1>4, <2>1, <2>2, Cancel
<1>12. ASSUME NEW r \in Int, 2 * m <= r, r + 1 <= 2 * m + 2 * t
       PROVE  Inside(b + r * B, k, x, l)
  <2>1. (2 * m) * B <= r * B
    BY <1>4, <1>5, <1>12
  <2>2. (r + 1) * B <= (2 * m + 2 * t) * B
    BY <1>4, <1>5, <1>12
  <2>3. (r + 1) * B = r * B + B
    BY <1>4
  <2>4. r * B \in Int /\ (2 * m) * B \in Int /\ (2 * m + 2 * t) * B \in Int
    BY <1>4, <1>5
  <2> QED
    BY <1>4, <1>7, <2>1, <2>2, <2>3, <2>4 DEF Inside, B
<1>13. Inside(a, k, x, l)
  BY <1>1, <1>5, <1>10, <1>11, <1>12
<1>14. CASE q % 2 = 0
  <2>1. q + 1 \in Int /\ 2 * m <= q + 1 /\ q + 1 + 1 <= 2 * m + 2 * t
    BY <1>5, <1>10, <1>11, <1>14
  <2> QED
    BY <1>6, <1>12, <1>13, <1>14, <2>1 DEF y
<1>15. CASE q % 2 = 1
  <2>1. q - 1 \in Int /\ 2 * m <= q - 1 /\ q - 1 + 1 <= 2 * m + 2 * t
    BY <1>5, <1>10, <1>11, <1>15
  <2> QED
    BY <1>6, <1>12, <1>13, <1>15, <2>1 DEF y
<1> QED
  BY <1>14, <1>15

\* Two aligned blocks of one order are the same or share no byte.
LEMMA SameOrApart ==
  ASSUME NEW s \in Segs, NEW k \in Shifts,
         NEW a, Aligned(s, k, a), NEW x, Aligned(s, k, x), ~Apart(a, k, x, k)
  PROVE  a = x
<1> DEFINE B == BlockSize(k)
           b == base_ptr(s)
<1>1. PICK q \in Nat : a = b + q * B
  BY DEF Aligned
<1>2. PICK p \in Nat : x = b + p * B
  BY DEF Aligned
<1>3. B \in Nat /\ B > 0 /\ b \in Nat
  BY BlockSizeType, SegFacts
<1>4. ~(x + B <= a) /\ ~(a + B <= x)
  BY DEF Apart
<1> HIDE DEF B, b
<1>5. q < p + 1
  <2>1. q * B < (p + 1) * B
    BY <1>1, <1>2, <1>3, <1>4
  <2> QED
    BY <1>3, <2>1, Cancel
<1>6. p < q + 1
  <2>1. p * B < (q + 1) * B
    BY <1>1, <1>2, <1>3, <1>4
  <2> QED
    BY <1>3, <2>1, Cancel
<1> QED
  BY <1>1, <1>2, <1>5, <1>6

-----------------------------------------------------------------------------
(* The free lists as sets: which blocks are on them.                       *)

\* The block at a is on list l of segment t.
On(f, t, l, a) == \E j \in 1..Len(f[t][l]) : f[t][l][j] = a

\* g has the blocks of f, except that the one at a may have left list (s, k).
IsTaken(f, g, s, k, a) ==
  /\ \A t \in Segs, l \in Orders : \A x : On(g, t, l, x) => On(f, t, l, x)
  /\ \A t \in Segs, l \in Orders : \A x :
       On(f, t, l, x) => On(g, t, l, x) \/ (t = s /\ l = k /\ x = a)

\* g has the blocks of f, and the one at a on list (s, k).
IsAdded(f, g, s, k, a) ==
  \A t \in Segs, l \in Orders : \A x :
    On(g, t, l, x) <=> On(f, t, l, x) \/ (t = s /\ l = k /\ x = a)

\* remove_block on the head of a list.
LEMMA TailTakes ==
  ASSUME NEW f \in Lists, NEW s \in Segs, NEW k \in Orders, f[s][k] # <<>>
  PROVE  IsTaken(f, [f EXCEPT ![s][k] = Tail(f[s][k])], s, k, Head(f[s][k]))
<1> DEFINE g == [f EXCEPT ![s][k] = Tail(f[s][k])]
           q == f[s][k]
           r == Tail(q)
<1>1. q \in Seq(Nat)
  BY DEF Lists
<1>2. \A t \in Segs, l \in Orders :
        g[t][l] = IF t = s /\ l = k THEN r ELSE f[t][l]
  BY DEF Lists
<1>3. /\ Len(q) \in Nat /\ Len(q) >= 1
      /\ Len(r) = Len(q) - 1
      /\ Head(q) = q[1]
      /\ \A j \in 1..(Len(q) - 1) : r[j] = q[j + 1]
  BY <1>1, TailProps
<1> HIDE DEF g, q, r
<1>4. \A x : (\E j \in 1..Len(r) : r[j] = x)
             => \E j \in 1..Len(q) : q[j] = x
  BY <1>3
<1>5. \A x : (\E j \in 1..Len(q) : q[j] = x)
             => x = Head(q) \/ \E j \in 1..Len(r) : r[j] = x
  <2> SUFFICES ASSUME NEW j \in 1..Len(q)
               PROVE  q[j] = Head(q) \/ \E m \in 1..Len(r) : r[m] = q[j]
    OBVIOUS
  <2>1. CASE j = 1
    BY <1>3, <2>1
  <2>2. CASE j # 1
    <3>1. j - 1 \in 1..(Len(q) - 1) /\ (j - 1) + 1 = j
      BY <1>3, <2>2
    <3>2. r[j - 1] = q[j]
      BY <1>3, <3>1
    <3> QED
      BY <1>3, <3>1, <3>2
  <2> QED
    BY <2>1, <2>2
<1>6. f[s][k] = q
  BY DEF q
<1>7. ASSUME NEW t \in Segs, NEW l \in Orders, NEW x
      PROVE  /\ On(g, t, l, x) => On(f, t, l, x)
             /\ On(f, t, l, x) => On(g, t, l, x) \/ (t = s /\ l = k /\ x = Head(q))
  <2>1. CASE t = s /\ l = k
    <3>1. g[t][l] = r /\ f[t][l] = q
      BY <1>2, <1>6, <2>1
    <3> QED
      BY <1>4, <1>5, <2>1, <3>1, Zenon DEF On
  <2>2. CASE ~(t = s /\ l = k)
    BY <1>2, <2>2 DEF On
  <2> QED
    BY <2>1, <2>2
<1>8. IsTaken(f, g, s, k, Head(q))
  BY <1>7, Zenon DEF IsTaken
<1> QED
  BY <1>8 DEF g, q, r

\* remove_block inside a list.
LEMMA RemoveAtTakes ==
  ASSUME NEW f \in Lists, NEW s \in Segs, NEW k \in Orders,
         NEW i \in 1..Len(f[s][k])
  PROVE  IsTaken(f, [f EXCEPT ![s][k] = RemoveAt(f[s][k], i)], s, k, f[s][k][i])
<1> DEFINE g == [f EXCEPT ![s][k] = RemoveAt(f[s][k], i)]
           q == f[s][k]
           r == RemoveAt(q, i)
<1>1. q \in Seq(Nat)
  BY DEF Lists
<1>2. \A t \in Segs, l \in Orders :
        g[t][l] = IF t = s /\ l = k THEN r ELSE f[t][l]
  BY DEF Lists
<1>4. f[s][k] = q /\ i \in 1..Len(q) /\ Len(q) \in Nat
  BY <1>1
<1> HIDE DEF g, q
<1>3. /\ Len(q) \in Nat
      /\ Len(r) = Len(q) - 1
      /\ \A j \in 1..(Len(q) - 1) : r[j] = q[IF j < i THEN j ELSE j + 1]
  BY <1>1, <1>4, RemoveAtProps, Zenon
<1> HIDE DEF r
<1>5. \A x : (\E j \in 1..Len(r) : r[j] = x) => \E j \in 1..Len(q) : q[j] = x
  <2> SUFFICES ASSUME NEW j \in 1..Len(r)
               PROVE  \E m \in 1..Len(q) : q[m] = r[j]
    OBVIOUS
  <2> DEFINE m == IF j < i THEN j ELSE j + 1
  <2>1. m \in 1..Len(q)
    BY <1>3, <1>4
  <2>2. r[j] = q[m]
    BY <1>3
  <2> QED
    BY <2>1, <2>2
<1>6. \A x : (\E j \in 1..Len(q) : q[j] = x)
             => x = q[i] \/ \E j \in 1..Len(r) : r[j] = x
  <2> SUFFICES ASSUME NEW j \in 1..Len(q), j # i
               PROVE  \E m \in 1..Len(r) : r[m] = q[j]
    OBVIOUS
  <2> DEFINE m == IF j < i THEN j ELSE j - 1
  <2>1. m \in 1..(Len(q) - 1) /\ (IF m < i THEN m ELSE m + 1) = j
    BY <1>3, <1>4
  <2>2. r[m] = q[IF m < i THEN m ELSE m + 1]
    BY <1>3, <2>1
  <2> QED
    BY <1>3, <2>1, <2>2
<1>7. ASSUME NEW t \in Segs, NEW l \in Orders, NEW x
      PROVE  /\ On(g, t, l, x) => On(f, t, l, x)
             /\ On(f, t, l, x) => On(g, t, l, x) \/ (t = s /\ l = k /\ x = q[i])
  <2>1. CASE t = s /\ l = k
    <3>1. g[t][l] = r /\ f[t][l] = q
      BY <1>2, <1>4, <2>1
    <3> QED
      BY <1>5, <1>6, <2>1, <3>1, Zenon DEF On
  <2>2. CASE ~(t = s /\ l = k)
    BY <1>2, <2>2 DEF On
  <2> QED
    BY <2>1, <2>2
<1>8. IsTaken(f, g, s, k, q[i])
  BY <1>7, Zenon DEF IsTaken
<1> QED
  BY <1>8 DEF g, q, r

\* add_block.
LEMMA ConsAdds ==
  ASSUME NEW f \in Lists, NEW s \in Segs, NEW k \in Orders, NEW a \in Nat
  PROVE  IsAdded(f, [f EXCEPT ![s][k] = Cons(a, f[s][k])], s, k, a)
<1> DEFINE g == [f EXCEPT ![s][k] = Cons(a, f[s][k])]
           q == f[s][k]
           r == Cons(a, q)
<1>1. q \in Seq(Nat)
  BY DEF Lists
<1>2. \A t \in Segs, l \in Orders :
        g[t][l] = IF t = s /\ l = k THEN r ELSE f[t][l]
  BY DEF Lists
<1>3. f[s][k] = q /\ Len(q) \in Nat
  BY <1>1
<1> HIDE DEF q
<1>4. /\ Len(r) = Len(q) + 1
      /\ r[1] = a
      /\ \A m \in 2..(Len(q) + 1) : r[m] = q[m - 1]
  BY <1>1, <1>3, ConsProps, Zenon
<1> HIDE DEF g, r
<1>5. \A x : (\E j \in 1..Len(r) : r[j] = x)
             => x = a \/ \E j \in 1..Len(q) : q[j] = x
  <2> SUFFICES ASSUME NEW j \in 1..Len(r), j # 1
               PROVE  \E m \in 1..Len(q) : q[m] = r[j]
    BY <1>4
  <2>1. j \in 2..(Len(q) + 1) /\ j - 1 \in 1..Len(q)
    BY <1>3, <1>4
  <2> QED
    BY <1>4, <2>1
<1>6. \A x : (\E j \in 1..Len(q) : q[j] = x) \/ x = a
             => \E j \in 1..Len(r) : r[j] = x
  <2>1. 1 \in 1..Len(r) /\ r[1] = a
    BY <1>3, <1>4
  <2>2. ASSUME NEW j \in 1..Len(q)
        PROVE  \E m \in 1..Len(r) : r[m] = q[j]
    <3>1. j + 1 \in 2..(Len(q) + 1) /\ j + 1 \in 1..Len(r) /\ (j + 1) - 1 = j
      BY <1>3, <1>4
    <3>2. r[j + 1] = q[j]
      BY <1>4, <3>1
    <3> QED
      BY <3>1, <3>2
  <2> QED
    BY <2>1, <2>2
<1>7. ASSUME NEW t \in Segs, NEW l \in Orders, NEW x
      PROVE  On(g, t, l, x) <=> On(f, t, l, x) \/ (t = s /\ l = k /\ x = a)
  <2>1. CASE t = s /\ l = k
    <3>1. g[t][l] = r /\ f[t][l] = q
      BY <1>2, <1>3, <2>1
    <3> QED
      BY <1>5, <1>6, <2>1, <3>1, Zenon DEF On
  <2>2. CASE ~(t = s /\ l = k)
    BY <1>2, <2>2 DEF On
  <2> QED
    BY <2>1, <2>2
<1>8. IsAdded(f, g, s, k, a)
  BY <1>7, Zenon DEF IsAdded
<1> QED
  BY <1>8 DEF g, q, r

-----------------------------------------------------------------------------
(* The invariants.                                                         *)

FreeAligned ==
  \A t \in Segs, l \in Orders : \A x :
    On(free_list, t, l, x) => Aligned(t, l, x)

LiveAligned ==
  \A b \in live : \E s \in 1..num_segtab :
    Within(s, OrderOf(b.n), b.p) /\ Aligned(s, OrderOf(b.n), b.p)

HeldAligned == call.op # "idle" => Aligned(call.seg, HeldOrder, call.addr)

BlocksAligned == FreeAligned /\ LiveAligned /\ HeldAligned

NoBuddies ==
  \A t \in Segs, l \in Orders : \A x :
    l < max_order(t) /\ On(free_list, t, l, x) =>
      ~On(free_list, t, l, Buddy(t, l, x))

\* Page i of segment s is in a free block.
PageFree(f, s, i) ==
  \E k \in Orders : \E x : On(f, s, k, x) /\ Covers(s, i, k, x)

\* NoPageLost, with the free lists as sets.
LEMMA NoPageLostAsSets ==
  NoPageLost <=>
    (num_segtab > 0 =>
       \A s \in Segs : \A i \in PagesOf(s) :
         \/ PageFree(free_list, s, i)
         \/ \E b \in live : Covers(s, i, OrderOf(b.n), b.p)
         \/ call.op # "idle" /\ Covers(s, i, HeldOrder, call.addr))
<1>1. \A s, i : PageFree(free_list, s, i) <=>
                  \E k \in Orders : \E j \in Idx(s, k) :
                    Covers(s, i, k, free_list[s][k][j])
  BY Zenon DEF PageFree, On, Idx
<1> QED
  BY <1>1, Zenon DEF NoPageLost

\* Facts about a block on a list.
LEMMA OnFacts ==
  ASSUME Inv, NEW s \in Segs, NEW k \in Orders, NEW x, On(free_list, s, k, x)
  PROVE  /\ x \in Nat /\ k \in Shifts /\ BlockSize(k) \in Nat /\ BlockSize(k) > 0
         /\ Within(s, k, x)
         /\ k <= max_order(s)
         /\ \A b \in live : Apart(x, k, b.p, OrderOf(b.n))
         /\ \A l \in Orders : \A y :
              On(free_list, s, l, y) => (l = k /\ y = x) \/ Apart(x, k, y, l)
         /\ call.op # "idle" => Apart(call.addr, HeldOrder, x, k)
<1>1. PICK j \in Idx(s, k) : free_list[s][k][j] = x
  BY DEF On, Idx
<1>2. x \in Nat
  BY <1>1, ListEntry DEF Inv, TypeOK, Lists, Idx
<1>3. k \in Shifts /\ BlockSize(k) \in Nat /\ BlockSize(k) > 0
  BY OrdersShifts, BlockSizeType
<1>4. Within(s, k, x)
  BY <1>1 DEF Inv, BlocksDisjoint, FreeWithin
<1>5. k <= max_order(s)
  <2>1. max_order(s) \in Shifts
    BY SegFacts, OrdersShifts
  <2>2. BlockSize(k) <= BlockSize(max_order(s))
    BY <1>2, <1>3, <1>4, <2>1, SegFacts, BlockSizeType DEF Within
  <2> QED
    BY <1>3, <2>1, <2>2, BlockSizeMono
<1>6. \A b \in live : Apart(x, k, b.p, OrderOf(b.n))
  BY <1>1 DEF Inv, BlocksDisjoint, FreeLiveApart
<1>7. ASSUME NEW l \in Orders, NEW y, On(free_list, s, l, y)
      PROVE  (l = k /\ y = x) \/ Apart(x, k, y, l)
  <2>1. PICK m \in Idx(s, l) : free_list[s][l][m] = y
    BY <1>7 DEF On, Idx
  <2> QED
    BY <1>1, <2>1, Zenon DEF Inv, BlocksDisjoint, FreeApart
<1>8. call.op # "idle" => Apart(call.addr, HeldOrder, x, k)
  BY <1>1 DEF Inv, BlocksDisjoint, HeldFreeApart
<1> QED
  BY <1>2, <1>3, <1>4, <1>5, <1>6, <1>7, <1>8

\* A set of orders that is not empty has a smallest member.
LEMMA SmallestOrder ==
  ASSUME NEW K, K \subseteq Orders, NEW m \in K
  PROVE  \E k \in K : \A j \in K : k <= j
<1>1. K \subseteq Nat /\ K # {}
  BY DEF Orders
<1>2. PICK k \in K : \A j \in K : <<j, k>> \notin OpToRel(<, Nat)
  BY <1>1, NatLessThanWellFounded, WFMin
<1>3. \A j \in K : ~(j < k)
  BY <1>1, <1>2 DEF OpToRel
<1> QED
  BY <1>1, <1>3

\* A block shares a byte with a block that holds its first page.
LEMMA CoversFirst ==
  ASSUME NEW s \in Segs, NEW k \in Shifts, NEW q \in Nat, NEW l \in Shifts,
         NEW x \in Nat, Covers(s, q * Pow2(k), l, x)
  PROVE  ~Apart(base_ptr(s) + q * BlockSize(k), k, x, l)
<1> DEFINE y == base_ptr(s) + q * BlockSize(k)
<1>1. /\ base_ptr(s) \in Nat /\ Pow2(k) \in Nat
      /\ BlockSize(k) \in Nat /\ BlockSize(k) > 0 /\ BlockSize(l) \in Nat
  BY SegFacts, Pow2Type, BlockSizeType
<1>2. (q * Pow2(k)) * PageSize = q * BlockSize(k) /\ q * BlockSize(k) \in Nat
  BY <1>1 DEF BlockSize, PageSize
<1>3. x <= y /\ y < x + BlockSize(l) /\ y \in Nat
  BY <1>1, <1>2 DEF Covers
<1> HIDE DEF y
<1>4. ~Apart(y, k, x, l)
  BY <1>1, <1>3 DEF Apart
<1> QED
  BY <1>4 DEF y

\* The first page of an aligned block inside a segment is a page of it.
LEMMA FirstPage ==
  ASSUME NEW s \in Segs, NEW k \in Shifts, NEW q \in Nat,
         base_ptr(s) + q * BlockSize(k) < SegEnd(s)
  PROVE  q * Pow2(k) \in PagesOf(s)
<1>1. /\ base_ptr(s) \in Nat /\ Pow2(k) \in Nat /\ Pow2(max_order(s)) \in Nat
      /\ SegEnd(s) = base_ptr(s) + BlockSize(max_order(s))
  BY SegFacts, OrdersShifts, Pow2Type
<1>2. q * Pow2(k) \in Nat /\ q * BlockSize(k) = (q * Pow2(k)) * PageSize
  BY <1>1 DEF BlockSize, PageSize
<1> DEFINE m == q * Pow2(k)
<1> HIDE DEF m
<1>3. m * 4096 < Pow2(max_order(s)) * 4096
  BY <1>1, <1>2 DEF BlockSize, PageSize, m
<1>4. m \in Nat
  BY <1>2 DEF m
<1>5. m < Pow2(max_order(s))
  BY <1>1, <1>3, <1>4
<1> QED
  BY <1>1, <1>4, <1>5 DEF PagesOf, m

\* If no caller owns a byte of an aligned run of pages and no call is in
\* progress, one free block, at least as large, holds the run.
LEMMA Finds ==
  ASSUME Inv, FreeAligned, NoBuddies, NoPageLost, num_segtab > 0,
         call.op = "idle",
         NEW s \in Segs, NEW o \in Orders, o <= max_order(s), NEW i \in Nat,
         base_ptr(s) + i * BlockSize(o) + BlockSize(o) <= SegEnd(s),
         Unowned(s, o, i)
  PROVE  \E k \in Orders : \E x :
           /\ On(free_list, s, k, x) /\ o <= k
           /\ ~Apart(x, k, base_ptr(s) + i * BlockSize(o), o)
<1> DEFINE X == base_ptr(s) + i * BlockSize(o)
<1>1. /\ o \in Shifts /\ BlockSize(o) \in Nat /\ BlockSize(o) > 0
      /\ base_ptr(s) \in Nat /\ X \in Nat /\ SegEnd(s) \in Nat
      /\ X + BlockSize(o) <= SegEnd(s)
  BY OrdersShifts, BlockSizeType, SegFacts, SMTT(30)
<1>2. Aligned(s, o, X)
  BY DEF Aligned
<1>3. \A b \in live : Apart(X, o, b.p, OrderOf(b.n))
  BY DEF Unowned
\* An aligned block whose first byte is in the run shares a byte with a free one.
<1>4. ASSUME NEW k \in Shifts, NEW q \in Nat,
             X <= base_ptr(s) + q * BlockSize(k),
             base_ptr(s) + q * BlockSize(k) + BlockSize(k) <= X + BlockSize(o)
      PROVE  \E l \in Orders : \E x :
               /\ On(free_list, s, l, x)
               /\ ~Apart(base_ptr(s) + q * BlockSize(k), k, x, l)
  <2> DEFINE y == base_ptr(s) + q * BlockSize(k)
  <2>1. BlockSize(k) \in Nat /\ BlockSize(k) > 0 /\ q * BlockSize(k) \in Nat /\ y \in Nat
    <3>1. BlockSize(k) \in Nat /\ BlockSize(k) > 0
      BY BlockSizeType
    <3>2. q * BlockSize(k) \in Nat
      BY <3>1
    <3> QED
      BY <1>1, <3>1, <3>2
  <2>2. y < SegEnd(s)
    BY <1>1, <1>4, <2>1
  <2>3. q * Pow2(k) \in PagesOf(s)
    BY <2>2, FirstPage
  <2>4. \/ PageFree(free_list, s, q * Pow2(k))
        \/ \E b \in live : Covers(s, q * Pow2(k), OrderOf(b.n), b.p)
    BY <2>3, NoPageLostAsSets
  <2>5. ASSUME NEW b \in live, Covers(s, q * Pow2(k), OrderOf(b.n), b.p)
        PROVE  FALSE
    <3>1. b.p \in Nat /\ b.n \in Requests
      BY DEF Inv, TypeOK
    <3>2. OrderOf(b.n) \in Shifts
      BY <3>1, OrderOfType
    <3>3. ~Apart(y, k, b.p, OrderOf(b.n))
      BY <2>5, <3>1, <3>2, CoversFirst
    <3>4. Apart(X, o, b.p, OrderOf(b.n))
      BY <1>3
    <3>5. BlockSize(OrderOf(b.n)) \in Nat
      BY <3>2, BlockSizeType
    <3> HIDE DEF X, y
    <3>6. X <= y /\ y + BlockSize(k) <= X + BlockSize(o)
      BY <1>4 DEF y
    <3> QED
      BY <1>1, <2>1, <3>1, <3>3, <3>4, <3>5, <3>6 DEF Apart
  <2>6a. PICK l \in Orders : \E x : On(free_list, s, l, x) /\ Covers(s, q * Pow2(k), l, x)
    BY <2>4, <2>5 DEF PageFree
  <2>6. PICK x : On(free_list, s, l, x) /\ Covers(s, q * Pow2(k), l, x)
    BY <2>6a
  <2>7. x \in Nat /\ l \in Shifts
    BY <2>6, OnFacts
  <2>8. ~Apart(y, k, x, l)
    BY <2>6, <2>7, CoversFirst
  <2> QED
    BY <2>6, <2>8
<1> HIDE DEF X
<1> SUFFICES ASSUME \A k \in Orders : \A x :
                      On(free_list, s, k, x) /\ ~Apart(x, k, X, o) => ~(o <= k)
             PROVE  FALSE
  BY DEF X
<1> DEFINE K == {k \in Orders : \E x : On(free_list, s, k, x) /\ ~Apart(x, k, X, o)}
<1>5. PICK k \in K : \A j \in K : k <= j
  <2>1. PICK l \in Orders : \E x : On(free_list, s, l, x) /\ ~Apart(X, o, x, l)
    BY <1>1, <1>4 DEF X
  <2>2. l \in K
    BY <2>1 DEF Apart
  <2>3. K \subseteq Orders
    OBVIOUS
  <2> HIDE DEF K
  <2> QED
    BY <2>2, <2>3, SmallestOrder
<1>6. PICK a : On(free_list, s, k, a) /\ ~Apart(a, k, X, o)
  OBVIOUS
<1>7. k \in Orders /\ k \in Shifts /\ k < o
  BY <1>6, OrdersShifts DEF Orders
<1> DEFINE y == Buddy(s, k, a)
<1>8. Aligned(s, k, a) /\ Aligned(s, k, y) /\ Buddy(s, k, y) = a
  BY <1>6, <1>7, BuddyBack DEF FreeAligned
<1>9. Inside(y, k, X, o)
  BY <1>1, <1>2, <1>6, <1>7, <1>8, HoldsBoth
<1> HIDE DEF y
<1>10. PICK q \in Nat : y = base_ptr(s) + q * BlockSize(k)
  BY <1>8 DEF Aligned
<1>11a. PICK l \in Orders : \E x : On(free_list, s, l, x) /\ ~Apart(y, k, x, l)
  <2>1. X <= y /\ y + BlockSize(k) <= X + BlockSize(o)
    BY <1>9 DEF Inside
  <2> QED
    BY <1>4, <1>7, <1>10, <2>1
<1>11. PICK x : On(free_list, s, l, x) /\ ~Apart(y, k, x, l)
  BY <1>11a
<1>12. /\ l \in Shifts /\ x \in Nat /\ BlockSize(l) \in Nat
       /\ BlockSize(k) \in Nat /\ y \in Nat
  <2>1. l \in Shifts /\ x \in Nat /\ BlockSize(l) \in Nat
    BY <1>11, OnFacts
  <2>2. BlockSize(k) \in Nat
    BY <1>7, BlockSizeType
  <2> QED
    BY <1>1, <1>10, <2>1, <2>2
<1>13. l \in K
  <2>1. ~Apart(x, l, X, o)
    BY <1>1, <1>9, <1>11, <1>12 DEF Apart, Inside
  <2> QED
    BY <1>11, <2>1
<1>14. k <= l
  BY <1>5, <1>13
<1>15. Aligned(s, l, x)
  BY <1>11 DEF FreeAligned
<1>16. CASE l = k
  <2>1. y = x
    BY <1>7, <1>8, <1>11, <1>15, <1>16, SameOrApart
  <2>2. k < max_order(s)
    <3>1. max_order(s) \in Orders
      BY SegFacts
    <3> QED
      BY <1>7, <3>1 DEF Orders
  <2> QED
    BY <1>6, <1>7, <1>11, <1>16, <2>1, <2>2 DEF NoBuddies, y
<1>17. CASE k < l
  <2>1. Inside(a, k, x, l)
    BY <1>7, <1>8, <1>11, <1>12, <1>15, <1>17, HoldsBoth
  <2>2. Apart(a, k, x, l)
    <3>1. k # l
      BY <1>7, <1>12, <1>17 DEF Shifts
    <3> QED
      BY <1>6, <1>7, <1>11, <3>1, OnFacts
  <2>3. a \in Nat /\ BlockSize(k) > 0
    BY <1>6, <1>7, OnFacts
  <2> QED
    BY <1>12, <2>1, <2>2, <2>3 DEF Inside, Apart
<1> QED
  BY <1>7, <1>14, <1>16, <1>17 DEF Orders

-----------------------------------------------------------------------------
(* The invariants are inductive.                                           *)

BuddyInv == BlocksAligned /\ NoBuddies /\ NoPageLost

\* A page that is accounted for.
PageKept(s, i) ==
  \/ PageFree(free_list, s, i)
  \/ \E b \in live : Covers(s, i, OrderOf(b.n), b.p)
  \/ call.op # "idle" /\ Covers(s, i, HeldOrder, call.addr)

\* Taking a block off a list.
LEMMA TakeKeeps ==
  ASSUME FreeAligned, NoBuddies, NEW s \in Segs, NEW k \in Orders, NEW a,
         IsTaken(free_list, free_list', s, k, a)
  PROVE  /\ FreeAligned' /\ NoBuddies'
         /\ \A t \in Segs : \A i :
              PageFree(free_list, t, i) =>
                PageFree(free_list', t, i) \/ (t = s /\ Covers(s, i, k, a))
<1>1. \A t \in Segs, l \in Orders : \A x :
        On(free_list', t, l, x) => On(free_list, t, l, x)
  BY DEF IsTaken
<1>2. FreeAligned'
  BY <1>1, Zenon DEF FreeAligned, Aligned
<1>3. NoBuddies'
  BY <1>1, Zenon DEF NoBuddies
<1>4. ASSUME NEW t \in Segs, NEW i, PageFree(free_list, t, i)
      PROVE  PageFree(free_list', t, i) \/ (t = s /\ Covers(s, i, k, a))
  <2>1. PICK l \in Orders : \E x : On(free_list, t, l, x) /\ Covers(t, i, l, x)
    BY <1>4 DEF PageFree
  <2>2. PICK x : On(free_list, t, l, x) /\ Covers(t, i, l, x)
    BY <2>1
  <2>3. On(free_list', t, l, x) \/ (t = s /\ l = k /\ x = a)
    BY <2>2 DEF IsTaken
  <2> QED
    BY <2>2, <2>3, Zenon DEF PageFree
<1> QED
  BY <1>2, <1>3, <1>4

\* Putting a block on a list that does not hold its buddy.
LEMMA AddKeeps ==
  ASSUME FreeAligned, NoBuddies, NEW s \in Segs, NEW k \in Orders, NEW a \in Nat,
         IsAdded(free_list, free_list', s, k, a), Aligned(s, k, a),
         k < max_order(s) => ~On(free_list, s, k, Buddy(s, k, a))
  PROVE  /\ FreeAligned' /\ NoBuddies'
         /\ \A t \in Segs : \A i :
              PageFree(free_list, t, i) \/ (t = s /\ Covers(s, i, k, a)) =>
                PageFree(free_list', t, i)
<1>1. \A t \in Segs, l \in Orders : \A x :
        On(free_list', t, l, x) <=>
          On(free_list, t, l, x) \/ (t = s /\ l = k /\ x = a)
  BY DEF IsAdded
<1>2. FreeAligned'
  BY <1>1, Zenon DEF FreeAligned
<1>3. NoBuddies'
  <2> SUFFICES ASSUME NEW t \in Segs, NEW l \in Orders, NEW x, l < max_order(t),
                      On(free_list', t, l, x), On(free_list', t, l, Buddy(t, l, x))
               PROVE  FALSE
    BY DEF NoBuddies
  <2> DEFINE y == Buddy(t, l, x)
  <2>1. Aligned(t, l, x)
    BY <1>2 DEF FreeAligned
  <2>2. l \in Shifts /\ BlockSize(l) \in Nat /\ BlockSize(l) > 0
    BY OrdersShifts, BlockSizeType
  <2>3. Buddy(t, l, y) = x
    BY <2>1, <2>2, BuddyBack
  <2>4. y # x
    <3>1. x \in Int
      BY <2>1, <2>2, SegFacts DEF Aligned
    <3>2. y = x + BlockSize(l) \/ y = x - BlockSize(l)
      BY DEF Buddy
    <3> HIDE DEF y
    <3> QED
      BY <2>2, <3>1, <3>2
  <2> HIDE DEF y
  <2>5. CASE On(free_list, t, l, x) /\ On(free_list, t, l, y)
    BY <2>5 DEF NoBuddies, y
  <2>6. CASE t = s /\ l = k /\ x = a
    <3>1. On(free_list, t, l, y)
      BY <1>1, <2>4, <2>6 DEF y
    <3> QED
      BY <2>6, <3>1 DEF y
  <2>7. CASE t = s /\ l = k /\ y = a
    <3>1. On(free_list, t, l, x)
      BY <1>1, <2>4, <2>7
    <3> QED
      BY <2>3, <2>7, <3>1
  <2>8. On(free_list', t, l, y)
    BY DEF y
  <2> QED
    BY <1>1, <2>5, <2>6, <2>7, <2>8
<1>4. ASSUME NEW t \in Segs, NEW i,
             PageFree(free_list, t, i) \/ (t = s /\ Covers(s, i, k, a))
      PROVE  PageFree(free_list', t, i)
  BY <1>1, <1>4, Zenon DEF PageFree
<1> QED
  BY <1>2, <1>3, <1>4

\* A block inside segment s covers pages of s only.
LEMMA CoversOwn ==
  ASSUME NEW s \in Segs, NEW t \in Segs, NEW i \in PagesOf(t), NEW k \in Shifts,
         NEW a \in Nat, Within(s, k, a), Covers(t, i, k, a)
  PROVE  t = s
<1> SUFFICES ASSUME s # t PROVE FALSE
  OBVIOUS
<1>1. \/ base_ptr(s) + size(s) <= base_ptr(t)
      \/ base_ptr(t) + size(t) <= base_ptr(s)
  BY SegtabAssumption
<1>2. SegEnd(s) <= base_ptr(s) + size(s) /\ SegEnd(t) <= base_ptr(t) + size(t)
  BY SegtabAssumption
<1>3. /\ base_ptr(s) \in Nat /\ size(s) \in Nat /\ SegEnd(s) \in Nat
      /\ base_ptr(t) \in Nat /\ size(t) \in Nat /\ SegEnd(t) \in Nat
      /\ SegEnd(t) = base_ptr(t) + BlockSize(max_order(t))
      /\ max_order(t) \in Shifts
  BY SegFacts, OrdersShifts
<1> DEFINE page == base_ptr(t) + i * PageSize
<1>4. page \in Nat /\ base_ptr(t) <= page /\ page < SegEnd(t)
  <2>1. Pow2(max_order(t)) \in Nat
    BY <1>3, Pow2Type
  <2>2. i \in Nat /\ i < Pow2(max_order(t))
    BY <2>1 DEF PagesOf
  <2> QED
    BY <1>3, <2>1, <2>2 DEF BlockSize, PageSize
<1>5. base_ptr(s) <= page /\ page < SegEnd(s)
  <2>1. BlockSize(k) \in Nat
    BY BlockSizeType
  <2> QED
    BY <1>3, <1>4, <2>1 DEF Within, Covers
<1> HIDE DEF page
<1> QED
  BY <1>1, <1>2, <1>3, <1>4, <1>5

\* Pages are kept when each one that was kept is.
LEMMA PagesKept ==
  ASSUME NoPageLost, num_segtab' = num_segtab,
         \A s \in Segs : \A i \in PagesOf(s) : PageKept(s, i) => PageKept(s, i)'
  PROVE  NoPageLost'
<1>1. NoPageLost <=>
        (num_segtab > 0 => \A s \in Segs : \A i \in PagesOf(s) : PageKept(s, i))
  BY NoPageLostAsSets DEF PageKept
<1>2. NoPageLost' <=>
        (num_segtab' > 0 => \A s \in Segs : \A i \in PagesOf(s) : PageKept(s, i)')
  <2>1. \A s, i : PageFree(free_list', s, i) <=>
                    \E k \in Orders : \E j \in Idx(s, k)' :
                      Covers(s, i, k, free_list'[s][k][j])
    BY Zenon DEF PageFree, On, Idx
  <2> QED
    BY <2>1, Zenon DEF NoPageLost, PageKept
<1> QED
  BY <1>1, <1>2

-----------------------------------------------------------------------------
\* Before initialise there is nothing to align and nothing to lose.
LEMMA BuddyInit == Init => BuddyInv
<1> SUFFICES ASSUME Init PROVE BuddyInv
  OBVIOUS
<1>1. \A t \in Segs, l \in Orders : \A x : ~On(free_list, t, l, x)
  BY DEF Init, On
<1>2. FreeAligned /\ NoBuddies
  BY <1>1 DEF FreeAligned, NoBuddies
<1>3. LiveAligned /\ HeldAligned
  BY DEF Init, LiveAligned, HeldAligned, Idle
<1>4. NoPageLost
  BY DEF Init, NoPageLost
<1> QED
  BY <1>2, <1>3, <1>4 DEF BuddyInv, BlocksAligned

\* initialise puts one block per segment on a list, which covers all of it.
LEMMA initialiseAligns ==
  ASSUME Inv, initialise
  PROVE  BuddyInv'
<1>1. /\ free_list' = InitialLists /\ num_segtab = 0 /\ call' = call /\ call = Idle
      /\ live' = live
  BY DEF initialise
<1>2. live' = {}
  <2>1. \A b \in live : \E s \in 1..0 : Within(s, OrderOf(b.n), b.p)
    BY <1>1 DEF Inv, BlocksDisjoint, LiveWithin
  <2> QED
    BY <1>1, <2>1
<1>3. \A t \in Segs, l \in Orders : \A x :
        On(free_list', t, l, x) <=> l = max_order(t) /\ x = base_ptr(t)
  BY <1>1 DEF On, InitialLists
<1>4. FreeAligned'
  <2> SUFFICES ASSUME NEW t \in Segs PROVE Aligned(t, max_order(t), base_ptr(t))
    BY <1>3 DEF FreeAligned
  <2>1. BlockSize(max_order(t)) \in Nat /\ base_ptr(t) \in Nat
    BY SegFacts, OrdersShifts, BlockSizeType
  <2>2. base_ptr(t) = base_ptr(t) + 0 * BlockSize(max_order(t))
    BY <2>1
  <2> QED
    BY <2>2 DEF Aligned
<1>5. NoBuddies'
  <2> SUFFICES ASSUME NEW t \in Segs, NEW l \in Orders, l < max_order(t),
                      l = max_order(t)
               PROVE  FALSE
    BY <1>3 DEF NoBuddies
  <2> QED
    BY DEF Orders
<1>6. LiveAligned' /\ HeldAligned'
  BY <1>1, <1>2 DEF LiveAligned, HeldAligned, Idle
<1>7. ASSUME NEW s \in Segs, NEW i \in PagesOf(s)
      PROVE  PageFree(free_list', s, i)
  <2>1. max_order(s) \in Orders /\ On(free_list', s, max_order(s), base_ptr(s))
    BY <1>3, SegFacts
  <2>2. Covers(s, i, max_order(s), base_ptr(s))
    <3>1. Pow2(max_order(s)) \in Nat /\ base_ptr(s) \in Nat
      BY <2>1, SegFacts, OrdersShifts, Pow2Type
    <3> QED
      BY <3>1 DEF PagesOf, Covers, BlockSize, PageSize
  <2> QED
    BY <2>1, <2>2 DEF PageFree
<1>8. NoPageLost'
  <2>1. \A s, i : PageFree(free_list', s, i) =>
                    \E k \in Orders : \E j \in Idx(s, k)' :
                      Covers(s, i, k, free_list'[s][k][j])
    BY Zenon DEF PageFree, On, Idx
  <2> QED
    BY <1>7, <2>1, Zenon DEF NoPageLost
<1> QED
  BY <1>4, <1>5, <1>6, <1>8 DEF BuddyInv, BlocksAligned

\* alloc takes a block off its list: the block is in hand.
LEMMA AllocTakeAligns ==
  ASSUME Inv, BuddyInv, NEW n \in Requests, AllocTake(n)
  PROVE  BuddyInv'
<1>1. PICK s \in 1..num_segtab, k \in Orders :
        /\ FirstServing(s, k, OrderOf(n))
        /\ free_list' = [free_list EXCEPT ![s][k] = Tail(free_list[s][k])]
        /\ call' = [op |-> "split", seg |-> s, order |-> OrderOf(n),
                    current |-> k, addr |-> Head(free_list[s][k]), n |-> n]
  BY DEF AllocTake
<1> DEFINE a == Head(free_list[s][k])
<1>2. call = Idle /\ live' = live /\ num_segtab' = num_segtab
  BY DEF AllocTake
<1>3. s \in Segs /\ free_list \in Lists /\ free_list[s][k] # <<>>
  BY <1>1, SegFacts DEF Inv, TypeOK, Lists, FirstServing, Serves
<1>4. call.op = "idle" /\ call'.op = "split" /\ call'.seg = s /\ call'.addr = a
      /\ HeldOrder' = k
  BY <1>1, <1>2 DEF HeldOrder, Idle
<1>5. IsTaken(free_list, free_list', s, k, a)
  BY <1>1, <1>3, TailTakes
<1>6. On(free_list, s, k, a)
  <2>1. free_list[s][k] \in Seq(Nat)
    BY <1>3 DEF Lists
  <2>2. Len(free_list[s][k]) \in Nat /\ Len(free_list[s][k]) >= 1
        /\ a = free_list[s][k][1]
    BY <1>3, <2>1, TailProps
  <2>3. 1 \in 1..Len(free_list[s][k])
    BY <2>2
  <2> QED
    BY <2>2, <2>3 DEF On
<1> HIDE DEF a
<1>7. /\ FreeAligned' /\ NoBuddies'
      /\ \A t \in Segs : \A i :
           PageFree(free_list, t, i) =>
             PageFree(free_list', t, i) \/ (t = s /\ Covers(s, i, k, a))
  BY <1>3, <1>5, TakeKeeps DEF BuddyInv, BlocksAligned
<1>8. LiveAligned'
  BY <1>2 DEF BuddyInv, BlocksAligned, LiveAligned
<1>9. HeldAligned'
  BY <1>3, <1>4, <1>6 DEF BuddyInv, BlocksAligned, FreeAligned, HeldAligned
<1>10. ASSUME NEW t \in Segs, NEW i \in PagesOf(t), PageKept(t, i)
       PROVE  PageKept(t, i)'
  BY <1>2, <1>4, <1>7, <1>10 DEF PageKept
<1>11. NoPageLost'
  BY <1>2, <1>10, PagesKept DEF BuddyInv
<1> QED
  BY <1>7, <1>8, <1>9, <1>11 DEF BuddyInv, BlocksAligned

\* A failed alloc changes the error count only.
LEMMA UnchangedAligns ==
  ASSUME BuddyInv, UNCHANGED <<num_segtab, free_list, call, live>>
  PROVE  BuddyInv'
<1>1. BlocksAligned'
  BY DEF BuddyInv, BlocksAligned, FreeAligned, LiveAligned, HeldAligned, HeldOrder
<1>2. NoBuddies'
  BY DEF BuddyInv, NoBuddies
<1>3. NoPageLost'
  BY DEF BuddyInv, NoPageLost, Idx, HeldOrder
<1> QED
  BY <1>1, <1>2, <1>3 DEF BuddyInv

\* alloc splits: the lower half stays in hand, and the upper half goes on a
\* list that cannot hold its buddy, since its buddy is the lower half.
LEMMA AllocSplitAligns == ASSUME Inv, BuddyInv, AllocSplit PROVE BuddyInv'
<1> DEFINE s == call.seg
           k == call.current - 1
           a == call.addr
           B == BlockSize(k)
           h == a + B
<1>1. /\ call.op = "split" /\ call.op # "idle" /\ s \in Segs /\ a \in Nat
      /\ call.current \in Shifts /\ call.current > call.order /\ call.order \in Nat
      /\ HeldOrder = call.current /\ HeldOrder \in 0..max_order(s)
  <2>1. /\ call.op = "split" /\ call.op # "idle" /\ call \in Calls
        /\ s \in 1..num_segtab /\ s \in Segs /\ HeldOrder \in 0..max_order(s)
        /\ call.current > call.order
    BY SegFacts DEF AllocSplit, Inv, TypeOK
  <2>2. a \in Nat /\ call.current \in Shifts /\ call.order \in Shifts
    BY <2>1 DEF Calls
  <2>3. HeldOrder = call.current /\ call.order \in Nat
    BY <2>1, <2>2 DEF HeldOrder, Shifts
  <2> QED
    BY <2>1, <2>2, <2>3
<1>2. /\ call' = [call EXCEPT !.current = k]
      /\ free_list' = [free_list EXCEPT ![s][k] = Cons(h, free_list[s][k])]
      /\ live' = live /\ num_segtab' = num_segtab
  BY DEF AllocSplit, add_block
<1>3. /\ k \in Orders /\ k \in Shifts /\ k \in 0..17 /\ k < max_order(s)
      /\ k + 1 = call.current
  <2>1. max_order(s) \in 0..15
    BY <1>1, SegFacts DEF Orders
  <2> QED
    BY <1>1, <2>1 DEF Orders, Shifts
<1>4. /\ call'.op = "split" /\ call'.op # "idle" /\ call'.seg = s /\ call'.addr = a
      /\ HeldOrder' = k
  BY <1>1, <1>2 DEF HeldOrder, Inv, TypeOK, Calls
<1>5. B \in Nat /\ B > 0 /\ BlockSize(call.current) = B + B /\ h \in Nat
  <2>1. B \in Nat /\ B > 0
    BY <1>3, BlockSizeType
  <2>2. BlockSize(k + 1) = B + B
    BY <1>3, BlockSizeDouble
  <2> QED
    BY <1>1, <1>3, <2>1, <2>2
<1>6. Aligned(s, call.current, a)
  BY <1>1 DEF BuddyInv, BlocksAligned, HeldAligned
<1>7. PICK q \in Nat : a = base_ptr(s) + q * BlockSize(call.current)
  BY <1>6 DEF Aligned
<1>8. base_ptr(s) \in Nat /\ free_list \in Lists
  BY <1>1, SegFacts DEF Inv, TypeOK, Lists
<1> HIDE DEF k, a, B, h, s
<1>9. /\ a = base_ptr(s) + (2 * q) * B /\ h = base_ptr(s) + (2 * q + 1) * B
      /\ 2 * q \in Nat /\ 2 * q + 1 \in Nat /\ (2 * q + 1) % 2 = 1
      /\ (2 * q + 1) - 1 = 2 * q
  <2>1. q * (B + B) = (2 * q) * B /\ (2 * q + 1) * B = (2 * q) * B + B
    BY <1>5
  <2>2. /\ 2 * q \in Nat /\ 2 * q + 1 \in Nat /\ (2 * q + 1) % 2 = 1
        /\ (2 * q + 1) - 1 = 2 * q /\ (2 * q) * B \in Nat
    BY <1>5
  <2>3. a = base_ptr(s) + (2 * q) * B
    BY <1>5, <1>7, <2>1
  <2>4. h = base_ptr(s) + (2 * q + 1) * B
    BY <1>5, <1>8, <2>1, <2>2, <2>3 DEF h
  <2> QED
    BY <2>2, <2>3, <2>4
<1>10. Aligned(s, k, a) /\ Aligned(s, k, h)
  BY <1>9 DEF Aligned, B
<1>11. Buddy(s, k, h) = a
  <2>1. Buddy(s, k, base_ptr(s) + (2 * q + 1) * BlockSize(k)) =
          base_ptr(s) + ((2 * q + 1) - 1) * BlockSize(k)
    BY <1>1, <1>3, <1>9, BuddyOf
  <2> QED
    BY <1>9, <2>1 DEF B
<1>12. ~On(free_list, s, k, a)
  <2> SUFFICES ASSUME On(free_list, s, k, a) PROVE FALSE
    OBVIOUS
  <2>1. Apart(a, call.current, a, k)
    BY <1>1, <1>3, OnFacts DEF a
  <2> QED
    BY <1>1, <1>5, <2>1 DEF Apart, B
<1>13. IsAdded(free_list, free_list', s, k, h)
  BY <1>1, <1>2, <1>3, <1>5, <1>8, ConsAdds
<1>14. /\ FreeAligned' /\ NoBuddies'
       /\ \A t \in Segs : \A i :
            PageFree(free_list, t, i) \/ (t = s /\ Covers(s, i, k, h)) =>
              PageFree(free_list', t, i)
  BY <1>1, <1>3, <1>5, <1>10, <1>11, <1>12, <1>13, AddKeeps
     DEF BuddyInv, BlocksAligned
<1>15. LiveAligned' /\ HeldAligned'
  BY <1>2, <1>4, <1>10 DEF BuddyInv, BlocksAligned, LiveAligned, HeldAligned
<1>16. ASSUME NEW t \in Segs, NEW i \in PagesOf(t),
              Covers(t, i, call.current, a)
       PROVE  PageKept(t, i)'
  <2>1. Within(s, call.current, a)
    BY <1>1 DEF Inv, BlocksDisjoint, HeldWithin, s, a
  <2>2. t = s
    BY <1>1, <1>16, <2>1, CoversOwn
  <2>3. i \in Int
    BY DEF PagesOf
  <2>4. Covers(t, i, k, a) \/ Covers(t, i, k, h)
    BY <1>1, <1>5, <1>8, <1>16, <2>2, <2>3 DEF Covers, h, B, PageSize
  <2> QED
    BY <1>4, <1>14, <2>2, <2>4 DEF PageKept
<1>17. ASSUME NEW t \in Segs, NEW i \in PagesOf(t), PageKept(t, i)
       PROVE  PageKept(t, i)'
  <2>1. CASE PageFree(free_list, t, i)
    BY <1>14, <2>1 DEF PageKept
  <2>2. CASE \E b \in live : Covers(t, i, OrderOf(b.n), b.p)
    BY <1>2, <2>2 DEF PageKept
  <2>3. CASE Covers(t, i, HeldOrder, call.addr)
    BY <1>1, <1>16, <2>3 DEF a
  <2> QED
    BY <1>17, <2>1, <2>2, <2>3 DEF PageKept
<1>18. NoPageLost'
  BY <1>2, <1>17, PagesKept DEF BuddyInv
<1> QED
  BY <1>14, <1>15, <1>18 DEF BuddyInv, BlocksAligned

\* alloc returns: the block in hand becomes the caller's.
LEMMA AllocReturnAligns == ASSUME Inv, BuddyInv, AllocReturn PROVE BuddyInv'
<1> DEFINE new == [p |-> call.addr, n |-> call.n]
<1>1. /\ call.op = "split" /\ call.op # "idle" /\ call.seg \in 1..num_segtab
      /\ HeldOrder = OrderOf(call.n)
  BY DEF AllocReturn, Inv, TypeOK, HeldOrder
<1>2. /\ free_list' = free_list /\ live' = live \cup {new}
      /\ num_segtab' = num_segtab /\ call'.op = "idle"
  BY DEF AllocReturn, Idle
<1>3. new.p = call.addr /\ new.n = call.n
  OBVIOUS
<1> HIDE DEF new
<1>4. FreeAligned' /\ NoBuddies'
  BY <1>2 DEF BuddyInv, BlocksAligned, FreeAligned, NoBuddies
<1>5. Within(call.seg, HeldOrder, call.addr) /\ Aligned(call.seg, HeldOrder, call.addr)
  BY <1>1 DEF Inv, BlocksDisjoint, HeldWithin, BuddyInv, BlocksAligned, HeldAligned
<1>6. LiveAligned'
  <2> SUFFICES ASSUME NEW b \in live'
               PROVE  \E s \in 1..num_segtab :
                        Within(s, OrderOf(b.n), b.p) /\ Aligned(s, OrderOf(b.n), b.p)
    BY <1>2 DEF LiveAligned
  <2>1. CASE b \in live
    BY <2>1 DEF BuddyInv, BlocksAligned, LiveAligned
  <2>2. CASE b = new
    BY <1>1, <1>3, <1>5, <2>2
  <2> QED
    BY <1>2, <2>1, <2>2
<1>7. HeldAligned'
  BY <1>2 DEF HeldAligned
<1>8. ASSUME NEW t \in Segs, NEW i \in PagesOf(t), PageKept(t, i)
      PROVE  PageKept(t, i)'
  BY <1>1, <1>2, <1>3, <1>8 DEF PageKept
<1>9. NoPageLost'
  BY <1>2, <1>8, PagesKept DEF BuddyInv
<1> QED
  BY <1>4, <1>6, <1>7, <1>9 DEF BuddyInv, BlocksAligned

\* free takes an owned block in hand, in the segment it is aligned in.
LEMMA FreeCallAligns ==
  ASSUME Inv, Inv', BuddyInv, NEW b \in live, FreeCall(b)
  PROVE  BuddyInv'
<1>1. PICK s \in 1..num_segtab :
        /\ Holds(s, b.p)
        /\ call' = [op |-> "merge", seg |-> s, order |-> OrderOf(b.n),
                    current |-> 0, addr |-> b.p, n |-> b.n]
  BY DEF FreeCall
<1>2. /\ live' = live \ {b} /\ free_list' = free_list /\ num_segtab' = num_segtab
      /\ call.op = "idle"
  BY DEF FreeCall, Idle
<1>3. call'.op = "merge" /\ call'.op # "idle" /\ call'.seg = s /\ call'.addr = b.p
      /\ HeldOrder' = OrderOf(b.n)
  BY <1>1 DEF HeldOrder
<1>4. PICK t \in 1..num_segtab :
        Within(t, OrderOf(b.n), b.p) /\ Aligned(t, OrderOf(b.n), b.p)
  BY DEF BuddyInv, BlocksAligned, LiveAligned
<1>5. s = t
  <2>1. /\ s \in Segs /\ t \in Segs /\ b.p \in Nat /\ b.n \in Requests
    BY SegFacts DEF Inv, TypeOK
  <2>2. OrderOf(b.n) \in Shifts /\ BlockSize(OrderOf(b.n)) \in Nat
        /\ BlockSize(OrderOf(b.n)) > 0
    BY <2>1, OrderOfType, BlockSizeType
  <2>3. Within(s, OrderOf(b.n), b.p)
    BY <1>3 DEF Inv, BlocksDisjoint, HeldWithin, Within
  <2> SUFFICES ASSUME s # t PROVE FALSE
    OBVIOUS
  <2>4. \/ base_ptr(s) + size(s) <= base_ptr(t)
        \/ base_ptr(t) + size(t) <= base_ptr(s)
    BY <2>1, SegtabAssumption
  <2>5. SegEnd(s) <= base_ptr(s) + size(s) /\ SegEnd(t) <= base_ptr(t) + size(t)
    BY <2>1, SegtabAssumption
  <2>6. /\ base_ptr(s) \in Nat /\ size(s) \in Nat /\ SegEnd(s) \in Nat
        /\ base_ptr(t) \in Nat /\ size(t) \in Nat /\ SegEnd(t) \in Nat
    BY <2>1, SegFacts
  <2> QED
    BY <1>4, <2>1, <2>2, <2>3, <2>4, <2>5, <2>6 DEF Within
<1>6. FreeAligned' /\ NoBuddies'
  BY <1>2 DEF BuddyInv, BlocksAligned, FreeAligned, NoBuddies
<1>7. LiveAligned' /\ HeldAligned'
  BY <1>2, <1>3, <1>4, <1>5 DEF BuddyInv, BlocksAligned, LiveAligned, HeldAligned
<1>8. ASSUME NEW u \in Segs, NEW i \in PagesOf(u), PageKept(u, i)
      PROVE  PageKept(u, i)'
  <2>1. CASE PageFree(free_list, u, i)
    BY <1>2, <2>1 DEF PageKept
  <2>2. ASSUME NEW c \in live, Covers(u, i, OrderOf(c.n), c.p)
        PROVE  PageKept(u, i)'
    BY <1>2, <1>3, <2>2 DEF PageKept
  <2> QED
    BY <1>2, <1>8, <2>1, <2>2 DEF PageKept
<1>9. NoPageLost'
  BY <1>2, <1>8, PagesKept DEF BuddyInv
<1> QED
  BY <1>6, <1>7, <1>9 DEF BuddyInv, BlocksAligned

\* free merges: of two buddies one has an even number, and from there a block
\* of the next order is aligned.
LEMMA FreeMergeAligns == ASSUME Inv, BuddyInv, FreeMerge PROVE BuddyInv'
<1> DEFINE s == call.seg
           k == call.order
           a == call.addr
           B == BlockSize(k)
           buddy == Buddy(s, k, a)
           low == IF buddy < a THEN buddy ELSE a
<1>1. /\ call \in Calls /\ call.op = "merge" /\ call.op # "idle"
      /\ s \in Segs /\ k \in Shifts /\ a \in Nat /\ HeldOrder = k
  BY SegFacts DEF FreeMerge, Inv, TypeOK, HeldOrder, Calls
<1>2. PICK i \in 1..Len(free_list[s][k]) :
        /\ IsBuddyAt(i)
        /\ free_list' = [free_list EXCEPT ![s][k] = RemoveAt(free_list[s][k], i)]
  BY DEF FreeMerge
<1>3. /\ call' = [call EXCEPT !.order = k + 1, !.addr = low]
      /\ live' = live /\ num_segtab' = num_segtab
  BY DEF FreeMerge
<1>4. k < max_order(s) /\ free_list[s][k][i] = buddy
  BY <1>2 DEF IsBuddyAt
<1>5. k \in Orders /\ k \in 0..17
  <2> HIDE DEF s, k
  <2>1. max_order(s) \in 0..15
    BY <1>1, SegFacts DEF Orders
  <2>2. k \in 0..18 /\ k < max_order(s)
    BY <1>1, <1>4 DEF Shifts
  <2> QED
    BY <2>1, <2>2 DEF Orders
<1>6. /\ call'.op = "merge" /\ call'.op # "idle" /\ call'.seg = s /\ call'.addr = low
      /\ HeldOrder' = k + 1
  BY <1>1, <1>3 DEF Calls, HeldOrder
<1>7. Aligned(s, k, a)
  BY <1>1 DEF BuddyInv, BlocksAligned, HeldAligned
<1>8. PICK q \in Nat : a = base_ptr(s) + q * B
  BY <1>7 DEF Aligned
<1>9. /\ q % 2 = 0 => buddy = base_ptr(s) + (q + 1) * B
      /\ q % 2 = 1 => q - 1 \in Nat /\ buddy = base_ptr(s) + (q - 1) * B
  BY <1>1, <1>8, BuddyOf
<1>10. /\ base_ptr(s) \in Nat /\ B \in Nat /\ B > 0
       /\ BlockSize(k + 1) = B + B /\ free_list \in Lists
  <2>1. BlockSize(k + 1) = B + B
    BY <1>5, BlockSizeDouble
  <2> QED
    BY <1>1, <2>1, SegFacts, BlockSizeType DEF Inv, TypeOK, Lists
<1> HIDE DEF s, k, a, B, buddy
<1>11. IsTaken(free_list, free_list', s, k, buddy)
  BY <1>1, <1>2, <1>4, <1>5, <1>10, RemoveAtTakes
<1>12. /\ FreeAligned' /\ NoBuddies'
       /\ \A t \in Segs : \A j :
            PageFree(free_list, t, j) =>
              PageFree(free_list', t, j) \/ (t = s /\ Covers(s, j, k, buddy))
  BY <1>1, <1>5, <1>11, TakeKeeps DEF BuddyInv, BlocksAligned
<1>13. /\ (q + 1) * B = q * B + B /\ (q - 1) * B = q * B - B /\ q * B \in Nat
  BY <1>10
<1>14. buddy \in Nat /\ (buddy = a + B \/ buddy = a - B)
  <2>1. CASE q % 2 = 0
    BY <1>8, <1>9, <1>10, <1>13, <2>1
  <2>2. CASE q % 2 = 1
    <3>1. q - 1 \in Nat /\ (q - 1) * B \in Nat
      BY <1>9, <1>10, <2>2
    <3> QED
      BY <1>8, <1>9, <1>10, <1>13, <2>2, <3>1
  <2> QED
    BY <2>1, <2>2
<1>15. Aligned(s, k + 1, low)
  <2>1. ASSUME NEW r \in Nat, low = base_ptr(s) + (2 * r) * B
        PROVE  Aligned(s, k + 1, low)
    <3>1. (2 * r) * B = r * (B + B)
      BY <1>10
    <3>2. low = base_ptr(s) + r * BlockSize(k + 1)
      BY <1>10, <2>1, <3>1
    <3> QED
      BY <3>2 DEF Aligned
  <2>2. CASE q % 2 = 0
    <3>1. low = a
      BY <1>1, <1>8, <1>9, <1>10, <1>13, <2>2
    <3>2. q \div 2 \in Nat /\ 2 * (q \div 2) = q
      BY <2>2
    <3> QED
      BY <1>8, <2>1, <3>1, <3>2
  <2>3. CASE q % 2 = 1
    <3>1. low = base_ptr(s) + (q - 1) * B
      BY <1>1, <1>8, <1>9, <1>10, <1>13, <2>3
    <3>2. q \div 2 \in Nat /\ 2 * (q \div 2) = q - 1
      BY <2>3
    <3> QED
      BY <2>1, <3>1, <3>2
  <2> QED
    BY <2>2, <2>3
<1>16. LiveAligned' /\ HeldAligned'
  BY <1>3, <1>6, <1>15 DEF BuddyInv, BlocksAligned, LiveAligned, HeldAligned
<1>17. ASSUME NEW t \in Segs, NEW j \in PagesOf(t),
              Covers(t, j, k, a) \/ Covers(t, j, k, buddy)
       PROVE  PageKept(t, j)'
  <2>1. j \in Int /\ base_ptr(t) \in Nat
    BY SegFacts DEF PagesOf
  <2>2. Covers(t, j, k + 1, low)
    BY <1>1, <1>10, <1>14, <1>17, <2>1, SMTT(30) DEF Covers, B, PageSize
  <2> QED
    BY <1>6, <2>2 DEF PageKept
<1>18. ASSUME NEW t \in Segs, NEW j \in PagesOf(t), PageKept(t, j)
       PROVE  PageKept(t, j)'
  <2>1. CASE PageFree(free_list, t, j)
    BY <1>12, <1>17, <2>1 DEF PageKept
  <2>2. CASE \E b \in live : Covers(t, j, OrderOf(b.n), b.p)
    BY <1>3, <2>2 DEF PageKept
  <2>3. CASE Covers(t, j, HeldOrder, call.addr)
    BY <1>1, <1>17, <2>3 DEF a
  <2> QED
    BY <1>18, <2>1, <2>2, <2>3 DEF PageKept
<1>19. NoPageLost'
  BY <1>3, <1>18, PagesKept DEF BuddyInv
<1> QED
  BY <1>12, <1>16, <1>19 DEF BuddyInv, BlocksAligned

\* free inserts: the loop ended because the buddy is not on the list.
LEMMA FreeInsertAligns == ASSUME Inv, BuddyInv, FreeInsert PROVE BuddyInv'
<1> DEFINE s == call.seg
           k == call.order
           a == call.addr
<1>1. /\ call \in Calls /\ call.op = "merge" /\ call.op # "idle"
      /\ s \in Segs /\ k \in Shifts /\ a \in Nat /\ HeldOrder = k
      /\ k \in 0..max_order(s)
  BY SegFacts DEF FreeInsert, Inv, TypeOK, HeldOrder, Calls
<1>2. /\ free_list' = [free_list EXCEPT ![s][k] = Cons(a, free_list[s][k])]
      /\ call'.op = "idle" /\ live' = live /\ num_segtab' = num_segtab
  BY DEF FreeInsert, add_block, Idle
<1>3. k < max_order(s) => ~On(free_list, s, k, Buddy(s, k, a))
  BY <1>1 DEF FreeInsert, BuddyFree, IsBuddyAt, On
<1>4. Aligned(s, k, a) /\ Within(s, k, a)
  BY <1>1 DEF BuddyInv, BlocksAligned, HeldAligned, Inv, BlocksDisjoint, HeldWithin
<1> HIDE DEF s, k, a
<1>5. k \in Orders
  <2>1. max_order(s) \in 0..15
    BY <1>1, SegFacts DEF Orders
  <2> QED
    BY <1>1, <2>1 DEF Orders
<1>6. IsAdded(free_list, free_list', s, k, a)
  <2>1. free_list \in Lists
    BY DEF Inv, TypeOK, Lists
  <2> QED
    BY <1>1, <1>2, <1>5, <2>1, ConsAdds
<1>7. /\ FreeAligned' /\ NoBuddies'
      /\ \A t \in Segs : \A i :
           PageFree(free_list, t, i) \/ (t = s /\ Covers(s, i, k, a)) =>
             PageFree(free_list', t, i)
  BY <1>1, <1>3, <1>4, <1>5, <1>6, AddKeeps DEF BuddyInv, BlocksAligned
<1>8. LiveAligned' /\ HeldAligned'
  BY <1>2 DEF BuddyInv, BlocksAligned, LiveAligned, HeldAligned
<1>9. ASSUME NEW t \in Segs, NEW i \in PagesOf(t), PageKept(t, i)
      PROVE  PageKept(t, i)'
  <2>1. CASE PageFree(free_list, t, i)
    BY <1>7, <2>1 DEF PageKept
  <2>2. CASE \E b \in live : Covers(t, i, OrderOf(b.n), b.p)
    BY <1>2, <2>2 DEF PageKept
  <2>3. CASE Covers(t, i, HeldOrder, call.addr)
    <3>1. Covers(t, i, k, a)
      BY <1>1, <2>3 DEF a
    <3>2. t = s
      BY <1>1, <1>4, <3>1, CoversOwn
    <3> QED
      BY <1>7, <3>1, <3>2 DEF PageKept
  <2> QED
    BY <1>9, <2>1, <2>2, <2>3 DEF PageKept
<1>10. NoPageLost'
  BY <1>2, <1>9, PagesKept DEF BuddyInv
<1> QED
  BY <1>7, <1>8, <1>10 DEF BuddyInv, BlocksAligned

-----------------------------------------------------------------------------
\* Between any two iterations of the loops of alloc and free, blocks are
\* aligned, no list holds two buddies, and every page is accounted for.
THEOREM BuddyInvariance == Spec => []BuddyInv
<1>1. Init => BuddyInv
  BY BuddyInit
<1>2. Inv /\ Inv' /\ BuddyInv /\ [Next]_vars => BuddyInv'
  <2> SUFFICES ASSUME Inv, Inv', BuddyInv, [Next]_vars PROVE BuddyInv'
    OBVIOUS
  <2>1. CASE initialise
    BY <2>1, initialiseAligns
  <2>2. ASSUME NEW n \in Requests, AllocTake(n) PROVE BuddyInv'
    BY <2>2, AllocTakeAligns
  <2>3. ASSUME NEW n \in Requests, AllocFail(n) PROVE BuddyInv'
    BY <2>3, UnchangedAligns DEF AllocFail
  <2>4. ASSUME NEW b \in live, FreeCall(b) PROVE BuddyInv'
    BY <2>4, FreeCallAligns
  <2>5. CASE AllocSplit
    BY <2>5, AllocSplitAligns
  <2>6. CASE AllocReturn
    BY <2>6, AllocReturnAligns
  <2>7. CASE FreeMerge
    BY <2>7, FreeMergeAligns
  <2>8. CASE FreeInsert
    BY <2>8, FreeInsertAligns
  <2>9. CASE UNCHANGED vars
    BY <2>9, UnchangedAligns DEF vars
  <2> QED
    BY <2>1, <2>2, <2>3, <2>4, <2>5, <2>6, <2>7, <2>8, <2>9 DEF Next, Step
<1> QED
  BY <1>1, <1>2, Invariance, PTL DEF Spec

\* The splitting loop of pmm::alloc and the merging loop of pmm::free lose no
\* memory: every managed page is owned, on a free list or in hand.
THEOREM PagesAreKept == Spec => []NoPageLost
<1>1. BuddyInv => NoPageLost
  BY DEF BuddyInv
<1> QED
  BY <1>1, BuddyInvariance, PTL

\* When nothing is owned, Finds gives one free block for the whole segment;
\* every other block on a list of the segment would overlap it.
LEMMA RestoredState ==
  ASSUME Inv, BuddyInv, num_segtab > 0, call = Idle, live = {}
  PROVE  free_list = InitialLists
<1>1. ASSUME NEW s \in Segs
      PROVE  /\ On(free_list, s, max_order(s), base_ptr(s))
             /\ \A k \in Orders : \A x :
                  On(free_list, s, k, x) => k = max_order(s) /\ x = base_ptr(s)
  <2> DEFINE o == max_order(s)
             b == base_ptr(s)
             B == BlockSize(o)
  <2>1. o \in Orders /\ b \in Nat /\ B \in Nat /\ B > 0 /\ SegEnd(s) = b + B
        /\ o <= max_order(s)
    <3>1. o \in Orders /\ b \in Nat /\ SegEnd(s) = b + B
      BY SegFacts
    <3>2. B \in Nat /\ B > 0
      BY <3>1, OrdersShifts, BlockSizeType
    <3> QED
      BY <3>1, <3>2 DEF Orders
  <2>2. b + 0 * B = b /\ b + 0 * B + B <= SegEnd(s)
    BY <2>1
  <2>3. Unowned(s, o, 0)
    BY DEF Unowned
  <2>4. PICK k \in Orders : \E x :
          On(free_list, s, k, x) /\ o <= k /\ ~Apart(x, k, b + 0 * B, o)
    BY <2>1, <2>2, <2>3, Finds DEF Idle, BuddyInv, BlocksAligned
  <2>5. PICK x : On(free_list, s, k, x) /\ o <= k
    BY <2>4
  <2>6. k = o /\ x = b
    <3>1. k <= max_order(s) /\ Within(s, k, x) /\ x \in Nat
      BY <2>5, OnFacts
    <3>2. k = o
      BY <2>1, <2>5, <3>1 DEF Orders
    <3> QED
      BY <2>1, <3>1, <3>2 DEF Within
  <2>7. ASSUME NEW l \in Orders, NEW y, On(free_list, s, l, y)
        PROVE  l = o /\ y = b
    <3>1. (l = k /\ y = x) \/ Apart(x, k, y, l)
      BY <2>5, <2>7, OnFacts
    <3>2. Within(s, l, y) /\ y \in Nat /\ BlockSize(l) \in Nat /\ BlockSize(l) > 0
      BY <2>7, OnFacts
    <3> QED
      BY <2>1, <2>6, <3>1, <3>2 DEF Within, Apart
  <2> QED
    BY <2>5, <2>6, <2>7
<1>2. free_list \in [Segs -> [Orders -> Seq(Nat)]]
  BY DEF Inv, TypeOK
<1>3. ASSUME NEW s \in Segs, NEW k \in Orders
      PROVE  free_list[s][k] = IF k = max_order(s) THEN <<base_ptr(s)>> ELSE <<>>
  <2> DEFINE q == free_list[s][k]
  <2>1. q \in Seq(Nat) /\ Len(q) \in Nat
    BY <1>2
  <2>2. \A j \in 1..Len(q) : k = max_order(s) /\ q[j] = base_ptr(s)
    BY <1>1, ZenonT(60) DEF On
  <2>3. \A i, j \in 1..Len(q) : i = j
    <3> SUFFICES ASSUME NEW i \in 1..Len(q), NEW j \in 1..Len(q), i # j PROVE FALSE
      OBVIOUS
    <3>1. Apart(q[i], k, q[j], k)
      BY DEF Inv, BlocksDisjoint, FreeApart, Idx
    <3>2. q[i] = q[j] /\ q[i] \in Nat /\ BlockSize(k) \in Nat /\ BlockSize(k) > 0
      BY <2>1, <2>2, SegFacts, OrdersShifts, BlockSizeType
    <3> QED
      BY <3>1, <3>2 DEF Apart
  <2>4. CASE k = max_order(s)
    <3>1. PICK j \in 1..Len(q) : q[j] = base_ptr(s)
      BY <1>1, <2>4 DEF On
    <3>2. Len(q) = 1
      <4>1. 1 \in 1..Len(q) /\ Len(q) \in 1..Len(q)
        BY <2>1, <3>1
      <4> QED
        BY <2>3, <4>1
    <3>3. q[1] = base_ptr(s)
      BY <2>2, <3>2
    <3> HIDE DEF q
    <3>4. q = <<base_ptr(s)>>
      BY <2>1, <3>2, <3>3
    <3> QED
      BY <2>4, <3>4 DEF q
  <2>5. CASE k # max_order(s)
    <3>1. Len(q) = 0
      BY <2>1, <2>2, <2>5
    <3> HIDE DEF q
    <3>2. q = <<>>
      BY <2>1, <3>1
    <3> QED
      BY <2>5, <3>2 DEF q
  <2> QED
    BY <2>4, <2>5
<1>4. InitialLists \in [Segs -> [Orders -> Seq(Nat)]]
  BY SegFacts DEF InitialLists
<1>5. \A s \in Segs, k \in Orders : free_list[s][k] = InitialLists[s][k]
  BY <1>3 DEF InitialLists
<1> HIDE DEF InitialLists
<1>6. \A s \in Segs : free_list[s] = InitialLists[s]
  <2> TAKE s \in Segs
  <2>1. free_list[s] \in [Orders -> Seq(Nat)] /\ InitialLists[s] \in [Orders -> Seq(Nat)]
    BY <1>2, <1>4
  <2> QED
    BY <1>5, <2>1
<1> QED
  BY <1>2, <1>4, <1>6

\* pmm::free undoes pmm::alloc, whatever the order of the calls: when callers
\* own nothing, the free lists are those that initialise set up.
THEOREM FreeUndoesAlloc == Spec => []RestoredWhenAllFreed
<1>1. Inv /\ BuddyInv => RestoredWhenAllFreed
  BY RestoredState DEF RestoredWhenAllFreed
<1> QED
  BY <1>1, Invariance, BuddyInvariance, PTL

\* A failed alloc found no list that serves it; by Finds every aligned run of
\* the size of the request then has an owned byte.
LEMMA FailsWhenFull ==
  ASSUME Inv, BuddyInv, num_segtab > 0, NEW n \in Requests, AllocFail(n),
         NEW s \in Segs, OrderOf(n) <= max_order(s),
         NEW i \in 0..(Pow2(max_order(s) - OrderOf(n)) - 1)
  PROVE  ~Unowned(s, OrderOf(n), i)
<1> DEFINE o == OrderOf(n)
<1> SUFFICES ASSUME Unowned(s, o, i) PROVE FALSE
  OBVIOUS
<1>1. o \in Shifts /\ max_order(s) \in Orders /\ max_order(s) \in Shifts
      /\ o <= max_order(s)
  BY OrderOfType, SegFacts, OrdersShifts
<1> HIDE DEF o
<1>2. o \in Orders /\ max_order(s) - o \in Shifts
  BY <1>1 DEF Orders, Shifts
<1> DEFINE r == Pow2(max_order(s) - o)
           P == Pow2(o)
<1>3. r \in Nat /\ P \in Nat /\ P > 0 /\ Pow2(max_order(s)) = r * P
  BY <1>1, <1>2, Pow2Type, Pow2Quotient
<1>4. i \in Nat /\ i + 1 <= r
  BY <1>3 DEF o
<1>5. base_ptr(s) \in Nat /\ SegEnd(s) = base_ptr(s) + BlockSize(max_order(s))
  BY SegFacts
<1> HIDE DEF r, P
<1>6. base_ptr(s) + i * BlockSize(o) + BlockSize(o) <= SegEnd(s)
  <2>1. (i + 1) * P <= r * P /\ (i + 1) * P = i * P + P /\ i * P \in Nat /\ r * P \in Nat
    BY <1>3, <1>4
  <2>2. i * BlockSize(o) = (i * P) * 4096 /\ BlockSize(o) = P * 4096
        /\ BlockSize(max_order(s)) = (r * P) * 4096
    BY <1>3, <1>4 DEF BlockSize, PageSize, P
  <2> QED
    BY <1>3, <1>5, <2>1, <2>2
<1>7. PICK k \in Orders : \E x : On(free_list, s, k, x) /\ o <= k
  BY <1>1, <1>2, <1>4, <1>6, Finds DEF AllocFail, Idle, BuddyInv, BlocksAligned
<1>8. PICK x : On(free_list, s, k, x) /\ o <= k
  BY <1>7
<1>9. k <= max_order(s)
  BY <1>8, OnFacts
<1>10. free_list[s][k] # <<>>
  BY <1>8 DEF On
<1>11. s \in 1..num_segtab
  BY SegFacts DEF Inv, TypeOK
<1>12. Serves(s, k, o)
  BY <1>1, <1>2, <1>8, <1>9, <1>10 DEF Serves, Orders
<1> QED
  BY <1>11, <1>12 DEF AllocFail, o

\* pmm::alloc returns nullptr only when no aligned run of pages as large as
\* the request is free in any segment.
THEOREM FailureMeansFull == Spec => FailsOnlyWhenFull
<1>1. Inv /\ BuddyInv =>
        \A n \in Requests :
          num_segtab > 0 /\ AllocFail(n) =>
            \A s \in Segs : OrderOf(n) <= max_order(s) =>
              \A i \in 0..(Pow2(max_order(s) - OrderOf(n)) - 1) :
                ~Unowned(s, OrderOf(n), i)
  BY FailsWhenFull, Zenon
<1> QED
  BY <1>1, Invariance, BuddyInvariance, PTL DEF FailsOnlyWhenFull
=============================================================================
