------------------------------ MODULE Liballoc ------------------------------
(***************************************************************************)
(* The kernel heap, extra/liballoc/liballoc.c, over the hooks of           *)
(* liballoc_wrapper.cpp.  A boundary tag lies at an address; a pointer to  *)
(* it is the address under one of two names, because the code casts        *)
(* pointers to unsigned int: what liballoc_alloc returns lies in the       *)
(* higher half ("hi"), what split_tag, malloc and free compute lies in the *)
(* identity map of the low memory ("lo").  Both names reach the same       *)
(* memory, and comparing the pointers tells them apart.                    *)
(*                                                                         *)
(* Sizes are in units of the size of a tag.  malloc and free run with      *)
(* interrupts disabled, so each is one step.  A region has the length that *)
(* liballoc asked for, although liballoc_wrapper.cpp obtains one page: the *)
(* model is about the tags, not about what else uses that memory.          *)
(***************************************************************************)
EXTENDS Integers, FiniteSets, FiniteSetsExt, Sequences, Functions, TLC

CONSTANTS
  MINEXP, MAXEXP,   \* the first and one past the last list of free tags
  MAXCOMPLETE,      \* complete regions kept per list
  MinRegion,        \* l_pageCount * l_pageSize, in tags
  Sizes,            \* sizes passed to malloc
  MaxRegions,       \* bound: regions that malloc may take from the hook
  MaxLive           \* bound: allocations that are not freed

VARIABLES
  mem,              \* address -> the tag there
  l_freePages, l_completePages,
  regions,          \* what liballoc_alloc has given: [at, len]
  live,             \* what malloc has returned and nobody has freed: [at, size]
  hung              \* malloc walks a list that never ends
heapVars == <<mem, l_freePages, l_completePages, regions, live, hung>>

Bins == MINEXP .. MAXEXP - 1
NULL == [name |-> "null", at |-> 0]
Hi(a) == [name |-> "hi", at |-> a]
Lo(a) == [name |-> "lo", at |-> a]
Heap == [mem |-> mem, bins |-> l_freePages, complete |-> l_completePages]

getexp(size) ==
  IF size < 2^MINEXP THEN -1
  ELSE Max({MINEXP} \cup {e \in Bins : 2^e <= size})
IndexOf(size) == IF getexp(size) < MINEXP THEN MINEXP ELSE getexp(size)

HeapInit ==
  /\ mem = <<>>
  /\ l_freePages = [b \in Bins |-> NULL]
  /\ l_completePages = [b \in Bins |-> 0]
  /\ regions = {}
  /\ live = {}
  /\ hung = FALSE

\* Assignments through a pointer, which do nothing for the null pointer's tests.
SetField(m, p, f, v) == IF p = NULL THEN m ELSE [m EXCEPT ![p.at] = [@ EXCEPT ![f] = v]]

insert_tag(h, p, index) ==
  LET head == h.bins[index]
      m1 == SetField(h.mem, p, "index", index)
      m2 == SetField(m1, head, "prev", p)
  IN  [h EXCEPT !.mem = IF head = NULL THEN m1 ELSE SetField(m2, p, "next", head),
                !.bins[index] = p]

\* The head of the list is compared as a pointer, so a tag is found by one of
\* its names only.
remove_tag(h, p) ==
  LET t == h.mem[p.at]
      m1 == SetField(SetField(h.mem, t.prev, "next", t.next), t.next, "prev", t.prev)
  IN  [h EXCEPT !.mem = [m1 EXCEPT ![p.at] = [@ EXCEPT !.next = NULL, !.prev = NULL, !.index = -1]],
                !.bins = [b \in Bins |-> IF b = t.index /\ @[b] = p THEN t.next ELSE @[b]]]

melt_left(h, p) ==
  LET t == h.mem[p.at]
      m1 == [h.mem EXCEPT ![t.split_left.at] =
               [@ EXCEPT !.real_size = @ + t.real_size, !.split_right = t.split_right]]
  IN  [h EXCEPT !.mem = SetField(m1, t.split_right, "split_left", t.split_left)]

absorb_right(h, p) ==
  LET r == h.mem[p.at].split_right
      g == remove_tag(h, r)
      rt == g.mem[r.at]
      m1 == [g.mem EXCEPT ![p.at] =
               [@ EXCEPT !.real_size = @ + rt.real_size, !.split_right = rt.split_right]]
  IN  [g EXCEPT !.mem = SetField(m1, rt.split_right, "split_left", p)]

split_tag(h, p) ==
  LET t == h.mem[p.at]
      n == Lo(p.at + 1 + t.size)
      rest == t.real_size - 1 - t.size
      new == [size |-> 0, real_size |-> rest, index |-> -1, next |-> NULL, prev |-> NULL,
              split_left |-> p, split_right |-> t.split_right]
      m1 == SetField((n.at :> new) @@ h.mem, t.split_right, "split_left", n)
      m2 == [m1 EXCEPT ![p.at] = [@ EXCEPT !.split_right = n, !.real_size = @ - rest]]
  IN  insert_tag([h EXCEPT !.mem = m2], n, IndexOf(rest - 1))

\* The tags a walk from the head of list b reads, and whether it comes back to one.
RECURSIVE WalkFrom(_, _)
WalkFrom(p, seen) ==
  IF p = NULL \/ p \in Range(seen) THEN seen ELSE WalkFrom(mem[p.at].next, Append(seen, p))
FreeList(b) == WalkFrom(l_freePages[b], <<>>)
Endless(b) == LET w == FreeList(b)
              IN  w # <<>> /\ mem[w[Len(w)].at].next # NULL
Fits(p, size) == mem[p.at].real_size - 1 >= size + 1

\* What both ways of malloc end with: the excess becomes a tag of its own.
Serve(h, p, size) ==
  LET h1 == [h EXCEPT !.mem[p.at] = [@ EXCEPT !.size = size]]
      remainder == h1.mem[p.at].real_size - size - 2
      h2 == IF remainder > 0 /\ getexp(remainder) >= 0 THEN split_tag(h1, p) ELSE h1
  IN  /\ mem' = h2.mem /\ l_freePages' = h2.bins /\ l_completePages' = h2.complete
      /\ live' = live \cup {[at |-> p.at, size |-> size]}

mallocReuse(size) ==
  LET b == IndexOf(size)
      fit == {i \in DOMAIN FreeList(b) : Fits(FreeList(b)[i], size)}
      p == FreeList(b)[Min(fit)]
      h == remove_tag(Heap, p)
      whole == h.mem[p.at].split_left = NULL /\ h.mem[p.at].split_right = NULL
  IN  /\ fit # {}
      /\ Serve(IF whole THEN [h EXCEPT !.complete[b] = @ - 1] ELSE h, p, size)
      /\ UNCHANGED <<regions, hung>>

\* allocate_new_tag: a region of whole pages; its address is what the hook returns.
mallocNew(size) ==
  LET b == IndexOf(size)
      at == Min({1 + k * 2 * MinRegion : k \in 0 .. MaxRegions} \ {r.at : r \in regions})
      len == Max({MinRegion, size + 1})
      tag == [size |-> size, real_size |-> len, index |-> -1, next |-> NULL, prev |-> NULL,
              split_left |-> NULL, split_right |-> NULL]
  IN  /\ ~Endless(b) /\ \A i \in DOMAIN FreeList(b) : ~Fits(FreeList(b)[i], size)
      /\ Cardinality(regions) < MaxRegions
      /\ regions' = regions \cup {[at |-> at, len |-> len]}
      /\ Serve([Heap EXCEPT !.mem = (at :> tag) @@ @], Hi(at), size)
      /\ UNCHANGED hung

mallocHangs(size) ==
  LET b == IndexOf(size)
  IN  /\ Endless(b) /\ \A i \in DOMAIN FreeList(b) : ~Fits(FreeList(b)[i], size)
      /\ hung' = TRUE
      /\ UNCHANGED <<mem, l_freePages, l_completePages, regions, live>>

malloc(size) ==
  /\ ~hung /\ Cardinality(live) < MaxLive
  /\ mallocReuse(size) \/ mallocNew(size) \/ mallocHangs(size)

\* The loops MELT LEFT and MELT RIGHT of free: the tag and the heap they end with.
RECURSIVE Melt(_, _)
Melt(h, p) ==
  LET l == h.mem[p.at].split_left
      r == h.mem[p.at].split_right
  IN  IF l # NULL /\ h.mem[l.at].index >= 0
      THEN Melt(remove_tag(melt_left(h, p), l), l)
      ELSE IF r # NULL /\ h.mem[r.at].index >= 0 THEN Melt(absorb_right(h, p), p)
      ELSE [h |-> h, p |-> p]

free(a) ==
  LET m == Melt(Heap, Lo(a.at))
      t == m.h.mem[m.p.at]
      b == IndexOf(t.real_size - 1)
      whole == t.split_left = NULL /\ t.split_right = NULL
      back == whole /\ m.h.complete[b] = MAXCOMPLETE
      h == IF back THEN m.h
           ELSE insert_tag(IF whole THEN [m.h EXCEPT !.complete[b] = @ + 1] ELSE m.h, m.p, b)
  IN  /\ ~hung
      /\ mem' = h.mem /\ l_freePages' = h.bins /\ l_completePages' = h.complete
      /\ regions' = IF back THEN {r \in regions : r.at # m.p.at} ELSE regions
      /\ live' = live \ {a}
      /\ UNCHANGED hung

HeapNext == (\E s \in Sizes : malloc(s)) \/ (\E a \in live : free(a))

(***************************************************************************)
(* Properties.                                                             *)
(***************************************************************************)
\* malloc never returns memory that an earlier call returned and nobody freed,
\* whatever was split, melted and absorbed in between.
LiveApart ==
  \A a, b \in live : a # b => a.at + 1 + a.size <= b.at \/ b.at + 1 + b.size <= a.at
=============================================================================
