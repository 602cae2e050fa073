------------------------------- MODULE PmmAbs -------------------------------
(***************************************************************************)
(* What the physical memory manager promises to its callers: alloc(n)      *)
(* gives exclusive ownership of at least n bytes of memory that the        *)
(* bootloader reported as usable or reclaimable, until the caller frees    *)
(* it.  A call may also fail, which changes nothing.                       *)
(***************************************************************************)
EXTENDS Integers

CONSTANTS
  Regions,      \* the managed memory: a set of [lo, hi], hi excluded
  Requests,     \* the byte counts that callers ask for
  Extent(_)     \* the bytes that a request of n bytes receives

VARIABLE owned  \* a set of [p, n]

Disjoint(a, b) == \/ a.p + Extent(a.n) <= b.p
                  \/ b.p + Extent(b.n) <= a.p

Inside(b, r) == r.lo <= b.p /\ b.p + Extent(b.n) <= r.hi

Init == owned = {}

Alloc(b) ==
  /\ b \in [p: Nat, n: Requests]
  /\ Extent(b.n) >= b.n
  /\ \E r \in Regions : Inside(b, r)
  /\ \A c \in owned : Disjoint(b, c)
  /\ owned' = owned \cup {b}

Free(b) == owned' = owned \ {b}

\* The address is the allocator's choice: b is whatever owned' adds.
Next ==
  \/ \E b \in owned' \ owned : Alloc(b)
  \/ \E b \in owned : Free(b)

Spec == Init /\ [][Next]_owned
=============================================================================
