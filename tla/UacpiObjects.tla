---------------------------- MODULE UacpiObjects ----------------------------
(***************************************************************************)
(* The reference-counted objects of uACPI (extra/uacpi/types.c and         *)
(* shareable.c).  An object owns one reference to its storage (a buffer, a *)
(* package, a mutex, a method); a package owns one reference to each of    *)
(* its objects; an object of type Reference passes every reference to      *)
(* itself on to the object it points to.                                   *)
(***************************************************************************)
EXTENDS Integers, Sequences, FiniteSets, FiniteSetsExt, SequencesExt

CONSTANTS MaxObject,   \* bound: objects
          MaxStorage,  \* bound: storages
          MaxHands,    \* bound: references the client holds to one object
          ObjCareful   \* TRUE: no allocation fails, and the client dereferences one
                       \* level, assigns packages to unset objects only and does
                       \* not overwrite a field with a reference

VARIABLES heap,  \* [o |-> objects, s |-> storages]
          hand   \* history: the references the client holds

objVars == <<heap, hand>>

Object  == 1 .. MaxObject
Storage == 1 .. MaxStorage
BUGGED  == 99          \* BUGGED_REFCOUNT

\* Types that stand for the ones the code treats alike: BUFFER also for strings,
\* METHOD for processors, devices and thermal zones, FIELD for op regions, field
\* units, buffer fields and buffer indices.
WithStorage == {"BUFFER", "PACKAGE", "MUTEX", "METHOD", "FIELD"}
ObjectType  == WithStorage \cup {"UNINIT", "INTEGER", "REFERENCE", "freed"}

FreedObject  == [type |-> "freed", refs |-> 0, to |-> 0]
FreedStorage == [kind |-> "freed", refs |-> 0, items |-> <<>>]

(***************************************************************************)
(* Counters.                                                               *)
(***************************************************************************)
uacpi_bugged_shareable(n) == n \in {0, BUGGED}
uacpi_shareable_ref(n)   == IF uacpi_bugged_shareable(n) THEN BUGGED ELSE n + 1
uacpi_shareable_unref(n) == IF uacpi_bugged_shareable(n) THEN BUGGED ELSE n - 1

Inner(h, x) == IF h.o[x].type = "REFERENCE" THEN h.o[x].to ELSE 0

RECURSIVE uacpi_object_ref(_, _)
uacpi_object_ref(h, x) ==
    IF x = 0 THEN h
    ELSE uacpi_object_ref([h EXCEPT !.o[x].refs = uacpi_shareable_ref(@)], Inner(h, x))

RECURSIVE make_chain_bugged(_, _)
make_chain_bugged(h, x) ==
    IF x = 0 THEN h ELSE make_chain_bugged([h EXCEPT !.o[x].refs = BUGGED], Inner(h, x))

(***************************************************************************)
(* Freeing.  A package is freed with a queue of packages, never by         *)
(* recursion over its elements.                                            *)
(***************************************************************************)

RECURSIVE free_object(_, _)

\* free_plain_no_recurse: the result carries the queue.  When the package has
\* other owners the object itself is not released.
free_plain_no_recurse(r, x) ==
    LET p == r.h.o[x].to
        n == r.h.s[p].refs
    IN  IF r.h.o[x].type # "PACKAGE" THEN [r EXCEPT !.h = free_object(r.h, x)]
        ELSE IF n > 1 THEN [r EXCEPT !.h.s[p].refs = uacpi_shareable_unref(n)]
        ELSE [h |-> [r.h EXCEPT !.o[x] = FreedObject, !.s[p].refs = n - 1],
              q |-> Append(r.q, p)]

\* unref_object_no_recurse: a plain object or a chain of references.
RECURSIVE unref_chain_no_recurse(_, _)
unref_chain_no_recurse(r, x) ==
    LET n == r.h.o[x].refs
        d == [r EXCEPT !.h.o[x].refs = uacpi_shareable_unref(@)]
        next == Inner(r.h, x)
        f == IF n > 1 THEN d
             ELSE IF next # 0 THEN [d EXCEPT !.h.o[x] = FreedObject]
             ELSE free_plain_no_recurse(d, x)
    IN  IF x = 0 THEN r ELSE unref_chain_no_recurse(f, next)

RECURSIVE free_package(_, _)
free_package(h, queue) ==
    LET p == Last(queue)
        r == FoldLeft(unref_chain_no_recurse, [h |-> h, q |-> Front(queue)], h.s[p].items)
    IN  IF queue = <<>> THEN h
        ELSE free_package([r.h EXCEPT !.s[p] = FreedStorage], r.q)

\* uacpi_shareable_unref_and_delete_if_last on the storage of x, which
\* free_object_storage calls for every type that has one.
RECURSIVE free_object_storage(_, _)
free_object_storage(h, x) ==
    LET b == h.o[x].to
        g == [h EXCEPT !.s[b].refs = uacpi_shareable_unref(@)]
    IN  IF h.o[x].type \notin WithStorage \/ b = 0 THEN h
        ELSE IF uacpi_bugged_shareable(h.s[b].refs) THEN [h EXCEPT !.s[b].refs = BUGGED]
        ELSE IF h.s[b].refs # 1 THEN g
        ELSE IF h.s[b].kind = "PACKAGE" THEN free_package(g, <<b>>)
        ELSE [g EXCEPT !.s[b] = FreedStorage]

free_object(h, x) == [free_object_storage(h, x) EXCEPT !.o[x] = FreedObject]

RECURSIVE free_chain(_, _)
free_chain(h, x) ==
    IF x = 0 THEN h
    ELSE free_chain(IF h.o[x].refs = 0 THEN free_object(h, x) ELSE h, Inner(h, x))

\* uacpi_object_unref drops one reference along the chain, then frees what became
\* unused, if the head did.
RECURSIVE DropChain(_, _)
DropChain(r, x) ==
    IF x = 0 \/ r.bugged THEN r
    ELSE IF uacpi_bugged_shareable(r.h.o[x].refs)
    THEN [h |-> [r.h EXCEPT !.o[x].refs = BUGGED], bugged |-> TRUE]
    ELSE DropChain([r EXCEPT !.h.o[x].refs = @ - 1], Inner(r.h, x))

uacpi_object_unref(h, x) ==
    LET r == DropChain([h |-> h, bugged |-> FALSE], x)
    IN  IF ~r.bugged /\ r.h.o[x].refs = 0 THEN free_chain(r.h, x) ELSE r.h

(***************************************************************************)
(* References between objects: attaching adds as many references to the    *)
(* child as the parent has.                                                *)
(***************************************************************************)
Times(n, op(_), h) == FoldLeft(LAMBDA g, i : op(g), h, [i \in 1 .. n |-> i])

uacpi_object_attach_child(h, p, c) ==
    LET g == [h EXCEPT !.o[p].to = c]
        ref(i) == uacpi_object_ref(i, c)
    IN  IF uacpi_bugged_shareable(h.o[p].refs) THEN make_chain_bugged(g, c)
        ELSE Times(h.o[p].refs, ref, g)

uacpi_object_detach_child(h, p) ==
    LET c == h.o[p].to
        unref(i) == uacpi_object_unref(i, c)
        g == [h EXCEPT !.o[p].to = 0]
    IN  IF c = 0 \/ uacpi_bugged_shareable(h.o[p].refs) THEN g
        ELSE Times(h.o[p].refs, unref, g)

(***************************************************************************)
(* Creation and assignment.  Fresh picks the least free name.              *)
(***************************************************************************)
FreeObjects(h)  == {x \in Object : h.o[x].type = "freed"}
FreeStorages(h) == {b \in Storage : h.s[b].kind = "freed"}

\* uacpi_create_object with the constructor of the type; the result has x = 0 when
\* an allocation fails.
uacpi_create_object(h, type) ==
    LET x == Min(FreeObjects(h))
        b == Min(FreeStorages(h))
    IN  IF FreeObjects(h) = {} \/ (type \in WithStorage /\ FreeStorages(h) = {})
        THEN [h |-> h, x |-> 0]
        ELSE [h |-> [o |-> [h.o EXCEPT ![x] =
                             [type |-> type, refs |-> 1,
                              to |-> IF type \in WithStorage THEN b ELSE 0]],
                     s |-> IF type \in WithStorage
                           THEN [h.s EXCEPT ![b] = [kind |-> type, refs |-> 1, items |-> <<>>]]
                           ELSE h.s],
              x |-> x]

\* dst->buffer = alloc(...), dst->mutex = ...: new storage for x.
NewStorage(h, x, kind, items) ==
    LET b == Min(FreeStorages(h))
    IN  [h EXCEPT !.s[b] = [kind |-> kind, refs |-> 1, items |-> items], !.o[x].to = b]

Share(h, dst, src) ==
    [h EXCEPT !.s[h.o[src].to].refs = uacpi_shareable_ref(@), !.o[dst].to = h.o[src].to]

\* The first switch of uacpi_object_assign: what dst held is let go of, for the
\* types listed there.
Release(h, dst) ==
    CASE h.o[dst].type = "REFERENCE" -> uacpi_object_detach_child(h, dst)
      [] h.o[dst].type \in WithStorage \ {"FIELD"} -> free_object_storage(h, dst)
      [] OTHER -> h

\* The second switch for every type but a deep copy of a package; the result says
\* whether an allocation failed, and then the type of dst stays what it was.
Take(h, dst, src, deep) ==
    LET t == h.o[src].type
        typed(g) == [h |-> [g EXCEPT !.o[dst].type = t], ok |-> TRUE]
    IN  CASE t = "REFERENCE" -> typed(uacpi_object_attach_child(h, dst, h.o[src].to))
          [] t \in {"UNINIT", "INTEGER"} -> typed([h EXCEPT !.o[dst].to = 0])
          [] t \in {"BUFFER", "MUTEX"} /\ deep ->
               IF FreeStorages(h) = {} THEN [h |-> h, ok |-> FALSE]
               ELSE typed(NewStorage(h, dst, t, <<>>))
          [] OTHER -> typed(Share(h, dst, src))

\* deep_copy_package: a request for every nested package, the last one first.
RECURSIVE deep_copy_package(_, _)
deep_copy_package(h, reqs) ==
    LET req == Last(reqs)
        items == h.s[req.src].items
        fresh == CHOOSE f \in [1 .. Len(items) -> FreeObjects(h)] : IsInjective(f)
        made == [i \in DOMAIN items |-> fresh[i]]
        g == NewStorage([h EXCEPT !.o = [x \in Object |->
                   IF x \in Range(made) THEN [type |-> "UNINIT", refs |-> 1, to |-> 0]
                   ELSE h.o[x]]], req.dst, "PACKAGE", made)
        copy(r, i) ==
            IF h.o[items[i]].type = "PACKAGE"
            THEN [r EXCEPT !.q = Append(@, [dst |-> made[i], src |-> h.o[items[i]].to])]
            ELSE [h |-> Take(r.h, made[i], items[i], TRUE).h, q |-> r.q]
        r == FoldLeft(copy, [h |-> [g EXCEPT !.o[req.dst].type = "PACKAGE"], q |-> Front(reqs)],
                      [i \in DOMAIN items |-> i])
    IN  IF reqs = <<>> THEN h ELSE deep_copy_package(r.h, r.q)

\* A slip: storage is taken before what dst held is let go of, and never released.
AssignWithoutRelease(h, dst, src, deep) ==
    IF h.o[src].type = "PACKAGE" /\ deep
    THEN deep_copy_package(h, <<[dst |-> dst, src |-> h.o[src].to]>>)
    ELSE Take(h, dst, src, deep).h

uacpi_object_assign(h, dst, src, deep) ==
    LET g == Release(h, dst)
    IN  IF dst = src THEN h
        ELSE IF g.o[src].type = "PACKAGE" /\ deep
        THEN deep_copy_package(g, <<[dst |-> dst, src |-> g.o[src].to]>>)
        ELSE Take(g, dst, src, deep).h

(***************************************************************************)
(* The calls of a client.                                                  *)
(***************************************************************************)
Held == {x \in Object : hand[x] > 0}

\* What x leads to: the objects behind references and in packages.
RECURSIVE Reaches(_, _)
Reaches(x, n) ==
    {x} \cup (IF n = 0 THEN {} ELSE UNION {Reaches(y, n - 1) : y \in
        (IF Inner(heap, x) # 0 THEN {Inner(heap, x)} ELSE {})
        \cup (IF heap.o[x].type = "PACKAGE" THEN Range(heap.s[heap.o[x].to].items) ELSE {})})

Within(x, y) == x \in Reaches(y, MaxObject)

\* Bounds: a client call starts with room for the objects and storages it makes.
Room(n, m) ==
    ObjCareful => /\ Cardinality(FreeObjects(heap)) >= n
                  /\ Cardinality(FreeStorages(heap)) >= m

Keep(h, x) == heap' = h /\ hand' = IF x = 0 THEN hand ELSE [hand EXCEPT ![x] = @ + 1]

Create(type) == /\ Room(1, 1)
                /\ LET r == uacpi_create_object(heap, type) IN Keep(r.h, r.x)

uacpi_object_create_reference(child) ==
    LET r == uacpi_create_object(heap, "REFERENCE")
    IN  /\ child \in Held /\ Room(1, 0) /\ r.x # 0
        /\ Keep(uacpi_object_attach_child(r.h, r.x, child), r.x)

\* uacpi_object_assign_package: the type is set before uacpi_object_assign lets go
\* of what obj held, so obj must not hold anything.
uacpi_object_assign_package(obj, in) ==
    LET b == Min(FreeStorages(heap))
        g == [heap EXCEPT !.s[b] = [kind |-> "PACKAGE", refs |-> 1, items |-> in],
                          !.o[obj].type = "PACKAGE"]
        h == FoldLeft(uacpi_object_ref, g, in)
        released == free_object_storage(h, obj)
    IN  /\ obj \in Held /\ Range(in) \subseteq Held /\ FreeStorages(heap) # {}
        /\ \A x \in Range(in) : ~Within(obj, x)
        /\ (ObjCareful => heap.o[obj].to = 0)
        /\ heap' = [released EXCEPT !.o[obj].to = b]
        /\ UNCHANGED hand

uacpi_object_assign_reference(obj, child) ==
    /\ obj \in Held /\ child \in Held /\ ~Within(obj, child)
    /\ (ObjCareful => heap.o[obj].type # "FIELD")
    /\ heap' = uacpi_object_attach_child(
                  [Release(heap, obj) EXCEPT !.o[obj].type = "REFERENCE"], obj, child)
    /\ UNCHANGED hand

\* uacpi_object_assign from an object the client holds: Store and CopyObject of the
\* interpreter, and uacpi_object_assign_integer, _string and _buffer.
Assign(dst, src, deep) ==
    /\ dst \in Held /\ src \in Held /\ dst # src
    /\ ~Within(dst, src) /\ heap.o[dst].type # "FIELD"
    /\ (deep => Room(Cardinality(Reaches(src, MaxObject)) - 1,
                     Cardinality(Reaches(src, MaxObject))))
    /\ heap' = uacpi_object_assign(heap, dst, src, deep)
    /\ UNCHANGED hand

ClientRef(x) ==
    /\ x \in Held /\ hand[x] < MaxHands
    /\ heap' = uacpi_object_ref(heap, x)
    /\ hand' = [hand EXCEPT ![x] = @ + 1]

ClientUnref(x) ==
    /\ x \in Held
    /\ heap' = uacpi_object_unref(heap, x)
    /\ hand' = [hand EXCEPT ![x] = @ - 1]

\* uacpi_object_get_dereferenced counts the object, not the chain behind it.
uacpi_object_get_dereferenced(x) ==
    LET c == heap.o[x].to
    IN  /\ x \in Held /\ heap.o[x].type = "REFERENCE" /\ hand[c] < MaxHands
        /\ (ObjCareful => heap.o[c].type # "REFERENCE")
        /\ heap' = [heap EXCEPT !.o[c].refs = uacpi_shareable_ref(@)]
        /\ hand' = [hand EXCEPT ![c] = @ + 1]

ObjInit ==
    /\ heap = [o |-> [x \in Object |-> FreedObject], s |-> [b \in Storage |-> FreedStorage]]
    /\ hand = [x \in Object |-> 0]

ObjNext ==
    \/ \E t \in ObjectType \ {"freed", "REFERENCE", "UNINIT", "PACKAGE"} : Create(t)
    \/ Create("UNINIT")
    \/ \E x \in Object : uacpi_object_create_reference(x)
    \/ \E x, y \in Object : uacpi_object_assign_package(x, <<y>>)
    \/ \E x, y \in Object : uacpi_object_assign_reference(x, y)
    \/ \E x, y \in Object, deep \in BOOLEAN : Assign(x, y, deep)
    \/ \E x \in Object : ClientRef(x)
    \/ \E x \in Object : ClientUnref(x)
    \/ \E x \in Object : uacpi_object_get_dereferenced(x)

(***************************************************************************)
(* Properties.                                                             *)
(***************************************************************************)
ObjTypeOK ==
    /\ \A x \in Object : heap.o[x].type \in ObjectType /\ heap.o[x].refs \in 0 .. BUGGED
    /\ \A b \in Storage : heap.s[b].refs \in 0 .. BUGGED /\ Len(heap.s[b].items) <= 2

Live == {x \in Object : heap.o[x].type # "freed"}
LiveStorage == {b \in Storage : heap.s[b].kind # "freed"}

InPackages(x) ==
    FoldSet(LAMBDA b, n : n + Cardinality({i \in DOMAIN heap.s[b].items : heap.s[b].items[i] = x}),
            0, LiveStorage)

ThroughReferences(x) ==
    FoldSet(LAMBDA y, n : n + heap.o[y].refs, 0, {y \in Live : Inner(heap, y) = x})

\* Every count is the number of its owners: what the client holds, the packages an
\* object is in and the references of the references that point to it.  A lower
\* count frees an object in use, a higher one keeps it for good.
RefsAreCounted ==
    /\ \A x \in Live : heap.o[x].refs = hand[x] + InPackages(x) + ThroughReferences(x)
    /\ \A b \in LiveStorage : heap.s[b].refs =
            Cardinality({x \in Live : heap.o[x].type \in WithStorage /\ heap.o[x].to = b
                                        /\ heap.o[x].refs > 0})
    /\ \A x \in Object \ Live : hand[x] = 0
=============================================================================
