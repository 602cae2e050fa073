------------------------------ MODULE IoVector ------------------------------
(***************************************************************************)
(* klibc/vector, the growable array of the kernel, and resources/io.cpp,   *)
(* its user: io_mappings is a vector of port ranges.  The buffer is a      *)
(* function of its cells, moved as the code moves it (memmove of whole     *)
(* ranges, a new buffer on growth); promised is the sequence that the      *)
(* operations of a vector are for.                                         *)
(***************************************************************************)
EXTENDS Integers, Sequences, SequencesExt

CONSTANTS Owners,     \* who maps ports: the elements
          MaxSize     \* bound on the elements
ASSUME VecAssumption == MaxSize \in Nat

VARIABLES cells, size_, capacity_, promised
vecVars == <<cells, size_, capacity_, promised>>

Junk == "junk"
Buffer(n, f(_)) == [i \in 0 .. n - 1 |-> f(i)]

VecInit == cells = Buffer(0, LAMBDA i : Junk) /\ size_ = 0 /\ capacity_ = 0 /\ promised = <<>>

\* The vector as a record: b the buffer, n the elements, cap its capacity.
Vec == [b |-> cells, n |-> size_, cap |-> capacity_]

grow(v, min_cap) ==
  LET twice == IF v.cap > 0 THEN 2 * v.cap ELSE 4
      new == IF twice < min_cap THEN min_cap ELSE twice
  IN  [v EXCEPT !.b = Buffer(new, LAMBDA i : IF i < v.n THEN v.b[i] ELSE Junk), !.cap = new]
reserve(v, n) == IF n > v.cap THEN grow(v, n) ELSE v

\* A slip: the elements are moved before the buffer is large enough.
shift_right_in_place(v, pos, count) ==
  [v EXCEPT !.b = [i \in DOMAIN v.b |-> IF i >= pos + count THEN v.b[i - count] ELSE v.b[i]]]
shift_right(v, pos, count) ==
  LET w == IF v.n + count > v.cap THEN grow(v, v.n + count) ELSE v
  IN  [w EXCEPT !.b = [i \in DOMAIN w.b |->
         IF i \in pos + count .. w.n + count - 1 THEN w.b[i - count] ELSE w.b[i]]]
shift_left(v, pos, count) ==
  [v EXCEPT !.b = [i \in DOMAIN v.b |->
     IF i \in pos .. v.n - count - 1 THEN v.b[i + count] ELSE v.b[i]]]
Construct(v, from, count, x) ==
  [v EXCEPT !.b = [i \in DOMAIN v.b |-> IF i \in from .. from + count - 1 THEN x ELSE v.b[i]]]

Becomes(v, seq) ==
  /\ cells' = v.b /\ size_' = v.n /\ capacity_' = v.cap /\ promised' = seq

insert(pos, count, x) ==
  /\ pos \in 0 .. size_ /\ size_ + count <= MaxSize
  /\ Becomes([Construct(shift_right(Vec, pos, count), pos, count, x) EXCEPT !.n = @ + count],
             SubSeq(promised, 1, pos) \o [i \in 1 .. count |-> x]
               \o SubSeq(promised, pos + 1, size_))

erase(pos, count) ==
  /\ pos + count <= size_
  /\ Becomes([shift_left(Vec, pos, count) EXCEPT !.n = @ - count],
             SubSeq(promised, 1, pos) \o SubSeq(promised, pos + count + 1, size_))

push_back(x) ==
  LET v == IF size_ >= capacity_ THEN grow(Vec, size_ + 1) ELSE Vec
  IN  /\ size_ < MaxSize
      /\ Becomes([Construct(v, size_, 1, x) EXCEPT !.n = @ + 1], Append(promised, x))

pop_back ==
  /\ size_ > 0
  /\ Becomes([Vec EXCEPT !.n = @ - 1], Front(promised))

resize(count, x) ==
  /\ count \in 0 .. MaxSize
  /\ IF count <= size_ THEN Becomes([Vec EXCEPT !.n = count], SubSeq(promised, 1, count))
     ELSE Becomes([Construct(reserve(Vec, count), size_, count - size_, x) EXCEPT !.n = count],
                  promised \o [i \in 1 .. count - size_ |-> x])

\* assign: the elements are destroyed first, so growth copies none of them.
assign(count, x) ==
  LET v == [Vec EXCEPT !.n = 0]
  IN  Becomes([Construct(reserve(v, count), 0, count, x) EXCEPT !.n = count],
              [i \in 1 .. count |-> x])

shrink_to_fit ==
  /\ capacity_ > size_
  /\ Becomes([b |-> Buffer(size_, LAMBDA i : cells[i]), n |-> size_, cap |-> size_], promised)

clear == Becomes([Vec EXCEPT !.n = 0], <<>>)

map_io(o) == push_back(o)
\* unmap_io finds its element by address and erases it.
unmap_io(i) == erase(i, 1)

VecNext ==
  \/ \E o \in Owners : map_io(o)
  \/ \E i \in 0 .. size_ - 1 : unmap_io(i)
  \/ \E o \in Owners, p \in 0 .. size_, n \in 1 .. 2 : insert(p, n, o)
  \/ \E p \in 0 .. size_, n \in 0 .. 2 : erase(p, n)
  \/ \E o \in Owners, n \in 0 .. MaxSize : resize(n, o) \/ assign(n, o)
  \/ pop_back \/ shrink_to_fit \/ clear

VecTypeOK ==
  /\ size_ \in 0 .. MaxSize /\ DOMAIN cells = 0 .. capacity_ - 1
  /\ \A i \in DOMAIN cells : cells[i] \in Owners \cup {Junk}

\* After any sequence of insertions, erasures and growth the first size_ cells
\* hold the promised sequence: no element is lost, moved out of order or read
\* from memory that the buffer does not have.
VectorIsSequence ==
  /\ size_ <= capacity_
  /\ [i \in 1 .. size_ |-> cells[i - 1]] = promised
=============================================================================
