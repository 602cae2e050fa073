---------------------------- MODULE KernelProofs ----------------------------
(***************************************************************************)
(* The smaller services of the kernel, for every number of nested          *)
(* interrupts, every size of a vector, any memory and page tables of any   *)
(* size: the mutex and the heap have one user at a time, a vector holds    *)
(* the sequence it promises, the list of the event controller stays sound, *)
(* and the page tables form a tree that behaves as a map of pages.         *)
(***************************************************************************)
EXTENDS MCKernel, SequenceTheorems, FiniteSetTheorems, WellFoundedInduction, TLAPS

(***************************************************************************)
(* The mutex and the heap.  mutex_lock tests and sets in two steps.  What  *)
(* saves it is that only the highest level runs: a level that is between   *)
(* test and set has been interrupted by whoever owns the mutex now, and    *)
(* that level gives it back before it returns.                             *)
(***************************************************************************)
\* An owner has begun, is past mutex_lock, and owns what the flag says.
OwnersRun ==
  /\ locked <=> owns # {}
  /\ \A o \in owns : o <= level /\ at[o] \in {"code", "heap"}

\* The owner, if any, interrupted every level that is about to set the flag.
SettersWereInterrupted ==
  \A n \in Levels : n <= level /\ at[n] = "set" => \A o \in owns : n < o

\* The heap is held by the level that runs, with interrupts off.
HeapIsMasked ==
  \A n \in Levels : n <= level /\ at[n] = "heap" => n = level /\ ~IF_

OneLevelOwns == \A o \in owns, p \in owns : o = p

SyncIInv ==
  SyncTypeOK /\ OwnersRun /\ SettersWereInterrupted /\ HeapIsMasked /\ OneLevelOwns

\* A set whose elements are all the same has at most one.
LEMMA AtMostOne ==
  ASSUME NEW S, \A x \in S, y \in S : x = y
  PROVE  Cardinality(S) <= 1
<1>1. CASE S = {}
  BY <1>1, FS_EmptySet
<1>2. CASE S # {}
  <2>1. PICK x : x \in S
    BY <1>2
  <2>2. S = {x}
    BY <2>1
  <2> QED
    BY <2>2, FS_Singleton
<1> QED
  BY <1>1, <1>2

LEMMA SyncInitIInv == SyncInit => SyncIInv
<1> SUFFICES ASSUME SyncInit PROVE SyncIInv
  OBVIOUS
<1> USE SyncAssumption DEF SyncInit, Levels
<1>1. SyncTypeOK
  <2>1. IF_ \in BOOLEAN /\ locked \in BOOLEAN
    BY Zenon
  <2>2. level \in Levels /\ at \in [Levels -> {"code", "test", "set", "heap"}]
    OBVIOUS
  <2> QED
    BY <2>1, <2>2 DEF SyncTypeOK
<1>2. OwnersRun /\ SettersWereInterrupted /\ HeapIsMasked /\ OneLevelOwns
  BY DEF OwnersRun, SettersWereInterrupted, HeapIsMasked, OneLevelOwns
<1> QED
  BY <1>1, <1>2 DEF SyncIInv

LEMMA SyncStep == SyncIInv /\ [SyncNext]_syncVars => SyncIInv'
<1> SUFFICES ASSUME SyncIInv, [SyncNext]_syncVars PROVE SyncIInv'
  OBVIOUS
<1> USE SyncAssumption
    DEF SyncIInv, SyncTypeOK, OwnersRun, SettersWereInterrupted, HeapIsMasked, OneLevelOwns,
        Levels, Goto
<1>1. CASE Interrupt
  <2> USE <1>1 DEF Interrupt
  <2>1. level + 1 \in Levels
    OBVIOUS
  <2>2. SyncTypeOK'
    BY <2>1
  <2>3. \A n \in Levels : n <= level => at[n] # "heap"
    BY Zenon
  <2>4. \A n \in Levels : n <= level + 1 /\ at'[n] # "code" => n <= level /\ at[n] = at'[n]
    BY <2>1
  <2>5. OwnersRun' /\ SettersWereInterrupted' /\ HeapIsMasked' /\ OneLevelOwns'
    BY <2>1, <2>2, <2>3, <2>4
  <2> QED
    BY <2>2, <2>5
<1>2. CASE Iret
  BY <1>2 DEF Iret
<1>3. CASE mutex_lock
  BY <1>3 DEF mutex_lock
<1>4. CASE MutexSpin
  BY <1>4 DEF MutexSpin, syncVars
<1>5. CASE MutexTest
  BY <1>5 DEF MutexTest
<1>6. CASE MutexSet
  BY <1>6 DEF MutexSet
<1>7. CASE mutex_unlock
  BY <1>7 DEF mutex_unlock
<1>8. CASE liballoc_lock
  BY <1>8 DEF liballoc_lock
<1>9. CASE liballoc_unlock
  BY <1>9 DEF liballoc_unlock
<1>10. CASE uacpi_kernel_disable_interrupts
  BY <1>10 DEF uacpi_kernel_disable_interrupts
<1>11. CASE uacpi_kernel_restore_interrupts
  BY <1>11 DEF uacpi_kernel_restore_interrupts
<1>12. CASE UNCHANGED syncVars
  BY <1>12 DEF syncVars
<1> QED
  BY <1>1, <1>2, <1>3, <1>4, <1>5, <1>6, <1>7, <1>8, <1>9, <1>10, <1>11, <1>12 DEF SyncNext

\* However deeply interrupts nest, no two levels own the mutex at once and no two
\* are inside the heap (mutex.cpp: mutex_lock; liballoc hooks: liballoc_lock).
THEOREM MutexExcludes == SyncInit /\ [][SyncNext]_syncVars => []OneOwner
<1>1. SyncIInv => OneOwner
  <2> SUFFICES ASSUME SyncIInv PROVE OneOwner
    OBVIOUS
  <2>1. Cardinality(owns) <= 1
    BY AtMostOne DEF SyncIInv, OneLevelOwns
  <2>2. \A m \in {n \in Levels : n <= level /\ at[n] = "heap"},
           k \in {n \in Levels : n <= level /\ at[n] = "heap"} : m = k
    BY DEF SyncIInv, HeapIsMasked
  <2> QED
    BY <2>1, <2>2, AtMostOne DEF OneOwner
<1> QED
  BY <1>1, SyncInitIInv, SyncStep, PTL

(***************************************************************************)
(* The vector.  A buffer is sound when it has the cells of its capacity    *)
(* and room for its elements, and represents a sequence when its first     *)
(* cells hold it.  Each step of the buffer (growth, the two moves, the     *)
(* construction of elements) is described once; an operation follows from  *)
(* the steps it is made of.                                                *)
(***************************************************************************)
SoundVec(v) ==
  /\ v \in [b : [0 .. v.cap - 1 -> Owners \cup {Junk}], n : Nat, cap : Nat]
  /\ v.n <= v.cap

Represents(v, seq) ==
  /\ SoundVec(v)
  /\ seq \in Seq(Owners) /\ Len(seq) = v.n
  /\ \A i \in 1 .. v.n : seq[i] = v.b[i - 1]

VecIInv == Represents(Vec, promised) /\ size_ <= MaxSize

\* Growth makes room and keeps the elements.
LEMMA GrowKeeps ==
  ASSUME NEW v, SoundVec(v), NEW m \in Nat
  PROVE  /\ SoundVec(grow(v, m))
         /\ grow(v, m).n = v.n /\ grow(v, m).cap >= m
         /\ \A i \in 0 .. v.n - 1 : grow(v, m).b[i] = v.b[i]
<1> DEFINE twice == IF v.cap > 0 THEN 2 * v.cap ELSE 4
           new == IF twice < m THEN m ELSE twice
           buf == [i \in 0 .. new - 1 |-> IF i < v.n THEN v.b[i] ELSE Junk]
<1>1. grow(v, m) = [b |-> buf, n |-> v.n, cap |-> new]
  <2>1. grow(v, m) = [v EXCEPT !.b = buf, !.cap = new]
    BY DEF grow, Buffer
  <2> HIDE DEF buf, new
  <2> QED
    BY <2>1 DEF SoundVec
<1>2. new \in Nat /\ v.n <= new /\ m <= new
  BY DEF SoundVec
<1>3. buf \in [0 .. new - 1 -> Owners \cup {Junk}]
  BY <1>2 DEF SoundVec
<1>4. \A i \in 0 .. v.n - 1 : buf[i] = v.b[i]
  BY <1>2 DEF SoundVec
<1> HIDE DEF buf, new
<1> QED
  BY <1>1, <1>2, <1>3, <1>4 DEF SoundVec

\* Elements constructed within the capacity are the only change.
LEMMA ConstructSets ==
  ASSUME NEW v, SoundVec(v), NEW from \in Nat, NEW count \in Nat, from + count <= v.cap,
         NEW x \in Owners
  PROVE  /\ SoundVec(Construct(v, from, count, x))
         /\ Construct(v, from, count, x).n = v.n /\ Construct(v, from, count, x).cap = v.cap
         /\ \A i \in 0 .. v.cap - 1 :
              Construct(v, from, count, x).b[i] =
                IF i \in from .. from + count - 1 THEN x ELSE v.b[i]
  BY DEF Construct, SoundVec

\* The elements from pos on move up by count, into a buffer with the room.
LEMMA ShiftRightMoves ==
  ASSUME NEW v, SoundVec(v), NEW pos \in 0 .. v.n, NEW count \in Nat
  PROVE  LET w == shift_right(v, pos, count)
         IN  /\ SoundVec(w) /\ w.n = v.n /\ v.n + count <= w.cap
             /\ \A i \in 0 .. pos - 1 : w.b[i] = v.b[i]
             /\ \A i \in pos .. v.n - 1 : w.b[i + count] = v.b[i]
<1> DEFINE g == IF v.n + count > v.cap THEN grow(v, v.n + count) ELSE v
           buf == [i \in DOMAIN g.b |->
                     IF i \in pos + count .. g.n + count - 1 THEN g.b[i - count] ELSE g.b[i]]
<1>1. v.n \in Nat /\ v.cap \in Nat /\ v.n + count \in Nat
  BY DEF SoundVec
<1>2. /\ SoundVec(g) /\ g.n = v.n /\ v.n + count <= g.cap
      /\ \A i \in 0 .. v.n - 1 : g.b[i] = v.b[i]
  <2>1. CASE v.n + count > v.cap
    BY <1>1, <2>1, GrowKeeps
  <2>2. CASE ~(v.n + count > v.cap)
    BY <1>1, <2>2 DEF SoundVec
  <2> QED
    BY <2>1, <2>2
<1> HIDE DEF g
<1>3. shift_right(v, pos, count) = [g EXCEPT !.b = buf]
  BY DEF shift_right, g
<1>4. DOMAIN g.b = 0 .. g.cap - 1 /\ g.cap \in Nat
  BY <1>2 DEF SoundVec
<1>5. buf \in [0 .. g.cap - 1 -> Owners \cup {Junk}]
  <2>1. \A i \in 0 .. g.cap - 1 : g.b[i] \in Owners \cup {Junk}
    BY <1>2 DEF SoundVec
  <2>2. \A i \in 0 .. g.cap - 1 :
          i \in pos + count .. g.n + count - 1 => i - count \in 0 .. g.cap - 1
    BY <1>1, <1>2, <1>4
  <2>3. \A i \in 0 .. g.cap - 1 :
          (IF i \in pos + count .. g.n + count - 1 THEN g.b[i - count] ELSE g.b[i]) \in Owners \cup {Junk}
    BY <2>1, <2>2
  <2> QED
    BY <1>4, <2>3
<1>6. \A i \in 0 .. pos - 1 : buf[i] = v.b[i]
  BY <1>1, <1>2, <1>4
<1>7. \A i \in pos .. v.n - 1 : buf[i + count] = v.b[i]
  BY <1>1, <1>2, <1>4
<1>8. shift_right(v, pos, count) = [b |-> buf, n |-> v.n, cap |-> g.cap]
  BY <1>2, <1>3 DEF SoundVec
<1> HIDE DEF buf
<1> QED
  BY <1>1, <1>2, <1>4, <1>5, <1>6, <1>7, <1>8 DEF SoundVec

\* The elements from pos + count on move down by count.
LEMMA ShiftLeftMoves ==
  ASSUME NEW v, SoundVec(v), NEW pos \in Nat, NEW count \in Nat, pos + count <= v.n
  PROVE  LET w == shift_left(v, pos, count)
         IN  /\ SoundVec(w) /\ w.n = v.n /\ w.cap = v.cap
             /\ \A i \in 0 .. pos - 1 : w.b[i] = v.b[i]
             /\ \A i \in pos .. v.n - count - 1 : w.b[i] = v.b[i + count]
<1> DEFINE buf == [i \in DOMAIN v.b |->
                     IF i \in pos .. v.n - count - 1 THEN v.b[i + count] ELSE v.b[i]]
<1>1. shift_left(v, pos, count) = [b |-> buf, n |-> v.n, cap |-> v.cap]
  <2>1. shift_left(v, pos, count) = [v EXCEPT !.b = buf]
    BY DEF shift_left
  <2> HIDE DEF buf
  <2> QED
    BY <2>1 DEF SoundVec
<1>2. buf \in [0 .. v.cap - 1 -> Owners \cup {Junk}]
  BY DEF SoundVec
<1>3. /\ \A i \in 0 .. pos - 1 : buf[i] = v.b[i]
      /\ \A i \in pos .. v.n - count - 1 : buf[i] = v.b[i + count]
  BY DEF SoundVec
<1> HIDE DEF buf
<1> QED
  BY <1>1, <1>2, <1>3 DEF SoundVec

\* A change of the number of elements within the capacity.
LEMMA CountChanges ==
  ASSUME NEW v, SoundVec(v), NEW k \in Nat, k <= v.cap
  PROVE  LET w == [v EXCEPT !.n = k]
         IN  SoundVec(w) /\ w.n = k /\ w.cap = v.cap /\ w.b = v.b
  BY DEF SoundVec

LEMMA ReserveKeeps ==
  ASSUME NEW v, SoundVec(v), NEW m \in Nat
  PROVE  /\ SoundVec(reserve(v, m))
         /\ reserve(v, m).n = v.n /\ reserve(v, m).cap >= m
         /\ \A i \in 0 .. v.n - 1 : reserve(v, m).b[i] = v.b[i]
<1>1. v.cap \in Nat /\ v.n \in Nat
  BY DEF SoundVec
<1>2. CASE m > v.cap
  BY <1>2, GrowKeeps DEF reserve
<1>3. CASE ~(m > v.cap)
  BY <1>1, <1>3 DEF reserve
<1> QED
  BY <1>2, <1>3

\* count copies of an element.
LEMMA CopiesAreSeq ==
  ASSUME NEW x \in Owners, NEW count \in Nat
  PROVE  LET s == [i \in 1 .. count |-> x]
         IN  s \in Seq(Owners) /\ Len(s) = count /\ \A i \in 1 .. count : s[i] = x
<1> DEFINE s == [i \in 1 .. count |-> x]
<1>1. s \in [1 .. count -> Owners]
  OBVIOUS
<1>2. s \in Seq(Owners)
  BY <1>1, SeqDef
<1>3. Len(s) = count
  BY <1>1, <1>2, LenProperties
<1> QED
  BY <1>2, <1>3

\* A step to a buffer that represents the promised sequence keeps the invariant.
LEMMA BecomesKeeps ==
  ASSUME NEW v, NEW seq, Becomes(v, seq), Represents(v, seq), v.n <= MaxSize
  PROVE  VecIInv'
<1>1. Vec' = v
  BY DEF Becomes, Represents, SoundVec, Vec
<1>2. promised' = seq /\ size_' = v.n
  BY DEF Becomes
<1> QED
  BY <1>1, <1>2 DEF VecIInv

\* The invariant, spelled out for the variables.
LEMMA VecFacts ==
  ASSUME VecIInv
  PROVE  /\ SoundVec(Vec) /\ Vec.n = size_ /\ Vec.cap = capacity_ /\ Vec.b = cells
         /\ size_ \in Nat /\ capacity_ \in Nat /\ size_ <= capacity_ /\ size_ <= MaxSize
         /\ promised \in Seq(Owners) /\ Len(promised) = size_
         /\ \A i \in 1 .. size_ : promised[i] \in Owners /\ promised[i] = cells[i - 1]
<1>1. SoundVec(Vec) /\ Vec.n = size_ /\ Vec.cap = capacity_ /\ Vec.b = cells
  BY DEF VecIInv, Represents, Vec
<1>2. size_ \in Nat /\ capacity_ \in Nat /\ size_ <= capacity_
  BY <1>1 DEF SoundVec
<1>3. promised \in Seq(Owners) /\ Len(promised) = size_
  BY <1>1 DEF VecIInv, Represents
<1>4. \A i \in 1 .. size_ : promised[i] \in Owners
  BY <1>3, ElementOfSeq
<1>5. \A i \in 1 .. size_ : promised[i] = cells[i - 1]
  BY <1>1 DEF VecIInv, Represents
<1> QED
  BY <1>1, <1>2, <1>3, <1>4, <1>5 DEF VecIInv

\* A concatenation of two, or of three, sequences, element by element.
LEMMA ConcatTwo ==
  ASSUME NEW S, NEW s \in Seq(S), NEW t \in Seq(S)
  PROVE  /\ s \o t \in Seq(S) /\ Len(s \o t) = Len(s) + Len(t)
         /\ Len(s) \in Nat /\ Len(t) \in Nat
         /\ \A i \in 1 .. Len(s) : (s \o t)[i] = s[i]
         /\ \A i \in 1 .. Len(t) : (s \o t)[Len(s) + i] = t[i]
<1>1. Len(s) \in Nat /\ Len(t) \in Nat
  BY LenProperties
<1>2. \A i \in 1 .. Len(t) :
        /\ Len(s) + i \in 1 .. Len(s) + Len(t) /\ ~(Len(s) + i <= Len(s))
        /\ (Len(s) + i) - Len(s) = i
  BY <1>1
<1>3. \A i \in 1 .. Len(s) : i \in 1 .. Len(s) + Len(t) /\ i <= Len(s)
  BY <1>1
<1> QED
  BY <1>1, <1>2, <1>3, ConcatProperties

\* v is s, t and u, one after the other.
JoinOfThree(v, s, t, u, S) ==
  /\ v \in Seq(S) /\ Len(v) = Len(s) + Len(t) + Len(u)
  /\ \A i \in 1 .. Len(s) : v[i] = s[i]
  /\ \A i \in 1 .. Len(t) : v[Len(s) + i] = t[i]
  /\ \A i \in 1 .. Len(u) : v[Len(s) + Len(t) + i] = u[i]

LEMMA ConcatThree ==
  ASSUME NEW S, NEW s \in Seq(S), NEW t \in Seq(S), NEW u \in Seq(S)
  PROVE  JoinOfThree(s \o t \o u, s, t, u, S)
<1> SUFFICES /\ s \o t \o u \in Seq(S) /\ Len(s \o t \o u) = Len(s) + Len(t) + Len(u)
             /\ \A i \in 1 .. Len(s) : (s \o t \o u)[i] = s[i]
             /\ \A i \in 1 .. Len(t) : (s \o t \o u)[Len(s) + i] = t[i]
             /\ \A i \in 1 .. Len(u) : (s \o t \o u)[Len(s) + Len(t) + i] = u[i]
  BY DEF JoinOfThree
<1> DEFINE r == s \o t
<1>1. /\ r \in Seq(S) /\ Len(r) = Len(s) + Len(t) /\ Len(s) \in Nat /\ Len(t) \in Nat
      /\ \A i \in 1 .. Len(s) : r[i] = s[i]
      /\ \A i \in 1 .. Len(t) : r[Len(s) + i] = t[i]
  BY ConcatTwo
<1> HIDE DEF r
<1>2. /\ r \o u \in Seq(S) /\ Len(r \o u) = Len(r) + Len(u)
      /\ \A i \in 1 .. Len(r) : (r \o u)[i] = r[i]
      /\ \A i \in 1 .. Len(u) : (r \o u)[Len(r) + i] = u[i]
  <2>1. r \in Seq(S)
    BY <1>1
  <2> QED
    BY <2>1, ConcatTwo
<1>3. /\ \A i \in 1 .. Len(s) : (r \o u)[i] = s[i]
      /\ \A i \in 1 .. Len(t) : (r \o u)[Len(s) + i] = t[i]
  BY <1>1, <1>2
<1> QED
  BY <1>1, <1>2, <1>3 DEF r

\* Each operation moves to a buffer that represents what it promises.
LEMMA InsertStep ==
  ASSUME VecIInv, NEW x \in Owners, NEW pos \in Nat, NEW count \in Nat, insert(pos, count, x)
  PROVE  VecIInv'
<1> DEFINE w == shift_right(Vec, pos, count)
           c == Construct(w, pos, count, x)
           d == [c EXCEPT !.n = c.n + count]
           before == SubSeq(promised, 1, pos)
           copies == [i \in 1 .. count |-> x]
           after == SubSeq(promised, pos + 1, size_)
           seq == before \o copies \o after
<1>1. Becomes(d, seq)
  BY DEF insert
<1>2. pos <= size_ /\ size_ \in Nat /\ size_ + count <= MaxSize /\ size_ + count \in Nat
  BY VecFacts DEF insert
<1>3. \A i \in 1 .. size_ : promised[i] \in Owners /\ promised[i] = cells[i - 1]
  BY VecFacts
<1>4. /\ SoundVec(w) /\ w.n = size_ /\ size_ + count <= w.cap
      /\ \A i \in 0 .. pos - 1 : w.b[i] = cells[i]
      /\ \A i \in pos .. size_ - 1 : w.b[i + count] = cells[i]
  <2>1. SoundVec(Vec) /\ Vec.n = size_ /\ Vec.b = cells
    BY VecFacts
  <2>2. pos \in 0 .. Vec.n
    BY <2>1, <1>2
  <2> QED
    BY <2>1, <2>2, ShiftRightMoves
<1>5. w.cap \in Nat /\ pos + count <= w.cap
  BY <1>2, <1>4 DEF SoundVec
<1> HIDE DEF w
<1>6. /\ SoundVec(c) /\ c.n = w.n /\ c.cap = w.cap
      /\ \A i \in 0 .. w.cap - 1 :
           c.b[i] = IF i \in pos .. pos + count - 1 THEN x ELSE w.b[i]
  BY <1>4, <1>5, ConstructSets
<1> HIDE DEF c
<1>7. SoundVec(d) /\ d.n = size_ + count /\ d.b = c.b
  BY <1>2, <1>4, <1>6, CountChanges
<1>8. /\ before \in Seq(Owners) /\ Len(before) = pos
      /\ \A i \in 1 .. pos : before[i] = promised[i]
  BY <1>2, <1>3, SubSeqProperties
<1>9. /\ after \in Seq(Owners) /\ Len(after) = size_ - pos
      /\ \A i \in 1 .. size_ - pos : after[i] = promised[pos + i]
  BY <1>2, <1>3, SubSeqProperties
<1>10. copies \in Seq(Owners) /\ Len(copies) = count /\ \A i \in 1 .. count : copies[i] = x
  BY CopiesAreSeq
<1> HIDE DEF before, copies, after, d
<1>11. /\ seq \in Seq(Owners) /\ Len(seq) = pos + count + (size_ - pos)
       /\ \A i \in 1 .. pos : seq[i] = before[i]
       /\ \A i \in 1 .. count : seq[pos + i] = copies[i]
       /\ \A i \in 1 .. size_ - pos : seq[pos + count + i] = after[i]
  <2>1. before \in Seq(Owners) /\ copies \in Seq(Owners) /\ after \in Seq(Owners)
    BY <1>8, <1>9, <1>10
  <2>2. /\ seq \in Seq(Owners) /\ Len(seq) = Len(before) + Len(copies) + Len(after)
        /\ \A i \in 1 .. Len(before) : seq[i] = before[i]
        /\ \A i \in 1 .. Len(copies) : seq[Len(before) + i] = copies[i]
        /\ \A i \in 1 .. Len(after) : seq[Len(before) + Len(copies) + i] = after[i]
    <3>1. JoinOfThree(before \o copies \o after, before, copies, after, Owners)
      BY <2>1, ConcatThree, Zenon
    <3> QED
      BY <3>1 DEF JoinOfThree
  <2> QED
    BY <1>8, <1>9, <1>10, <2>2
<1> HIDE DEF seq
<1>12. \A i \in 1 .. size_ + count : seq[i] = d.b[i - 1]
  <2> TAKE i \in 1 .. size_ + count
  <2>0. d.b[i - 1] = IF i - 1 \in pos .. pos + count - 1 THEN x ELSE w.b[i - 1]
    BY <1>2, <1>4, <1>5, <1>6, <1>7
  <2>1. CASE i <= pos
    <3>1. i \in 1 .. pos /\ i \in 1 .. size_ /\ i - 1 \in 0 .. pos - 1
          /\ i - 1 \notin pos .. pos + count - 1
      BY <1>2, <2>1
    <3>2. seq[i] = promised[i]
      BY <1>8, <1>11, <3>1
    <3>3. promised[i] = cells[i - 1]
      BY <1>3, <3>1
    <3>4. w.b[i - 1] = cells[i - 1]
      BY <1>4, <3>1
    <3> QED
      BY <2>0, <3>1, <3>2, <3>3, <3>4
  <2>2. CASE i > pos /\ i <= pos + count
    <3>1. i - pos \in 1 .. count /\ pos + (i - pos) = i /\ i - 1 \in pos .. pos + count - 1
      BY <2>2
    <3> QED
      BY <1>10, <1>11, <2>0, <3>1
  <2>3. CASE i > pos + count
    <3>1. i - (pos + count) \in 1 .. size_ - pos /\ pos + count + (i - (pos + count)) = i
          /\ i - 1 \notin pos .. pos + count - 1
      BY <1>2, <2>3
    <3>2. i - count - 1 \in pos .. size_ - 1 /\ i - count - 1 + count = i - 1
          /\ pos + (i - (pos + count)) = i - count /\ i - count \in 1 .. size_
      BY <1>2, <2>3
    <3>3. seq[i] = promised[i - count]
      BY <1>9, <1>11, <3>1, <3>2
    <3>4. w.b[i - 1] = cells[i - count - 1]
      BY <1>4, <3>2
    <3> QED
      BY <1>3, <2>0, <3>1, <3>2, <3>3, <3>4
  <2> QED
    BY <1>2, <2>1, <2>2, <2>3
<1>13. Represents(d, seq)
  BY <1>2, <1>7, <1>11, <1>12 DEF Represents
<1> QED
  BY <1>1, <1>2, <1>7, <1>13, BecomesKeeps

LEMMA EraseStep ==
  ASSUME VecIInv, NEW pos \in Nat, NEW count \in Nat, erase(pos, count)
  PROVE  VecIInv'
<1> DEFINE w == shift_left(Vec, pos, count)
           d == [w EXCEPT !.n = w.n - count]
           before == SubSeq(promised, 1, pos)
           after == SubSeq(promised, pos + count + 1, size_)
           seq == before \o after
<1>1. Becomes(d, seq)
  BY DEF erase
<1>2. /\ size_ \in Nat /\ pos + count <= size_ /\ size_ - count \in Nat
      /\ size_ <= MaxSize
  BY VecFacts DEF erase
<1>3. \A i \in 1 .. size_ : promised[i] \in Owners /\ promised[i] = cells[i - 1]
  BY VecFacts
<1>4. /\ SoundVec(w) /\ w.n = size_
      /\ \A i \in 0 .. pos - 1 : w.b[i] = cells[i]
      /\ \A i \in pos .. size_ - count - 1 : w.b[i] = cells[i + count]
  <2>1. SoundVec(Vec) /\ Vec.n = size_ /\ Vec.b = cells
    BY VecFacts
  <2>2. pos + count <= Vec.n
    BY <2>1, <1>2
  <2> QED
    BY <2>1, <2>2, ShiftLeftMoves
<1> HIDE DEF w
<1>5. SoundVec(d) /\ d.n = size_ - count /\ d.b = w.b
  <2>1. size_ - count <= w.cap
    BY <1>2, <1>4 DEF SoundVec
  <2> QED
    BY <1>2, <1>4, <2>1, CountChanges
<1>6. /\ before \in Seq(Owners) /\ Len(before) = pos
      /\ \A i \in 1 .. pos : before[i] = promised[i]
  BY <1>2, <1>3, SubSeqProperties
<1>7. /\ after \in Seq(Owners) /\ Len(after) = size_ - count - pos
      /\ \A i \in 1 .. size_ - count - pos : after[i] = promised[pos + count + i]
  BY <1>2, <1>3, SubSeqProperties
<1> HIDE DEF before, after, d
<1>8. /\ seq \in Seq(Owners) /\ Len(seq) = size_ - count
      /\ \A i \in 1 .. pos : seq[i] = before[i]
      /\ \A i \in 1 .. size_ - count - pos : seq[pos + i] = after[i]
  <2>1. before \in Seq(Owners) /\ after \in Seq(Owners)
    BY <1>6, <1>7
  <2>2. /\ seq \in Seq(Owners) /\ Len(seq) = Len(before) + Len(after)
        /\ \A i \in 1 .. Len(before) : seq[i] = before[i]
        /\ \A i \in 1 .. Len(after) : seq[Len(before) + i] = after[i]
    BY <2>1, ConcatTwo
  <2> QED
    BY <1>2, <1>6, <1>7, <2>2
<1> HIDE DEF seq
<1>9. \A i \in 1 .. size_ - count : seq[i] = d.b[i - 1]
  <2> TAKE i \in 1 .. size_ - count
  <2>1. CASE i <= pos
    <3>1. i \in 1 .. pos /\ i \in 1 .. size_ /\ i - 1 \in 0 .. pos - 1
      BY <1>2, <2>1
    <3> QED
      BY <1>3, <1>4, <1>5, <1>6, <1>8, <3>1
  <2>2. CASE i > pos
    <3>1. i - pos \in 1 .. size_ - count - pos /\ pos + (i - pos) = i
          /\ pos + count + (i - pos) = i + count /\ i + count \in 1 .. size_
          /\ i - 1 \in pos .. size_ - count - 1 /\ i - 1 + count = i + count - 1
      BY <1>2, <2>2
    <3>2. seq[i] = promised[i + count]
      BY <1>7, <1>8, <3>1
    <3>3. d.b[i - 1] = cells[i + count - 1]
      BY <1>4, <1>5, <3>1
    <3> QED
      BY <1>3, <3>1, <3>2, <3>3
  <2> QED
    BY <1>2, <2>1, <2>2
<1>10. Represents(d, seq)
  BY <1>5, <1>8, <1>9 DEF Represents
<1>11. d.n <= MaxSize
  BY <1>2, <1>5, VecAssumption
<1> QED
  BY <1>1, <1>10, <1>11, BecomesKeeps

Copies(count, x) == [i \in 1 .. count |-> x]
Appended(v, count, x) == [Construct(v, v.n, count, x) EXCEPT !.n = v.n + count]

\* Elements appended to a buffer v that holds the first n promised ones and has
\* room: the tail of push_back, of resize and of assign.
LEMMA AppendStep ==
  ASSUME NEW v, NEW s, Represents(v, s), NEW count \in Nat, NEW x \in Owners,
         v.n + count <= v.cap
  PROVE  Represents(Appended(v, count, x), s \o Copies(count, x))
<1> DEFINE c == Construct(v, v.n, count, x)
           d == [c EXCEPT !.n = v.n + count]
           copies == [i \in 1 .. count |-> x]
           seq == s \o copies
<1>1. SoundVec(v) /\ v.n \in Nat /\ v.cap \in Nat /\ v.n + count \in Nat
  BY DEF Represents, SoundVec
<1>2. s \in Seq(Owners) /\ Len(s) = v.n /\ \A i \in 1 .. v.n : s[i] = v.b[i - 1]
  BY DEF Represents
<1>3. /\ SoundVec(c) /\ c.cap = v.cap
      /\ \A i \in 0 .. v.cap - 1 :
           c.b[i] = IF i \in v.n .. v.n + count - 1 THEN x ELSE v.b[i]
  BY <1>1, ConstructSets
<1> HIDE DEF c
<1>4. SoundVec(d) /\ d.n = v.n + count /\ d.b = c.b
  BY <1>1, <1>3, CountChanges
<1>5. copies \in Seq(Owners) /\ Len(copies) = count /\ \A i \in 1 .. count : copies[i] = x
  BY CopiesAreSeq
<1> HIDE DEF copies, d
<1>6. /\ seq \in Seq(Owners) /\ Len(seq) = v.n + count
      /\ \A i \in 1 .. v.n : seq[i] = s[i]
      /\ \A i \in 1 .. count : seq[v.n + i] = copies[i]
  <2>1. s \in Seq(Owners) /\ copies \in Seq(Owners)
    BY <1>2, <1>5
  <2>2. /\ seq \in Seq(Owners) /\ Len(seq) = Len(s) + Len(copies)
        /\ \A i \in 1 .. Len(s) : seq[i] = s[i]
        /\ \A i \in 1 .. Len(copies) : seq[Len(s) + i] = copies[i]
    BY <2>1, ConcatTwo
  <2> QED
    BY <1>2, <1>5, <2>2
<1> HIDE DEF seq
<1>7. \A i \in 1 .. v.n + count : seq[i] = d.b[i - 1]
  <2> TAKE i \in 1 .. v.n + count
  <2>0. d.b[i - 1] = IF i - 1 \in v.n .. v.n + count - 1 THEN x ELSE v.b[i - 1]
    BY <1>1, <1>3, <1>4
  <2>1. CASE i <= v.n
    BY <1>1, <1>2, <1>6, <2>0, <2>1
  <2>2. CASE i > v.n
    <3>1. i - v.n \in 1 .. count /\ v.n + (i - v.n) = i /\ i - 1 \in v.n .. v.n + count - 1
      BY <1>1, <2>2
    <3> QED
      BY <1>5, <1>6, <2>0, <3>1
  <2> QED
    BY <1>1, <2>1, <2>2
<1>8. Represents(d, seq)
  BY <1>4, <1>6, <1>7 DEF Represents
<1> QED
  BY <1>8 DEF c, d, copies, seq, Appended, Copies

\* The first k elements of a buffer, as pop_back, resize and clear leave it.
LEMMA CutStep ==
  ASSUME VecIInv, NEW k \in Nat, k <= size_, Becomes([Vec EXCEPT !.n = k], SubSeq(promised, 1, k))
  PROVE  VecIInv'
<1> DEFINE d == [Vec EXCEPT !.n = k]
           seq == SubSeq(promised, 1, k)
<1>1. /\ size_ \in Nat /\ size_ <= MaxSize
      /\ \A i \in 1 .. size_ : promised[i] \in Owners /\ promised[i] = cells[i - 1]
  BY VecFacts
<1>2. SoundVec(d) /\ d.n = k /\ d.b = cells
  <2>1. SoundVec(Vec) /\ Vec.b = cells /\ k <= Vec.cap
    BY VecFacts
  <2> QED
    BY <2>1, CountChanges
<1>3. seq \in Seq(Owners) /\ Len(seq) = k /\ \A i \in 1 .. k : seq[i] = promised[i]
  BY <1>1, SubSeqProperties
<1> HIDE DEF d, seq
<1>4. Represents(d, seq)
  BY <1>1, <1>2, <1>3 DEF Represents
<1>5. d.n <= MaxSize
  BY <1>1, <1>2, VecAssumption
<1>6. Becomes(d, seq)
  BY DEF d, seq
<1> QED
  BY <1>4, <1>5, <1>6, BecomesKeeps

LEMMA PushStep ==
  ASSUME VecIInv, NEW x \in Owners, push_back(x)
  PROVE  VecIInv'
<1> DEFINE v == IF size_ >= capacity_ THEN grow(Vec, size_ + 1) ELSE Vec
<1>1. /\ SoundVec(Vec) /\ Vec.n = size_ /\ Vec.cap = capacity_ /\ Vec.b = cells
      /\ size_ \in Nat /\ capacity_ \in Nat
  BY VecFacts
<1>2. /\ promised \in Seq(Owners) /\ Len(promised) = size_
      /\ \A i \in 1 .. size_ : promised[i] = cells[i - 1]
  BY VecFacts
<1>3. size_ < MaxSize /\ Becomes([Construct(v, size_, 1, x) EXCEPT !.n = v.n + 1],
                                 Append(promised, x))
  BY DEF push_back, Construct
<1>4. /\ SoundVec(v) /\ v.n = size_ /\ size_ + 1 <= v.cap
      /\ \A i \in 0 .. size_ - 1 : v.b[i] = cells[i]
  <2>1. size_ + 1 \in Nat
    BY <1>1
  <2>2. CASE size_ >= capacity_
    BY <1>1, <2>1, <2>2, GrowKeeps
  <2>3. CASE ~(size_ >= capacity_)
    BY <1>1, <2>1, <2>3
  <2> QED
    BY <2>2, <2>3
<1> HIDE DEF v
<1>5. Represents(v, promised)
  BY <1>1, <1>2, <1>4 DEF Represents
<1>6. Append(promised, x) = promised \o Copies(1, x)
  <2>1. Copies(1, x) = <<x>>
    BY DEF Copies
  <2> QED
    BY <1>2, <2>1, AppendIsConcat
<1>7. Represents(Appended(v, 1, x), promised \o Copies(1, x))
  <2>1. v.n + 1 <= v.cap /\ 1 \in Nat
    BY <1>4
  <2> QED
    BY <1>5, <2>1, AppendStep
<1>8. Appended(v, 1, x).n <= MaxSize
  <2>1. SoundVec(Construct(v, v.n, 1, x))
    BY <1>1, <1>4, ConstructSets
  <2>2. v.n + 1 \in Nat /\ v.n + 1 <= MaxSize
    BY <1>1, <1>3, <1>4, VecAssumption
  <2> QED
    BY <2>1, <2>2 DEF SoundVec, Appended
<1>9. Becomes(Appended(v, 1, x), promised \o Copies(1, x))
  BY <1>3, <1>4, <1>6 DEF Appended
<1> QED
  BY <1>7, <1>8, <1>9, BecomesKeeps

LEMMA ResizeStep ==
  ASSUME VecIInv, NEW x \in Owners, NEW count \in Nat, resize(count, x)
  PROVE  VecIInv'
<1> DEFINE v == reserve(Vec, count)
           more == count - size_
           copies == Copies(more, x)
           d == Appended(v, more, x)
<1>1. /\ SoundVec(Vec) /\ Vec.n = size_ /\ Vec.cap = capacity_ /\ Vec.b = cells
      /\ size_ \in Nat /\ capacity_ \in Nat
  BY VecFacts
<1>2. /\ promised \in Seq(Owners) /\ Len(promised) = size_
      /\ \A i \in 1 .. size_ : promised[i] = cells[i - 1]
  BY VecFacts
<1>3. CASE count <= size_
  <2>1. Becomes([Vec EXCEPT !.n = count], SubSeq(promised, 1, count))
    BY <1>3 DEF resize
  <2> QED
    BY <1>3, <2>1, CutStep
<1>4. CASE ~(count <= size_)
  <2>1. Becomes([Construct(v, size_, more, x) EXCEPT !.n = count], promised \o copies)
    BY <1>4 DEF resize, Copies
  <2>2. count <= MaxSize /\ more \in Nat /\ size_ + more = count
    BY <1>1, <1>4, VecAssumption DEF resize
  <2>3. /\ SoundVec(v) /\ v.n = size_ /\ count <= v.cap
        /\ \A i \in 0 .. size_ - 1 : v.b[i] = cells[i]
    <3>1. v.cap >= count /\ v.cap \in Nat
      BY <1>1, ReserveKeeps DEF SoundVec
    <3> QED
      BY <1>1, <3>1, ReserveKeeps
  <2> HIDE DEF v
  <2>4. Represents(v, promised)
    BY <1>1, <1>2, <2>3 DEF Represents
  <2> HIDE DEF more
  <2>5. Represents(d, promised \o copies)
    <3>1. v.n + more <= v.cap /\ more \in Nat
      BY <2>2, <2>3
    <3> QED
      BY <2>4, <3>1, AppendStep
  <2>6. d = [Construct(v, size_, more, x) EXCEPT !.n = count]
    BY <2>2, <2>3 DEF Appended
  <2>7. d.n <= MaxSize
    <3>1. SoundVec(Construct(v, v.n, more, x))
      BY <1>1, <2>2, <2>3, ConstructSets
    <3> QED
      BY <2>2, <2>6, <3>1 DEF SoundVec
  <2> HIDE DEF d, copies
  <2> QED
    BY <2>1, <2>5, <2>6, <2>7, BecomesKeeps
<1> QED
  BY <1>3, <1>4

LEMMA AssignStep ==
  ASSUME VecIInv, NEW x \in Owners, NEW count \in 0 .. MaxSize, assign(count, x)
  PROVE  VecIInv'
<1> DEFINE e == [Vec EXCEPT !.n = 0]
           v == reserve(e, count)
           copies == Copies(count, x)
           d == Appended(v, count, x)
<1>1. SoundVec(e) /\ e.n = 0
  <2>1. SoundVec(Vec)
    BY VecFacts
  <2>2. 0 <= Vec.cap
    BY <2>1 DEF SoundVec
  <2> QED
    BY <2>1, <2>2, CountChanges
<1>2. Becomes([Construct(v, 0, count, x) EXCEPT !.n = count], copies)
  BY DEF assign, Copies
<1>3. count \in Nat /\ count <= MaxSize
  BY VecAssumption
<1> HIDE DEF e
<1>4. SoundVec(v) /\ v.n = 0 /\ count <= v.cap
  <2>1. SoundVec(v) /\ v.n = 0 /\ v.cap >= count
    BY <1>1, <1>3, ReserveKeeps
  <2> QED
    BY <1>3, <2>1 DEF SoundVec
<1> HIDE DEF v
<1>5. Represents(v, <<>>)
  BY <1>4, EmptySeq DEF Represents
<1>6. Represents(d, <<>> \o copies)
  <2>1. v.n + count <= v.cap /\ count \in Nat
    BY <1>3, <1>4
  <2> QED
    BY <1>5, <2>1, AppendStep
<1>7. <<>> \o copies = copies
  BY <1>3, CopiesAreSeq, ConcatEmptySeq DEF Copies
<1>8. d = [Construct(v, 0, count, x) EXCEPT !.n = count]
  BY <1>3, <1>4 DEF Appended
<1>9. d.n <= MaxSize
  <2>1. SoundVec(Construct(v, 0, count, x))
    BY <1>3, <1>4, ConstructSets
  <2> QED
    BY <1>3, <1>8, <2>1 DEF SoundVec
<1> HIDE DEF d, copies
<1> QED
  BY <1>2, <1>6, <1>7, <1>8, <1>9, BecomesKeeps

LEMMA ShrinkStep ==
  ASSUME VecIInv, shrink_to_fit
  PROVE  VecIInv'
<1> DEFINE buf == [i \in 0 .. size_ - 1 |-> cells[i]]
           d == [b |-> buf, n |-> size_, cap |-> size_]
<1>1. /\ size_ \in Nat /\ size_ <= MaxSize
      /\ promised \in Seq(Owners) /\ Len(promised) = size_
      /\ \A i \in 1 .. size_ : promised[i] \in Owners /\ promised[i] = cells[i - 1]
  BY VecFacts
<1>2. buf \in [0 .. size_ - 1 -> Owners \cup {Junk}]
  BY VecFacts DEF SoundVec
<1>3. Becomes(d, promised)
  BY DEF shrink_to_fit, Buffer
<1>4. \A i \in 1 .. size_ : promised[i] = buf[i - 1]
  BY <1>1
<1> HIDE DEF buf
<1>5. Represents(d, promised) /\ d.n <= MaxSize
  BY <1>1, <1>2, <1>4 DEF Represents, SoundVec
<1> QED
  BY <1>3, <1>5, BecomesKeeps

LEMMA VecStep == VecIInv /\ [VecNext]_vecVars => VecIInv'
<1> SUFFICES ASSUME VecIInv, [VecNext]_vecVars PROVE VecIInv'
  OBVIOUS
<1>0. size_ \in Nat /\ size_ <= MaxSize
  BY VecFacts
<1>1. ASSUME NEW o \in Owners, map_io(o) PROVE VecIInv'
  BY <1>1, PushStep DEF map_io
<1>2. ASSUME NEW i \in 0 .. size_ - 1, unmap_io(i) PROVE VecIInv'
  BY <1>0, <1>2, EraseStep DEF unmap_io
<1>3. ASSUME NEW o \in Owners, NEW p \in 0 .. size_, NEW n \in 1 .. 2, insert(p, n, o)
      PROVE  VecIInv'
  BY <1>0, <1>3, InsertStep
<1>4. ASSUME NEW p \in 0 .. size_, NEW n \in 0 .. 2, erase(p, n) PROVE VecIInv'
  BY <1>0, <1>4, EraseStep
<1>5. ASSUME NEW o \in Owners, NEW n \in 0 .. MaxSize, resize(n, o) PROVE VecIInv'
  BY <1>5, ResizeStep
<1>6. ASSUME NEW o \in Owners, NEW n \in 0 .. MaxSize, assign(n, o) PROVE VecIInv'
  BY <1>6, AssignStep
<1>7. CASE pop_back
  <2>1. size_ > 0 /\ Becomes([Vec EXCEPT !.n = size_ - 1], SubSeq(promised, 1, size_ - 1))
    BY <1>7, VecFacts DEF pop_back, Front, Vec
  <2> QED
    BY <1>0, <2>1, CutStep
<1>8. CASE shrink_to_fit
  BY <1>8, ShrinkStep
<1>9. CASE clear
  <2>1. SubSeq(promised, 1, 0) = <<>>
    BY SubSeqEmpty
  <2> QED
    <3>1. Becomes([Vec EXCEPT !.n = 0], SubSeq(promised, 1, 0))
      BY <1>9, <2>1 DEF clear
    <3>2. 0 \in Nat /\ 0 <= size_
      BY <1>0
    <3> QED
      BY <3>1, <3>2, CutStep
<1>10. CASE UNCHANGED vecVars
  BY <1>10 DEF vecVars, VecIInv, Represents, SoundVec, Vec
<1> QED
  BY <1>1, <1>2, <1>3, <1>4, <1>5, <1>6, <1>7, <1>8, <1>9, <1>10 DEF VecNext

\* Whatever sequence of calls is made, of any length and on a vector of any size,
\* the first size_ cells of the buffer are the sequence that the operations of a
\* vector promise (vector.h: insert, erase, push_back, resize and the others).
THEOREM VectorHoldsSequence == VecInit /\ [][VecNext]_vecVars => []VectorIsSequence
<1>1. VecInit => VecIInv
  BY VecAssumption, EmptySeq DEF VecInit, VecIInv, Represents, SoundVec, Vec, Buffer
<1>2. VecIInv => VectorIsSequence
  <2> SUFFICES ASSUME VecIInv PROVE VectorIsSequence
    OBVIOUS
  <2>1. promised = [i \in 1 .. size_ |-> promised[i]]
    BY VecFacts, LenProperties
  <2> QED
    BY <2>1, VecFacts DEF VectorIsSequence
<1> QED
  BY <1>1, <1>2, VecStep, PTL

(***************************************************************************)
(* The event controller.  The cells on the list are a set L: what is       *)
(* linked has increasing ids, each cell but the first has one predecessor, *)
(* and last_event, if it is on the list at all, is its end.  A cell that   *)
(* is linked behind a freed one is not in L.                               *)
(***************************************************************************)
ListOK(L, m, alloc, first, last, id, evs) ==
    /\ L \subseteq alloc
    /\ first \in L \cup {Null}
    /\ \A c \in L : m[c].ev_id \in 0 .. id - 1 /\ evs[m[c].ev_id] = c
    /\ \A c \in L : m[c].ev_next # Null =>
         m[c].ev_next \in L /\ m[c].ev_id < m[m[c].ev_next].ev_id /\ m[c].ev_next # first
    /\ \A c, d \in L : m[c].ev_next = m[d].ev_next /\ m[c].ev_next # Null => c = d
    /\ \A c \in L : c # first => \E d \in L : m[d].ev_next = c
    /\ last \in L => m[last].ev_next = Null

Listed(L) == ListOK(L, mem, allocated, first_event, last_event, last_id, events)

HlecInv == TypeOK /\ \E L : Listed(L)

LEMMA SmallestOf ==
    ASSUME NEW S \in SUBSET Nat, S # {}
    PROVE  Min(S) \in S /\ \A y \in S : Min(S) <= y
<1>1. PICK x \in S : \A y \in S : ~(<<y, x>> \in OpToRel(<, Nat))
  BY NatLessThanWellFounded, WFMin, Zenon
<1>2. \A y \in S : ~(y < x)
  BY <1>1 DEF OpToRel
<1>3. \A y \in S : x <= y
  BY <1>2
<1> QED
  BY <1>3 DEF Min

LEMMA CellsCount == N \in Nat
  BY HlecAssumption, FS_CardinalityType DEF N

\* The recursion of Nth up to k.
Recursion(f, k) ==
    f = [n \in 0 .. k |-> IF n = 0 THEN first_event
                          ELSE IF f[n - 1] = Null THEN Null ELSE mem[f[n - 1]].ev_next]

LEMMA NthExists == \E f : Recursion(f, N)
<1> DEFINE S == {k \in Nat : ~\E f : Recursion(f, k)}
<1> SUFFICES ASSUME S # {} PROVE FALSE
  BY CellsCount
<1>1. S \in SUBSET Nat
  OBVIOUS
<1> DEFINE k == Min(S)
<1>2. k \in S /\ \A y \in S : k <= y
  BY <1>1, SmallestOf
<1> HIDE DEF k
<1>3. k \in Nat /\ ~\E f : Recursion(f, k)
  BY <1>2
<1>4. k # 0
  <2> DEFINE g == [n \in 0 .. 0 |-> first_event]
  <2>1. Recursion(g, 0)
    BY DEF Recursion
  <2> QED
    BY <1>3, <2>1
<1>5. k - 1 \in Nat /\ k - 1 \notin S
  BY <1>2, <1>3, <1>4
<1>6. PICK f : Recursion(f, k - 1)
  BY <1>5
<1> DEFINE e == IF f[k - 1] = Null THEN Null ELSE mem[f[k - 1]].ev_next
           g == [n \in 0 .. k |-> IF n = k THEN e ELSE f[n]]
<1>7. \A n \in 0 .. k - 1 : g[n] = f[n]
  BY <1>3
<1>8. g[k] = e
  BY <1>3
<1>9. \A n \in 0 .. k - 1 : f[n] = IF n = 0 THEN first_event
                                   ELSE IF f[n - 1] = Null THEN Null ELSE mem[f[n - 1]].ev_next
  BY <1>6 DEF Recursion
<1> HIDE DEF e
<1>10. \A n \in 0 .. k : g[n] = IF n = 0 THEN first_event
                                ELSE IF g[n - 1] = Null THEN Null ELSE mem[g[n - 1]].ev_next
  <2> SUFFICES ASSUME NEW n \in 0 .. k
               PROVE  g[n] = IF n = 0 THEN first_event
                             ELSE IF g[n - 1] = Null THEN Null ELSE mem[g[n - 1]].ev_next
    OBVIOUS
  <2>1. CASE n = k
    <3>1. g[n - 1] = f[k - 1] /\ n # 0
      BY <1>3, <1>4, <1>5, <1>7, <2>1
    <3> QED
      BY <1>8, <2>1, <3>1 DEF e
  <2>2. CASE n # k
    <3>1. n \in 0 .. k - 1 /\ (n # 0 => n - 1 \in 0 .. k - 1)
      BY <1>3, <2>2
    <3> HIDE DEF g
    <3> QED
      BY <1>7, <1>9, <3>1
  <2> QED
    BY <2>1, <2>2
<1>11. g = [n \in 0 .. k |-> g[n]]
  OBVIOUS
<1> HIDE DEF g
<1>12. Recursion(g, k)
  BY <1>10, <1>11 DEF Recursion
<1> QED
  BY <1>3, <1>12

LEMMA NthIs ==
    /\ Nth[0] = first_event
    /\ \A n \in 1 .. N : Nth[n] = IF Nth[n - 1] = Null THEN Null ELSE mem[Nth[n - 1]].ev_next
<1>1. Nth = CHOOSE f : Recursion(f, N)
  BY DEF Nth, Recursion
<1>2. Recursion(Nth, N)
  BY <1>1, NthExists
<1>3. 0 \in 0 .. N /\ \A n \in 1 .. N : n \in 0 .. N /\ n # 0
  BY CellsCount
<1> QED
  BY <1>2, <1>3 DEF Recursion

\* The walk stays on the list, and the ids increase along it.
LEMMA WalkOnList ==
    ASSUME NEW L, Listed(L)
    PROVE  /\ \A n \in 0 .. N : Nth[n] \in L \cup {Null}
           /\ \A i, j \in 0 .. N : i < j /\ Nth[j] # Null =>
                Nth[i] # Null /\ mem[Nth[i]].ev_id < mem[Nth[j]].ev_id
<1>0. N \in Nat
  BY CellsCount
<1>1. \A n \in 0 .. N : Nth[n] \in L \cup {Null}
  <2> DEFINE S == {n \in 0 .. N : Nth[n] \notin L \cup {Null}}
  <2> SUFFICES ASSUME S # {} PROVE FALSE
    OBVIOUS
  <2> DEFINE k == Min(S)
  <2>1. S \in SUBSET Nat
    OBVIOUS
  <2>2. k \in S /\ \A y \in S : k <= y
    BY <2>1, SmallestOf
  <2> HIDE DEF k
  <2>3. k \in 0 .. N /\ Nth[k] \notin L \cup {Null} /\ k # 0
    BY <2>2, NthIs DEF Listed, ListOK
  <2>4. k - 1 \in 0 .. N /\ k - 1 \notin S /\ k \in 1 .. N
    BY <1>0, <2>2, <2>3
  <2>5. Nth[k - 1] \in L \cup {Null}
    BY <2>4
  <2> QED
    BY <2>3, <2>4, <2>5, NthIs DEF Listed, ListOK
<1>2. ASSUME NEW n \in 1 .. N, Nth[n] # Null
      PROVE  /\ Nth[n - 1] \in L /\ mem[Nth[n - 1]].ev_next = Nth[n] /\ Nth[n - 1] # Null
             /\ mem[Nth[n - 1]].ev_id < mem[Nth[n]].ev_id
  <2>1. n - 1 \in 0 .. N
    BY <1>0
  <2> QED
    BY <1>1, <1>2, <2>1, NthIs DEF Listed, ListOK
<1>3. \A n \in 0 .. N : Nth[n] # Null => mem[Nth[n]].ev_id \in Int
  BY <1>1 DEF Listed, ListOK
<1>4. ASSUME NEW i \in 0 .. N
      PROVE  \A j \in 0 .. N : i < j /\ Nth[j] # Null =>
               Nth[i] # Null /\ mem[Nth[i]].ev_id < mem[Nth[j]].ev_id
  <2> DEFINE S == {j \in 0 .. N : i < j /\ Nth[j] # Null
                                 /\ ~(Nth[i] # Null /\ mem[Nth[i]].ev_id < mem[Nth[j]].ev_id)}
  <2> SUFFICES ASSUME S # {} PROVE FALSE
    OBVIOUS
  <2> DEFINE k == Min(S)
  <2>1. S \in SUBSET Nat
    OBVIOUS
  <2>2. k \in S /\ \A y \in S : k <= y
    BY <2>1, SmallestOf
  <2> HIDE DEF k
  <2>3. k \in 0 .. N /\ i < k /\ Nth[k] # Null /\ k \in 1 .. N /\ k - 1 \in 0 .. N /\ k - 1 \notin S
    BY <1>0, <2>2
  <2>4. /\ Nth[k - 1] # Null /\ mem[Nth[k - 1]].ev_id < mem[Nth[k]].ev_id
    BY <1>2, <2>3
  <2>5. CASE i = k - 1
    BY <2>2, <2>4, <2>5
  <2>6. CASE i # k - 1
    <3>1. i < k - 1
      BY <2>3, <2>6
    <3>2. Nth[i] # Null /\ mem[Nth[i]].ev_id < mem[Nth[k - 1]].ev_id
      BY <2>3, <2>4, <3>1
    <3>3. mem[Nth[i]].ev_id < mem[Nth[k]].ev_id
      BY <1>3, <2>3, <2>4, <3>2
    <3> QED
      BY <2>2, <3>2, <3>3
  <2> QED
    BY <2>5, <2>6
<1> QED
  BY <1>1, <1>4

\* It has no more cells than there are, so it ends.
LEMMA WalkEnds == ASSUME TypeOK, NEW L, Listed(L) PROVE Nth[N] = Null
<1>1. N \in Nat
  BY CellsCount
<1> SUFFICES ASSUME Nth[N] # Null PROVE FALSE
  OBVIOUS
<1> DEFINE f == [n \in 0 .. N |-> Nth[n]]
<1>2. \A n \in 0 .. N : Nth[n] \in L
  <2>1. \A n \in 0 .. N : n # N => n < N
    BY <1>1
  <2>2. \A n \in 0 .. N : n # N => Nth[n] # Null
    BY <1>1, <2>1, WalkOnList
  <2> QED
    BY <2>2, WalkOnList
<1>3. L \subseteq Cells
  BY DEF TypeOK, Listed, ListOK
<1>4. f \in [0 .. N -> Cells]
  BY <1>2, <1>3
<1>5. IsFiniteSet(0 .. N) /\ Cardinality(0 .. N) = N + 1
  BY <1>1, FS_Interval
<1>6. Cardinality(Cells) < Cardinality(0 .. N) /\ IsFiniteSet(Cells)
  BY <1>1, <1>5, HlecAssumption DEF N
<1> HIDE DEF f
<1>7. PICK x \in 0 .. N, y \in 0 .. N : x # y /\ f[x] = f[y]
  BY <1>4, <1>5, <1>6, FS_PigeonHole
<1>8. Nth[x] = Nth[y] /\ Nth[x] \in L /\ Nth[x] # Null
  BY <1>2, <1>3, <1>7, HlecAssumption DEF f
<1>9. mem[Nth[x]].ev_id \in Int
  BY <1>8 DEF Listed, ListOK
<1>10. x < y \/ y < x
  BY <1>1, <1>7
<1> QED
  BY <1>8, <1>9, <1>10, WalkOnList

LEMMA WalkReaches ==
    ASSUME TypeOK, NEW L, Listed(L), NEW c \in L
    PROVE  \E n \in 0 .. N : Nth[n] = c
<1> DEFINE Far == {d \in L : \A n \in 0 .. N : Nth[n] # d}
           S == {mem[d].ev_id : d \in Far}
<1> SUFFICES ASSUME Far # {} PROVE FALSE
  OBVIOUS
<1>1. \A d \in L : mem[d].ev_id \in Nat
  BY DEF Listed, ListOK, TypeOK
<1>2. S \in SUBSET Nat /\ S # {}
  BY <1>1
<1> DEFINE k == Min(S)
<1>3. k \in S /\ \A y \in S : k <= y
  BY <1>2, SmallestOf
<1> HIDE DEF k
<1>4. PICK d \in Far : mem[d].ev_id = k
  BY <1>3
<1>5. N \in Nat /\ 0 \in 0 .. N
  BY CellsCount
<1>6. d \in L /\ d # first_event
  BY <1>4, <1>5, NthIs
<1>7. PICK p \in L : mem[p].ev_next = d
  BY <1>6 DEF Listed, ListOK
<1>8. d # Null /\ p # Null
  BY <1>6, <1>7, HlecAssumption DEF Listed, ListOK, TypeOK
<1>9. mem[p].ev_id < k
  BY <1>4, <1>7, <1>8 DEF Listed, ListOK
<1>10. p \notin Far
  <2>1. p \in Far => mem[p].ev_id \in S
    BY Zenon
  <2>2. mem[p].ev_id \in Nat /\ k \in Nat
    BY <1>1, <1>2, <1>3, <1>7
  <2> HIDE DEF Far, S
  <2> QED
    BY <1>3, <1>9, <2>1, <2>2
<1>11. PICK n \in 0 .. N : Nth[n] = p
  BY <1>7, <1>10
<1>12. n # N
  BY <1>8, <1>11, WalkEnds
<1>13. n + 1 \in 1 .. N /\ n + 1 \in 0 .. N /\ (n + 1) - 1 = n
  BY <1>5, <1>12
<1>14. Nth[n + 1] = d
  BY <1>7, <1>8, <1>11, <1>13, NthIs
<1> QED
  BY <1>4, <1>13, <1>14

(***************************************************************************)
(* What a search finds.                                                    *)
(***************************************************************************)
LEMMA Found ==
    ASSUME TypeOK, NEW L, Listed(L), NEW id
    PROVE  \/ /\ get_event_for_id(id) = Null /\ \A c \in L : mem[c].ev_id # id
           \/ \E n \in 0 .. N :
                /\ Nth[n] \in L /\ mem[Nth[n]].ev_id = id
                /\ get_event_for_id(id) = Nth[n] /\ Places(id) = {n}
<1>1. Null \notin L
  BY HlecAssumption DEF Listed, ListOK, TypeOK
<1>2. CASE Places(id) = {}
  <2>1. get_event_for_id(id) = Null
    BY <1>2 DEF get_event_for_id
  <2>2. ASSUME NEW c \in L, mem[c].ev_id = id PROVE FALSE
    <3>1. PICK n \in 0 .. N : Nth[n] = c
      BY WalkReaches
    <3> QED
      BY <1>1, <1>2, <2>2, <3>1 DEF Places
  <2> QED
    BY <2>1, <2>2
<1>3. CASE Places(id) # {}
  <2> DEFINE n == Min(Places(id))
  <2>1. Places(id) \in SUBSET Nat
    BY DEF Places
  <2>2. n \in Places(id)
    BY <1>3, <2>1, SmallestOf
  <2>3. get_event_for_id(id) = Nth[n]
    BY <1>3 DEF get_event_for_id
  <2> HIDE DEF n
  <2>4. n \in 0 .. N /\ Nth[n] # Null /\ mem[Nth[n]].ev_id = id
    BY <2>2 DEF Places
  <2>5. Nth[n] \in L
    BY <2>4, WalkOnList
  <2>6. mem[Nth[n]].ev_id \in Int
    BY <2>5 DEF Listed, ListOK
  <2>7. ASSUME NEW k \in Places(id) PROVE k = n
    <3>1. k \in 0 .. N /\ Nth[k] # Null /\ mem[Nth[k]].ev_id = id
      BY <2>7 DEF Places
    <3>2. ~(k < n) /\ ~(n < k)
      BY <2>4, <2>6, <3>1, WalkOnList
    <3> QED
      BY <2>4, <3>1, <3>2, CellsCount
  <2>8. Places(id) = {n}
    BY <2>2, <2>7
  <2> QED
    BY <2>3, <2>4, <2>5, <2>8
<1> QED
  BY <1>2, <1>3

\* The predecessor of what was found.
LEMMA FoundBefore ==
    ASSUME TypeOK, NEW L, Listed(L), NEW id, get_event_for_id(id) # Null
    PROVE  LET node == get_event_for_id(id)
               prev == get_prev_event_for_id(id)
           IN  /\ node \in L /\ mem[node].ev_id = id
               /\ \/ prev = Null /\ node = first_event
                  \/ prev \in L /\ mem[prev].ev_next = node
<1>1. PICK n \in 0 .. N : /\ Nth[n] \in L /\ mem[Nth[n]].ev_id = id
                          /\ get_event_for_id(id) = Nth[n] /\ Places(id) = {n}
  BY Found
<1>2. N \in Nat
  BY CellsCount
<1>3. CASE n = 0
  <2>1. Places(id) \ {0} = {}
    BY <1>1, <1>3
  <2>2. get_prev_event_for_id(id) = Null
    BY <2>1 DEF get_prev_event_for_id
  <2> QED
    BY <1>1, <1>3, <2>2, NthIs
<1>4. CASE n # 0
  <2>1. Places(id) \ {0} = {n} /\ {n} \in SUBSET Nat /\ {n} # {}
    BY <1>1, <1>4
  <2>2. Min({n}) = n
    <3>1. Min({n}) \in {n}
      BY <2>1, SmallestOf
    <3> QED
      BY <3>1
  <2>3. get_prev_event_for_id(id) = Nth[n - 1]
    BY <2>1, <2>2 DEF get_prev_event_for_id
  <2>4. n \in 1 .. N /\ n - 1 \in 0 .. N
    BY <1>2, <1>4
  <2>5. Nth[n] # Null
    BY <1>1, HlecAssumption DEF Listed, ListOK, TypeOK
  <2>6. Nth[n - 1] # Null /\ mem[Nth[n - 1]].ev_next = Nth[n]
    BY <2>4, <2>5, NthIs
  <2>7. Nth[n - 1] \in L
    BY <2>4, <2>6, WalkOnList
  <2> QED
    BY <1>1, <2>3, <2>6, <2>7
<1> QED
  BY <1>3, <1>4

LEMMA ListIsSound == ASSUME HlecInv PROVE EventsAreSound
<1>1. PICK L : Listed(L)
  BY DEF HlecInv
<1>2. TypeOK
  BY DEF HlecInv
<1>3. WalkIsSafe
  <2>1. Nth[N] = Null
    BY <1>1, <1>2, WalkEnds
  <2>2. \A n \in 0 .. N : Nth[n] # Null => Nth[n] \in allocated
    BY <1>1, WalkOnList DEF Listed, ListOK
  <2> QED
    BY <2>1, <2>2 DEF WalkIsSafe
<1>4. FindsTheEvent
  <2> SUFFICES ASSUME NEW id \in 0 .. (last_id - 1), get_event_for_id(id) # Null
               PROVE  get_event_for_id(id) = events[id]
    BY DEF FindsTheEvent
  <2>1. get_event_for_id(id) \in L /\ mem[get_event_for_id(id)].ev_id = id
    BY <1>1, <1>2, FoundBefore
  <2> QED
    BY <1>1, <2>1 DEF Listed, ListOK
<1> QED
  BY <1>3, <1>4 DEF EventsAreSound

(***************************************************************************)
(* The steps.                                                              *)
(***************************************************************************)
Cell == [ev_id : Ids \cup {-1}, callback : BOOLEAN, quiet : BOOLEAN, ev_next : Cells \cup {Null}]

LEMMA NewStep == ASSUME HlecInv, new_event PROVE HlecInv'
<1>1. PICK L : Listed(L)
  BY DEF HlecInv
<1>2. PICK c \in Cells \ allocated :
        /\ Link(c) /\ allocated' = allocated \cup {c} /\ events' = [events EXCEPT ![last_id] = c]
  BY DEF new_event
<1> DEFINE F == Fresh(last_id)
           G == [F EXCEPT !.ev_next = c]
<1>3. /\ last_id < MaxIds /\ last_id' = last_id + 1 /\ result' = "none" /\ last_event' = c
      /\ first_event' = IF first_event = Null THEN c ELSE first_event
  BY <1>2 DEF new_event, Link
<1>4. /\ mem \in [Cells -> Cell] /\ allocated \subseteq Cells /\ last_id \in 0 .. MaxIds
      /\ first_event \in Cells \cup {Null} /\ last_event \in Cells \cup {Null}
      /\ events \in [Ids -> Cells \cup {Null}] /\ MaxIds \in Nat /\ Null \notin Cells
  BY HlecAssumption DEF HlecInv, TypeOK, Cell
<1>5. last_id \in Ids /\ last_id' \in 0 .. MaxIds
  BY <1>3, <1>4 DEF Ids
<1>6. /\ F \in Cell /\ F.ev_next = Null /\ F.ev_id = last_id
      /\ G \in Cell /\ G.ev_next = c /\ G.ev_id = last_id
  BY <1>2, <1>5 DEF Fresh, Cell
<1> HIDE DEF F, G
\* The cells afterwards.
<1>7. /\ mem' \in [Cells -> Cell]
      /\ \A d \in Cells : d # c /\ (first_event = Null \/ d # last_event) => mem'[d] = mem[d]
      /\ first_event # Null /\ last_event # c => mem'[c] = F
      /\ first_event = Null => mem'[c] = F
      /\ first_event # Null /\ last_event \in Cells /\ last_event # c =>
           mem'[last_event] = [mem[last_event] EXCEPT !.ev_next = c]
  <2>1. CASE first_event = Null
    BY <1>2, <1>4, <1>6, <2>1 DEF Link, F
  <2>2. CASE first_event # Null
    <3>1. mem' = [mem EXCEPT ![c] = F, ![last_event].ev_next = c]
      BY <1>2, <2>2 DEF Link, F
    <3> DEFINE m1 == [mem EXCEPT ![c] = F]
    <3>2. m1 \in [Cells -> Cell] /\ m1[c] = F /\ \A d \in Cells : d # c => m1[d] = mem[d]
      BY <1>2, <1>4, <1>6
    <3>3. mem' = [m1 EXCEPT ![last_event].ev_next = c]
      BY <3>1
    <3> HIDE DEF m1
    <3>4. \A x \in Cell : [x EXCEPT !.ev_next = c] \in Cell
      BY <1>2 DEF Cell
    <3>5. /\ mem' \in [Cells -> Cell] /\ \A d \in Cells : d # last_event => mem'[d] = m1[d]
          /\ last_event \in Cells => mem'[last_event] = [m1[last_event] EXCEPT !.ev_next = c]
      BY <3>2, <3>3, <3>4
    <3> QED
      BY <1>2, <2>2, <3>2, <3>5
  <2> QED
    BY <2>1, <2>2
<1>8. /\ events' \in [Ids -> Cells \cup {Null}] /\ events'[last_id] = c
      /\ \A i \in Ids : i # last_id => events'[i] = events[i]
  BY <1>2, <1>4, <1>5
<1>9. TypeOK'
  BY <1>2, <1>3, <1>4, <1>5, <1>7, <1>8 DEF TypeOK, Cell
<1>10. c \notin L /\ L \subseteq Cells /\ \A d \in L : mem[d].ev_id \in Ids /\ mem[d].ev_id < last_id
  <2>1. L \subseteq Cells /\ c \notin L
    BY <1>1, <1>2, <1>4 DEF Listed, ListOK
  <2>2. \A d \in L : mem[d].ev_id \in 0 .. last_id - 1
    BY <1>1 DEF Listed, ListOK
  <2> QED
    BY <1>4, <1>5, <2>1, <2>2 DEF Ids
<1>11. CASE first_event = Null
  <2>1. mem'[c].ev_id = last_id /\ mem'[c].ev_next = Null /\ c # Null
    BY <1>2, <1>4, <1>6, <1>7, <1>11
  <2>2. last_id \in 0 .. last_id' - 1
    BY <1>3, <1>4
  <2>3. Listed({c})'
    BY <1>2, <1>3, <1>8, <1>11, <2>1, <2>2 DEF Listed, ListOK
  <2> QED
    BY <1>9, <2>3 DEF HlecInv
<1>12. CASE first_event # Null /\ last_event \notin L
  <2>1. \A d \in L : mem'[d] = mem[d]
    BY <1>7, <1>10, <1>12
  <2>2. \A d \in L : mem[d].ev_id \in 0 .. last_id' - 1 /\ events'[mem[d].ev_id] = d
    BY <1>1, <1>3, <1>4, <1>8, <1>10 DEF Listed, ListOK
  <2>3. first_event' = first_event /\ last_event' \notin L /\ L \subseteq allocated'
    BY <1>1, <1>2, <1>3, <1>10, <1>12 DEF Listed, ListOK
  <2>4. Listed(L)'
    BY <1>1, <2>1, <2>2, <2>3 DEF Listed, ListOK
  <2> QED
    BY <1>9, <2>4 DEF HlecInv
<1>13. CASE first_event # Null /\ last_event \in L
  <2> DEFINE M == L \cup {c}
  <2>1. last_event \in Cells /\ last_event # c /\ c # Null
    BY <1>2, <1>4, <1>10, <1>13
  <2>2. \A d \in L : d # last_event => mem'[d] = mem[d]
    BY <1>7, <1>10
  <2>3. /\ mem'[last_event].ev_next = c /\ mem'[last_event].ev_id = mem[last_event].ev_id
        /\ mem'[c].ev_next = Null /\ mem'[c].ev_id = last_id
    <3>1. mem[last_event] \in Cell
      BY <1>4, <2>1
    <3>2. mem'[last_event] = [mem[last_event] EXCEPT !.ev_next = c]
      BY <1>7, <1>13, <2>1
    <3> QED
      BY <1>6, <1>7, <1>13, <2>1, <3>1, <3>2 DEF Cell
  <2>4. \A d \in L : mem'[d].ev_id = mem[d].ev_id
    BY <2>2, <2>3
  <2>5. \A d \in L : mem[d].ev_id \in 0 .. last_id' - 1 /\ events'[mem[d].ev_id] = d
    BY <1>1, <1>3, <1>4, <1>8, <1>10 DEF Listed, ListOK
  <2>6. last_id \in 0 .. last_id' - 1
    BY <1>3, <1>4
  <2>7. first_event' = first_event /\ M \subseteq allocated' /\ first_event \in L
    BY <1>1, <1>2, <1>3, <1>13 DEF Listed, ListOK
  <2>8. \A d \in L : /\ mem[d].ev_next # Null =>
                          mem[d].ev_next \in L /\ mem[d].ev_id < mem[mem[d].ev_next].ev_id
                          /\ mem[d].ev_next # first_event
                     /\ d # first_event => \E p \in L : mem[p].ev_next = d
    BY <1>1 DEF Listed, ListOK
  <2>9. /\ \A d, e \in L : mem[d].ev_next = mem[e].ev_next /\ mem[d].ev_next # Null => d = e
        /\ mem[last_event].ev_next = Null
    BY <1>1, <1>13 DEF Listed, ListOK
  <2>10. \A d \in M : mem'[d].ev_id \in 0 .. last_id' - 1 /\ events'[mem'[d].ev_id] = d
    BY <1>8, <2>3, <2>4, <2>5, <2>6
  <2>11. \A d \in M : mem'[d].ev_next # Null =>
            mem'[d].ev_next \in M /\ mem'[d].ev_id < mem'[mem'[d].ev_next].ev_id
            /\ mem'[d].ev_next # first_event
    <3> SUFFICES ASSUME NEW d \in M, mem'[d].ev_next # Null
                 PROVE  mem'[d].ev_next \in M /\ mem'[d].ev_id < mem'[mem'[d].ev_next].ev_id
                        /\ mem'[d].ev_next # first_event
      OBVIOUS
    <3>1. CASE d = last_event
      BY <1>10, <1>13, <2>3, <2>7, <3>1
    <3>2. CASE d # last_event
      <4>1. d \in L /\ mem'[d] = mem[d]
        BY <2>2, <2>3, <3>2
      <4> QED
        BY <2>4, <2>8, <4>1
    <3> QED
      BY <3>1, <3>2
  <2>12. \A d, e \in M : mem'[d].ev_next = mem'[e].ev_next /\ mem'[d].ev_next # Null => d = e
    BY <1>10, <2>2, <2>3, <2>8, <2>9
  <2>13. \A d \in M : d # first_event => \E p \in M : mem'[p].ev_next = d
    <3> SUFFICES ASSUME NEW d \in M, d # first_event PROVE \E p \in M : mem'[p].ev_next = d
      OBVIOUS
    <3>1. CASE d = c
      BY <1>13, <2>3, <3>1
    <3>2. CASE d # c
      <4>1. PICK p \in L : mem[p].ev_next = d
        BY <2>8, <3>2
      <4>2. d # Null
        BY <1>4, <1>10, <3>2
      <4>3. p # last_event
        BY <2>9, <4>1, <4>2
      <4> QED
        BY <2>2, <4>1, <4>3
    <3> QED
      BY <3>1, <3>2
  <2>14. Listed(M)'
    BY <1>3, <2>3, <2>7, <2>10, <2>11, <2>12, <2>13 DEF Listed, ListOK
  <2> QED
    BY <1>9, <2>14 DEF HlecInv
<1> QED
  BY <1>11, <1>12, <1>13


\* Cells of the list that keep their id and link may change otherwise.
LEMMA SameLinks ==
    ASSUME NEW L, Listed(L), UNCHANGED <<allocated, first_event, last_event, last_id>>,
           \A c \in L : /\ mem'[c].ev_id = mem[c].ev_id /\ mem'[c].ev_next = mem[c].ev_next
                        /\ events'[mem[c].ev_id] = events[mem[c].ev_id]
    PROVE  Listed(L)'
<1>1. \A c \in L : mem[c].ev_next # Null => mem[c].ev_next \in L
  BY DEF Listed, ListOK
<1> QED
  BY <1>1 DEF Listed, ListOK

\* A cell leaves the list: its predecessor, or first_event, takes its link.
LEMMA Unlinked ==
    ASSUME NEW L, Listed(L), NEW node \in L, NEW prev, Null \notin L,
           \/ prev = Null /\ node = first_event
           \/ prev \in L /\ mem[prev].ev_next = node,
           allocated' = allocated \ {node}, UNCHANGED <<last_event, last_id>>,
           \A c \in L : mem'[c].ev_id = mem[c].ev_id,
           \A c \in L : c # node /\ c # prev => mem'[c].ev_next = mem[c].ev_next,
           prev = Null => first_event' = mem[node].ev_next,
           prev # Null => first_event' = first_event /\ mem'[prev].ev_next = mem[node].ev_next,
           \A c \in L : c # node => events'[mem[c].ev_id] = events[mem[c].ev_id]
    PROVE  Listed(L \ {node})'
<1> DEFINE M == L \ {node}
           next == mem[node].ev_next
<1>1. \A c \in L : /\ mem[c].ev_id \in 0 .. last_id - 1 /\ events[mem[c].ev_id] = c
                   /\ mem[c].ev_next # Null =>
                        mem[c].ev_next \in L /\ mem[c].ev_id < mem[mem[c].ev_next].ev_id
                        /\ mem[c].ev_next # first_event
                   /\ c # first_event => \E d \in L : mem[d].ev_next = c
  BY DEF Listed, ListOK
<1>2. /\ \A c, d \in L : mem[c].ev_next = mem[d].ev_next /\ mem[c].ev_next # Null => c = d
      /\ L \subseteq allocated /\ first_event \in L \cup {Null}
      /\ last_event \in L => mem[last_event].ev_next = Null
  BY DEF Listed, ListOK
<1>3. next # Null => next \in M /\ mem[node].ev_id < mem[next].ev_id /\ next # first_event
  BY <1>1
<1>4. \A c \in M : mem[c].ev_id \in Int
  BY <1>1
<1>5. mem[node].ev_id \in Int
  BY <1>1
<1>6. CASE prev = Null
  <2>1. first_event' = next /\ \A c \in M : mem'[c].ev_next = mem[c].ev_next
    BY <1>6
  <2>2. \A c \in M : mem[c].ev_next # Null => mem[c].ev_next \in M /\ mem[c].ev_next # next
    BY <1>1, <1>2, <1>6
  <2>3. \A c \in M : c # next => \E d \in M : mem[d].ev_next = c
    BY <1>1, <1>6
  <2> HIDE DEF next
  <2>4. ListOK(M, mem', allocated', first_event', last_event, last_id, events')
    BY <1>1, <1>2, <1>3, <2>1, <2>2, <2>3 DEF ListOK
  <2> QED
    BY <2>4 DEF Listed
<1>7. CASE prev # Null
  <2>1. /\ prev \in L /\ mem[prev].ev_next = node /\ first_event' = first_event
        /\ mem'[prev].ev_next = next /\ node # Null
    BY <1>7
  <2>2. mem[prev].ev_id < mem[node].ev_id /\ node # first_event /\ mem[prev].ev_id \in Int
    BY <1>1, <2>1
  <2>3. prev \in M
    BY <1>5, <2>1, <2>2
  <2>4. \A c \in M : c # prev => mem'[c].ev_next = mem[c].ev_next /\ mem[c].ev_next # node
    BY <1>2, <2>1
  <2>5. \A c \in M : c # prev /\ mem[c].ev_next # Null => mem[c].ev_next \in M /\ mem[c].ev_next # next
    BY <1>1, <1>2, <2>4
  <2>6. next # Null => mem[prev].ev_id < mem[next].ev_id
    BY <1>3, <1>4, <1>5, <2>2
  <2>7. ASSUME NEW c \in M, c # first_event PROVE \E d \in M : mem'[d].ev_next = c
    <3>1. PICK d \in L : mem[d].ev_next = c
      BY <1>1, <2>7
    <3>2. CASE d = node
      BY <2>1, <2>3, <3>1, <3>2
    <3>3. CASE d # node
      <4>1. d # prev
        BY <2>1, <2>7, <3>1
      <4> QED
        BY <2>4, <3>1, <3>3, <4>1
    <3> QED
      BY <3>2, <3>3
  <2> HIDE DEF next
  <2>8. \A c \in M : mem'[c].ev_next # Null =>
           mem'[c].ev_next \in M /\ mem'[c].ev_id < mem'[mem'[c].ev_next].ev_id
           /\ mem'[c].ev_next # first_event
    BY <1>1, <1>3, <2>1, <2>3, <2>4, <2>5, <2>6
  <2>9. \A c, d \in M : mem'[c].ev_next = mem'[d].ev_next /\ mem'[c].ev_next # Null => c = d
    BY <1>2, <2>1, <2>4, <2>5
  <2>10. \A c \in M : mem'[c].ev_id \in 0 .. last_id - 1 /\ events'[mem'[c].ev_id] = c
    BY <1>1
  <2>11. last_event \in M => mem'[last_event].ev_next = Null
    BY <1>2, <2>1, <2>4
  <2>12. M \subseteq allocated' /\ first_event \in M \cup {Null}
    BY <1>2, <2>2
  <2>13. ListOK(M, mem', allocated', first_event, last_event, last_id, events')
    BY <2>7, <2>8, <2>9, <2>10, <2>11, <2>12 DEF ListOK
  <2> QED
    BY <2>1, <2>13 DEF Listed
<1> QED
  BY <1>6, <1>7

LEMMA RemoveStep == ASSUME HlecInv, NEW id \in 0 .. (last_id - 1), remove_event(id) PROVE HlecInv'
<1>0. PICK node, prev : node = get_event_for_id(id) /\ prev = get_prev_event_for_id(id)
  OBVIOUS
<1>1. PICK L : Listed(L)
  BY DEF HlecInv
<1>2. TypeOK /\ Null \notin Cells /\ L \subseteq Cells
  BY <1>1, HlecAssumption DEF HlecInv, TypeOK, Listed, ListOK
<1>3. /\ mem \in [Cells -> Cell] /\ allocated \subseteq Cells /\ last_id \in 0 .. MaxIds
      /\ first_event \in Cells \cup {Null} /\ last_event \in Cells \cup {Null}
      /\ events \in [Ids -> Cells \cup {Null}] /\ MaxIds \in Nat
  BY <1>2, HlecAssumption DEF TypeOK, Cell
<1>4. id \in Ids /\ events' = [events EXCEPT ![id] = Null] /\ result' = "none"
      /\ UNCHANGED <<last_event, last_id>>
  BY <1>3 DEF remove_event, Ids
<1>5. /\ events' \in [Ids -> Cells \cup {Null}]
      /\ \A i \in Ids : i # id => events'[i] = events[i]
  BY <1>3, <1>4
<1>6. \A c \in L : mem[c].ev_id \in Ids
  BY <1>1, <1>3 DEF Listed, ListOK, Ids
<1>7. CASE node = Null
  <2>1. UNCHANGED <<mem, allocated, first_event>>
    BY <1>0, <1>7 DEF remove_event
  <2>2. \A c \in L : mem[c].ev_id # id
    <3>1. Null \notin L
      BY <1>2
    <3>2. \/ /\ get_event_for_id(id) = Null /\ \A c \in L : mem[c].ev_id # id
          \/ \E n \in 0 .. N : Nth[n] \in L /\ get_event_for_id(id) = Nth[n]
      BY <1>1, <1>2, Found, ZenonT(60)
    <3> QED
      BY <1>0, <1>7, <3>1, <3>2
  <2>3. Listed(L)'
    BY <1>1, <1>4, <1>5, <1>6, <2>1, <2>2, SameLinks
  <2>4. TypeOK'
    BY <1>2, <1>4, <1>5, <2>1 DEF TypeOK
  <2> QED
    BY <2>3, <2>4 DEF HlecInv
<1>8. CASE node # Null
  <2>1. /\ node \in L /\ mem[node].ev_id = id
        /\ \/ prev = Null /\ node = first_event
           \/ prev \in L /\ mem[prev].ev_next = node
    BY <1>0, <1>1, <1>2, <1>8, FoundBefore
  <2>2. Unlink(node, prev) /\ allocated' = allocated \ {node}
    BY <1>0, <1>8 DEF remove_event
  <2>3. mem[node].ev_next \in Cells \cup {Null} /\ node \in Cells
    BY <1>2, <1>3, <2>1 DEF Cell
  <2>4. \A x \in Cell, y \in Cells \cup {Null} :
          /\ [x EXCEPT !.ev_next = y] \in Cell /\ [x EXCEPT !.ev_next = y].ev_next = y
          /\ [x EXCEPT !.ev_next = y].ev_id = x.ev_id
    BY DEF Cell
  <2>5. /\ mem' \in [Cells -> Cell] /\ first_event' \in Cells \cup {Null}
        /\ \A c \in L : mem'[c].ev_id = mem[c].ev_id
        /\ \A c \in L : c # node /\ c # prev => mem'[c].ev_next = mem[c].ev_next
        /\ prev = Null => first_event' = mem[node].ev_next
        /\ prev # Null => first_event' = first_event /\ mem'[prev].ev_next = mem[node].ev_next
    <3>1. CASE prev = Null
      <4>1. mem' = [mem EXCEPT ![node].ev_next = Null] /\ first_event' = mem[node].ev_next
        BY <2>2, <3>1 DEF Unlink
      <4> QED
        BY <1>2, <1>3, <2>3, <2>4, <3>1, <4>1
    <3>2. CASE prev # Null
      <4>1. prev \in L /\ prev \in Cells /\ mem[prev].ev_next = node
        BY <1>2, <2>1, <3>2
      <4>2. prev # node
        <5>1. mem[prev].ev_id < mem[node].ev_id /\ mem[prev].ev_id \in Int
          BY <1>1, <1>2, <2>1, <4>1 DEF Listed, ListOK
        <5> QED
          BY <5>1
      <4> DEFINE m1 == [mem EXCEPT ![prev].ev_next = mem[node].ev_next]
      <4>3. /\ m1 \in [Cells -> Cell] /\ m1[prev] = [mem[prev] EXCEPT !.ev_next = mem[node].ev_next]
            /\ \A c \in Cells : c # prev => m1[c] = mem[c]
        BY <1>3, <2>3, <2>4, <4>1
      <4>4. mem' = [m1 EXCEPT ![node].ev_next = Null] /\ first_event' = first_event
        BY <2>2, <3>2 DEF Unlink
      <4> HIDE DEF m1
      <4>5. /\ mem' \in [Cells -> Cell] /\ mem'[node] = [m1[node] EXCEPT !.ev_next = Null]
            /\ \A c \in Cells : c # node => mem'[c] = m1[c]
        BY <2>3, <2>4, <4>3, <4>4
      <4>6. \A c \in Cells : mem[c] \in Cell /\ m1[c] \in Cell
        BY <1>3, <4>3
      <4>7. m1[prev].ev_id = mem[prev].ev_id /\ m1[prev].ev_next = mem[node].ev_next
        BY <2>3, <2>4, <4>1, <4>3, <4>6
      <4>8. mem'[node].ev_id = m1[node].ev_id
        BY <2>3, <2>4, <4>5, <4>6
      <4>9. \A c \in Cells : m1[c].ev_id = mem[c].ev_id
        BY <4>3, <4>7
      <4>10. \A c \in Cells : mem'[c].ev_id = mem[c].ev_id
        BY <4>5, <4>8, <4>9
      <4>11. \A c \in Cells : c # node /\ c # prev => mem'[c] = mem[c]
        BY <4>3, <4>5
      <4>12. mem'[prev].ev_next = mem[node].ev_next
        BY <4>1, <4>2, <4>5, <4>7
      <4> QED
        BY <1>2, <1>3, <3>2, <4>4, <4>5, <4>10, <4>11, <4>12
    <3> QED
      BY <3>1, <3>2
  <2>6. \A c \in L : c # node => events'[mem[c].ev_id] = events[mem[c].ev_id]
    <3>1. \A c \in L : events[mem[c].ev_id] = c
      BY <1>1 DEF Listed, ListOK
    <3>2. \A c \in L : c # node => mem[c].ev_id # id
      BY <2>1, <3>1
    <3> QED
      BY <1>5, <1>6, <3>2
  <2>7. Null \notin L
    BY <1>2
  <2>8. Listed(L \ {node})'
    BY <1>1, <1>4, <2>1, <2>2, <2>5, <2>6, <2>7, Unlinked
  <2>9. TypeOK'
    BY <1>3, <1>4, <1>5, <2>2, <2>5 DEF TypeOK, Cell
  <2> QED
    BY <2>8, <2>9 DEF HlecInv
<1> QED
  BY <1>7, <1>8

LEMMA NamedCells == ASSUME HlecInv, NEW ev \in Named PROVE ev \in Cells \cup {Null}
<1>1. PICK L : Listed(L)
  BY DEF HlecInv
<1>2. TypeOK /\ L \subseteq Cells
  BY <1>1 DEF HlecInv, TypeOK, Listed, ListOK
<1>3. \A id : get_event_for_id(id) # Null => get_event_for_id(id) \in L
  BY <1>1, <1>2, FoundBefore
<1> QED
  BY <1>2, <1>3 DEF Named, TypeOK

LEMMA StoreStep ==
    ASSUME HlecInv, NEW ev \in Named, NEW field, NEW value \in BOOLEAN, Store(ev, field, value)
    PROVE  HlecInv'
<1>1. PICK L : Listed(L)
  BY DEF HlecInv
<1>2. ev \in Cells \cup {Null} /\ TypeOK /\ L \subseteq Cells /\ Null \notin Cells
  BY <1>1, NamedCells, HlecAssumption DEF HlecInv, TypeOK, Listed, ListOK
<1>3. mem \in [Cells -> Cell]
  BY <1>2 DEF TypeOK, Cell
<1>4. UNCHANGED <<allocated, first_event, last_event, last_id, events>> /\ result' = "none"
  BY DEF Store
<1>5. \A x \in Cell : LET y == [x EXCEPT !.quiet = value]
                          z == [x EXCEPT !.callback = value]
                      IN  /\ y \in Cell /\ y.ev_id = x.ev_id /\ y.ev_next = x.ev_next
                          /\ z \in Cell /\ z.ev_id = x.ev_id /\ z.ev_next = x.ev_next
  BY DEF Cell
<1>6. /\ mem' \in [Cells -> Cell]
      /\ \A c \in Cells : mem'[c].ev_id = mem[c].ev_id /\ mem'[c].ev_next = mem[c].ev_next
  <2>1. CASE ev = Null
    BY <1>3, <2>1 DEF Store
  <2>2. CASE ev # Null /\ field = "quiet"
    <3>1. mem' = [mem EXCEPT ![ev].quiet = value] /\ ev \in Cells
      BY <1>2, <2>2 DEF Store
    <3> QED
      BY <1>3, <1>5, <3>1
  <2>3. CASE ev # Null /\ field # "quiet"
    <3>1. mem' = [mem EXCEPT ![ev].callback = value] /\ ev \in Cells
      BY <1>2, <2>3 DEF Store
    <3> QED
      BY <1>3, <1>5, <3>1
  <2> QED
    BY <2>1, <2>2, <2>3
<1>7. Listed(L)'
  BY <1>1, <1>2, <1>4, <1>6, SameLinks
<1>8. TypeOK'
  BY <1>2, <1>4, <1>6 DEF TypeOK, Cell
<1> QED
  BY <1>7, <1>8 DEF HlecInv

LEMMA HlecInitOK == Init => HlecInv
<1> SUFFICES ASSUME Init PROVE HlecInv
  OBVIOUS
<1>1. Listed({})
  BY DEF Init, Listed, ListOK
<1>2. TypeOK
  BY HlecAssumption DEF Init, TypeOK, Fresh, Ids
<1> QED
  BY <1>1, <1>2 DEF HlecInv

LEMMA HlecStep == HlecInv /\ [Next]_vars => HlecInv'
<1> SUFFICES ASSUME HlecInv, [Next]_vars PROVE HlecInv'
  OBVIOUS
<1>1. CASE new_event
  BY <1>1, NewStep
<1>2. ASSUME NEW id \in 0 .. (last_id - 1), remove_event(id) PROVE HlecInv'
  BY <1>2, RemoveStep
<1>3. ASSUME NEW ev \in Named,
             register_event_callback(ev) \/ set_event_quiet(ev) \/ unset_event_quiet(ev)
      PROVE  HlecInv'
  BY <1>3, StoreStep DEF register_event_callback, set_event_quiet, unset_event_quiet
<1>4. ASSUME UNCHANGED <<mem, allocated, first_event, last_event, last_id, events>>,
             result' \in {"none", "failed", "ran"}
      PROVE  HlecInv'
  <2>1. PICK L : Listed(L)
    BY DEF HlecInv
  <2>2. Listed(L)' /\ TypeOK'
    BY <1>4, <2>1 DEF Listed, HlecInv, TypeOK
  <2> QED
    BY <2>2 DEF HlecInv
<1>5. ASSUME NEW ev \in Named, raise_event(ev) PROVE HlecInv'
  BY <1>4, <1>5 DEF raise_event
<1>6. CASE UNCHANGED vars
  BY <1>4, <1>6 DEF vars, HlecInv, TypeOK
<1> QED
  BY <1>1, <1>2, <1>3, <1>5, <1>6 DEF Next

\* For any memory and any number of events, created and removed in any order: every
\* walk of hlec.cpp ends in allocated memory, and an id finds its own event or none,
\* although last_event is left pointing to cells that were freed and are written to.
THEOREM WalksAreSafe == Spec => []EventsAreSound
<1>1. HlecInv => EventsAreSound
  BY ListIsSound
<1> QED
  BY <1>1, HlecInitOK, HlecStep, PTL DEF Spec

(***************************************************************************)
(* The page tables.  First the digits of a page number: they lie in a      *)
(* table, and they tell pages apart.                                       *)
(***************************************************************************)
LEMMA DigitAndRest ==
  ASSUME NEW v \in Nat
  PROVE  /\ Larger(v) \in Nat /\ PT_IDX(v) \in Indices
         /\ v = TableEntries * Larger(v) + PT_IDX(v)
<1> DEFINE e == TableEntries
<1>1. e \in Nat /\ e > 0
  BY VmmAssumption
<1>2. v \div e \in Nat /\ v % e \in 0 .. e - 1 /\ v = e * (v \div e) + (v % e)
  BY <1>1
<1> QED
  BY <1>2 DEF Larger, PT_IDX, Indices

\* A larger page is numbered below the count of the larger pages.
LEMMA LargerIsBelow ==
  ASSUME NEW v \in Nat, NEW m \in Nat, v < TableEntries * m
  PROVE  Larger(v) \in Nat /\ Larger(v) < m
<1> DEFINE e == TableEntries
           q == Larger(v)
           d == PT_IDX(v)
<1>1. e \in Nat /\ e > 0
  BY VmmAssumption
<1>2. q \in Nat /\ d \in 0 .. e - 1 /\ v = e * q + d
  BY DigitAndRest DEF Indices
<1> HIDE DEF e, q, d
<1>3. SUFFICES ASSUME q >= m PROVE FALSE
  BY <1>2 DEF q
<1>4. e * q >= e * m
  BY <1>1, <1>2, <1>3
<1>5. v < e * m
  BY DEF e
<1>6. e * q \in Nat /\ e * m \in Nat
  BY <1>1, <1>2
<1> QED
  BY <1>2, <1>4, <1>5, <1>6

\* There are pages in both halves of the address space.
LEMMA PagesAreCounted ==
  /\ NumPages \in Nat /\ HigherHalf \in Nat /\ HigherHalf > 0 /\ HigherHalf + HigherHalf <= NumPages
<1> DEFINE e == TableEntries
           a == e * e
           b == e * a
           c == e * b
<1>1. e \in Nat /\ e > 1
  BY VmmAssumption
<1>2. a \in Nat /\ a > 1
  BY <1>1
<1> HIDE DEF a
<1>3. b \in Nat /\ b > 1
  BY <1>1, <1>2
<1> HIDE DEF b
<1>4. c \in Nat /\ c > 1
  BY <1>1, <1>3
<1>5. c = NumPages
  BY DEF c, b, a, NumPages
<1> HIDE DEF c, e
<1> QED
  BY <1>4, <1>5 DEF HigherHalf

\* Every digit is an index into a table.
LEMMA IndicesOfPages ==
  ASSUME NEW v \in Nat
  PROVE  /\ PML4_IDX(v) \in Indices /\ PDPT_IDX(v) \in Indices
         /\ PD_IDX(v) \in Indices /\ PT_IDX(v) \in Indices
<1>1. /\ Larger(v) \in Nat /\ Larger(Larger(v)) \in Nat
      /\ Larger(Larger(Larger(v))) \in Nat
  BY DigitAndRest
<1> QED
  BY <1>1, DigitAndRest DEF PML4_IDX, PDPT_IDX, PD_IDX

\* Two pages with the same four indices are one page.
LEMMA IndicesTellPagesApart ==
  ASSUME NEW v \in VPages, NEW w \in VPages,
         PML4_IDX(v) = PML4_IDX(w), PDPT_IDX(v) = PDPT_IDX(w),
         PD_IDX(v) = PD_IDX(w), PT_IDX(v) = PT_IDX(w)
  PROVE  v = w
<1> DEFINE e == TableEntries
           L2(x) == Larger(Larger(x))
           L3(x) == Larger(Larger(Larger(x)))
<1>1. e \in Nat /\ e > 1
  BY VmmAssumption
<1>2. ASSUME NEW x \in VPages
      PROVE  /\ x \in Nat /\ Larger(x) \in Nat /\ L2(x) \in Nat /\ L3(x) \in Nat
             /\ PML4_IDX(x) = L3(x)
             /\ L2(x) = e * L3(x) + PDPT_IDX(x)
             /\ Larger(x) = e * L2(x) + PD_IDX(x)
             /\ x = e * Larger(x) + PT_IDX(x)
  <2>1. x \in Nat /\ x < e * (e * (e * e))
    BY PagesAreCounted DEF VPages, NumPages
  <2>2. e * e \in Nat
    BY <1>1
  <2>3. e * (e * e) \in Nat
    BY <1>1, <2>2
  <2>4. Larger(x) \in Nat /\ Larger(x) < e * (e * e)
    BY <2>1, <2>3, LargerIsBelow
  <2>5. L2(x) \in Nat /\ L2(x) < e * e
    BY <2>4, <2>2, LargerIsBelow
  <2>6. L3(x) \in Nat /\ L3(x) < e
    BY <2>5, <1>1, LargerIsBelow
  <2>7. PT_IDX(L3(x)) = L3(x)
    BY <2>6, <1>1 DEF PT_IDX
  <2> QED
    BY <2>1, <2>4, <2>5, <2>6, <2>7, DigitAndRest DEF PML4_IDX, PDPT_IDX, PD_IDX
<1>3. L3(v) = L3(w)
  BY <1>2
<1>4. L2(v) = L2(w)
  BY <1>2, <1>3
<1>5. Larger(v) = Larger(w)
  BY <1>2, <1>4
<1> QED
  BY <1>2, <1>5

(***************************************************************************)
(* The shape of the tables: every table in use has a level, entries lead   *)
(* one level down, and no two entries lead to the same table.              *)
(***************************************************************************)
EntryType == [frame : Frames, user : BOOLEAN, low : 0 .. PageBytes - 1, present : BOOLEAN]
TableType == [Frames -> [Indices -> EntryType]]

InUse(free) == Roots \cup (FreeAtStart \ free)

\* An entry of a table above the last level that leads to a table.
EntryLeads(tab, lev, f, i) == lev[f] > 0 /\ tab[f][i].present

LinksGoDown(tab, free, lev) ==
  \A f \in InUse(free), i \in Indices : EntryLeads(tab, lev, f, i) =>
    tab[f][i].frame \in FreeAtStart \ free /\ lev[tab[f][i].frame] = lev[f] - 1

LinksAreApart(tab, free, lev) ==
  \A f \in InUse(free), g \in InUse(free), i \in Indices, j \in Indices :
    EntryLeads(tab, lev, f, i) /\ EntryLeads(tab, lev, g, j) /\ tab[f][i].frame = tab[g][j].frame =>
      f = g /\ i = j

AllAreLinked(tab, free, lev) ==
  \A f \in FreeAtStart \ free : \E g \in InUse(free), i \in Indices :
    EntryLeads(tab, lev, g, i) /\ tab[g][i].frame = f

LevelsFit(free, lev) ==
  lev \in [Frames -> 0 .. 3] /\ \A f \in InUse(free) : lev[f] = 3 <=> f \in Roots

Shape(tab, free, lev) ==
  /\ tab \in TableType /\ free \subseteq FreeAtStart
  /\ LevelsFit(free, lev) /\ LinksGoDown(tab, free, lev)
  /\ LinksAreApart(tab, free, lev) /\ AllAreLinked(tab, free, lev)

Follow(tab, e, idx) == IF e.present THEN tab[e.frame][idx] ELSE NotPresent
Entry3(tab, r, v) == tab[r][PML4_IDX(v)]
Entry2(tab, r, v) == Follow(tab, Entry3(tab, r, v), PDPT_IDX(v))
Entry1(tab, r, v) == Follow(tab, Entry2(tab, r, v), PD_IDX(v))
Entry0(tab, r, v) == Follow(tab, Entry1(tab, r, v), PT_IDX(v))

\* A walk from a root meets tables of levels 2, 1 and 0, each in use.
LEMMA WalkGoesDown ==
  ASSUME NEW tab, NEW free, NEW lev, Shape(tab, free, lev),
         NEW r \in Roots, NEW v \in VPages
  PROVE  /\ r \in InUse(free) /\ lev[r] = 3
         /\ Entry3(tab, r, v).present =>
              /\ Entry3(tab, r, v).frame \in InUse(free) /\ lev[Entry3(tab, r, v).frame] = 2
              /\ Entry2(tab, r, v) = tab[Entry3(tab, r, v).frame][PDPT_IDX(v)]
         /\ Entry2(tab, r, v).present =>
              /\ Entry3(tab, r, v).present
              /\ Entry2(tab, r, v).frame \in InUse(free) /\ lev[Entry2(tab, r, v).frame] = 1
              /\ Entry1(tab, r, v) = tab[Entry2(tab, r, v).frame][PD_IDX(v)]
         /\ Entry1(tab, r, v).present =>
              /\ Entry2(tab, r, v).present
              /\ Entry1(tab, r, v).frame \in InUse(free) /\ lev[Entry1(tab, r, v).frame] = 0
              /\ Entry0(tab, r, v) = tab[Entry1(tab, r, v).frame][PT_IDX(v)]
<1> USE DEF Shape
<1>1. v \in Nat
  BY PagesAreCounted DEF VPages
<1>2. /\ PML4_IDX(v) \in Indices /\ PDPT_IDX(v) \in Indices
      /\ PD_IDX(v) \in Indices /\ PT_IDX(v) \in Indices
  BY <1>1, IndicesOfPages
<1>3. r \in InUse(free) /\ lev[r] = 3
  BY DEF InUse, LevelsFit
<1>4. ~NotPresent.present
  BY DEF NotPresent
<1>5. FreeAtStart \ free \subseteq InUse(free)
  BY DEF InUse
<1>6. ASSUME NEW f \in InUse(free), NEW i \in Indices, NEW k \in {1, 2, 3}, lev[f] = k,
             tab[f][i].present
      PROVE  tab[f][i].frame \in InUse(free) /\ lev[tab[f][i].frame] = k - 1
  BY <1>5, <1>6 DEF LinksGoDown, EntryLeads
<1>7. Entry3(tab, r, v).present =>
              /\ Entry3(tab, r, v).frame \in InUse(free) /\ lev[Entry3(tab, r, v).frame] = 2
              /\ Entry2(tab, r, v) = tab[Entry3(tab, r, v).frame][PDPT_IDX(v)]
  BY <1>2, <1>3, <1>6 DEF Entry3, Entry2, Follow
<1>8. Entry2(tab, r, v).present =>
              /\ Entry3(tab, r, v).present
              /\ Entry2(tab, r, v).frame \in InUse(free) /\ lev[Entry2(tab, r, v).frame] = 1
              /\ Entry1(tab, r, v) = tab[Entry2(tab, r, v).frame][PD_IDX(v)]
  <2>1. SUFFICES ASSUME Entry2(tab, r, v).present
                 PROVE /\ Entry3(tab, r, v).present
              /\ Entry2(tab, r, v).frame \in InUse(free) /\ lev[Entry2(tab, r, v).frame] = 1
              /\ Entry1(tab, r, v) = tab[Entry2(tab, r, v).frame][PD_IDX(v)]
    OBVIOUS
  <2>2. Entry3(tab, r, v).present
    BY <1>4, <2>1 DEF Entry2, Follow
  <2> QED
    BY <1>2, <1>6, <1>7, <2>1, <2>2 DEF Entry1, Follow
<1>9. Entry1(tab, r, v).present =>
              /\ Entry2(tab, r, v).present
              /\ Entry1(tab, r, v).frame \in InUse(free) /\ lev[Entry1(tab, r, v).frame] = 0
              /\ Entry0(tab, r, v) = tab[Entry1(tab, r, v).frame][PT_IDX(v)]
  <2>1. SUFFICES ASSUME Entry1(tab, r, v).present
                 PROVE /\ Entry2(tab, r, v).present
              /\ Entry1(tab, r, v).frame \in InUse(free) /\ lev[Entry1(tab, r, v).frame] = 0
              /\ Entry0(tab, r, v) = tab[Entry1(tab, r, v).frame][PT_IDX(v)]
    OBVIOUS
  <2>2. Entry2(tab, r, v).present
    BY <1>4, <2>1 DEF Entry1, Follow
  <2> QED
    BY <1>2, <1>6, <1>8, <2>1, <2>2 DEF Entry0, Follow
<1> QED
  BY <1>3, <1>7, <1>8, <1>9

\* Two walks that reach the same entry of a last table are the same.
LEMMA WalksAreApart ==
  ASSUME NEW tab, NEW free, NEW lev, Shape(tab, free, lev),
         NEW r \in Roots, NEW v \in VPages, NEW q \in Roots, NEW w \in VPages,
         Entry1(tab, r, v).present, Entry1(tab, q, w).present,
         Entry1(tab, r, v).frame = Entry1(tab, q, w).frame, PT_IDX(v) = PT_IDX(w)
  PROVE  r = q /\ v = w
<1>1. /\ PML4_IDX(v) \in Indices /\ PDPT_IDX(v) \in Indices /\ PD_IDX(v) \in Indices
      /\ PML4_IDX(w) \in Indices /\ PDPT_IDX(w) \in Indices /\ PD_IDX(w) \in Indices
  <2>1. v \in Nat /\ w \in Nat
    BY PagesAreCounted DEF VPages
  <2> QED
    BY <2>1, IndicesOfPages
<1> DEFINE e3 == Entry3(tab, r, v)
           e2 == Entry2(tab, r, v)
           e1 == Entry1(tab, r, v)
           d3 == Entry3(tab, q, w)
           d2 == Entry2(tab, q, w)
           d1 == Entry1(tab, q, w)
<1>2. /\ r \in InUse(free) /\ lev[r] > 0 /\ q \in InUse(free) /\ lev[q] > 0
      /\ e3.frame \in InUse(free) /\ lev[e3.frame] > 0 /\ d3.frame \in InUse(free) /\ lev[d3.frame] > 0
      /\ e2.frame \in InUse(free) /\ lev[e2.frame] > 0 /\ d2.frame \in InUse(free) /\ lev[d2.frame] > 0
  BY WalkGoesDown
<1>3. /\ e3.present /\ e2.present /\ e1.present /\ d3.present /\ d2.present /\ d1.present
      /\ e2 = tab[e3.frame][PDPT_IDX(v)] /\ d2 = tab[d3.frame][PDPT_IDX(w)]
      /\ e1 = tab[e2.frame][PD_IDX(v)] /\ d1 = tab[d2.frame][PD_IDX(w)]
      /\ e3 = tab[r][PML4_IDX(v)] /\ d3 = tab[q][PML4_IDX(w)]
  BY WalkGoesDown DEF Entry3
<1>4. ASSUME NEW f \in InUse(free), NEW g \in InUse(free), NEW i \in Indices, NEW j \in Indices,
             lev[f] > 0, lev[g] > 0, tab[f][i].present, tab[g][j].present,
             tab[f][i].frame = tab[g][j].frame
      PROVE  f = g /\ i = j
  BY <1>4 DEF Shape, LinksAreApart, EntryLeads
<1>5. e1.frame = d1.frame
  OBVIOUS
<1>6. e2.frame = d2.frame /\ PD_IDX(v) = PD_IDX(w)
  <2>1. /\ tab[e2.frame][PD_IDX(v)].present /\ tab[d2.frame][PD_IDX(w)].present
        /\ tab[e2.frame][PD_IDX(v)].frame = tab[d2.frame][PD_IDX(w)].frame
    BY <1>3, <1>5, Zenon
  <2> QED
    BY <1>1, <1>2, <1>4, <2>1
<1>7. e3.frame = d3.frame /\ PDPT_IDX(v) = PDPT_IDX(w)
  <2>1. /\ tab[e3.frame][PDPT_IDX(v)].present /\ tab[d3.frame][PDPT_IDX(w)].present
        /\ tab[e3.frame][PDPT_IDX(v)].frame = tab[d3.frame][PDPT_IDX(w)].frame
    BY <1>3, <1>6, Zenon
  <2> QED
    BY <1>1, <1>2, <1>4, <2>1
<1>8. r = q /\ PML4_IDX(v) = PML4_IDX(w)
  <2>1. /\ tab[r][PML4_IDX(v)].present /\ tab[q][PML4_IDX(w)].present
        /\ tab[r][PML4_IDX(v)].frame = tab[q][PML4_IDX(w)].frame
    BY <1>3, <1>7, Zenon
  <2> QED
    BY <1>1, <1>2, <1>4, <2>1
<1> QED
  BY <1>6, <1>7, <1>8, IndicesTellPagesApart

\* The frames in use are frames, and none of them is free.
LEMMA FramesInUse ==
  ASSUME NEW free, free \subseteq FreeAtStart
  PROVE  /\ InUse(free) \subseteq Frames /\ free \subseteq Frames /\ Roots \subseteq InUse(free)
         /\ FreeAtStart \ free \subseteq InUse(free) /\ free \cap InUse(free) = {}
         /\ \A f \in free : InUse(free \ {f}) = InUse(free) \cup {f}
                             /\ FreeAtStart \ (free \ {f}) = (FreeAtStart \ free) \cup {f}
BY VmmAssumption DEF InUse

\* The entries that the code writes have the type of an entry.
LEMMA EntryTypes ==
  /\ NotPresent \in EntryType /\ EmptyTable \in [Indices -> EntryType]
  /\ \A f \in Frames, u \in BOOLEAN, low \in 0 .. PageBytes - 1 : Entry(f, u, low) \in EntryType
  /\ 0 \in Frames /\ 0 \in 0 .. PageBytes - 1
<1>1. 0 \in Frames /\ 0 \in 0 .. PageBytes - 1
  BY PagesAreCounted, VmmAssumption DEF Frames
<1> QED
  BY <1>1 DEF NotPresent, EmptyTable, Entry, EntryType

\* A new table below an entry that was not present.
Created(tab, f, up, idx, user) ==
  [tab EXCEPT ![f] = EmptyTable, ![up][idx] = Entry(f, user, 0)]

\* What a new table changes: itself, and the entry that leads to it.
LEMMA CreatedTables ==
  ASSUME NEW tab \in TableType, NEW f \in Frames, NEW up \in Frames, f # up,
         NEW idx \in Indices, NEW user \in BOOLEAN
  PROVE  /\ Created(tab, f, up, idx, user) \in TableType
         /\ Created(tab, f, up, idx, user)[f] = EmptyTable
         /\ Created(tab, f, up, idx, user)[up][idx] = Entry(f, user, 0)
         /\ \A g \in Frames, i \in Indices : g # f /\ (g # up \/ i # idx) =>
              Created(tab, f, up, idx, user)[g][i] = tab[g][i]
BY EntryTypes DEF Created, TableType

\* The shape survives a new, zeroed table below an entry that was absent.
LEMMA CreatedShape ==
  ASSUME NEW tab, NEW free, NEW lev, Shape(tab, free, lev),
         NEW up \in InUse(free), lev[up] > 0, NEW idx \in Indices, NEW user \in BOOLEAN,
         ~tab[up][idx].present, NEW f \in free
  PROVE  Shape(Created(tab, f, up, idx, user), free \ {f}, [lev EXCEPT ![f] = lev[up] - 1])
<1> DEFINE new == Created(tab, f, up, idx, user)
           l2 == [lev EXCEPT ![f] = lev[up] - 1]
           fr == free \ {f}
<1>1. /\ tab \in TableType /\ free \subseteq FreeAtStart /\ lev \in [Frames -> 0 .. 3]
      /\ \A g \in InUse(free) : lev[g] = 3 <=> g \in Roots
  BY DEF Shape, LevelsFit
<1>2. /\ InUse(free) \subseteq Frames /\ f \in Frames /\ f \notin InUse(free) /\ f # up /\ f \in FreeAtStart
      /\ InUse(fr) = InUse(free) \cup {f} /\ FreeAtStart \ fr = (FreeAtStart \ free) \cup {f}
      /\ FreeAtStart \ free \subseteq InUse(free) /\ fr \subseteq FreeAtStart
  BY <1>1, FramesInUse
<1>3. /\ new \in TableType /\ new[f] = EmptyTable /\ new[up][idx] = Entry(f, user, 0)
      /\ \A g \in InUse(free), i \in Indices : g # up \/ i # idx => new[g][i] = tab[g][i]
  BY <1>1, <1>2, CreatedTables
<1>4. /\ l2 \in [Frames -> 0 .. 3] /\ l2[f] = lev[up] - 1
      /\ \A g \in InUse(free) : l2[g] = lev[g]
  BY <1>1, <1>2
<1>5. /\ \A i \in Indices : ~EmptyTable[i].present
      /\ Entry(f, user, 0).present /\ Entry(f, user, 0).frame = f
  BY DEF EmptyTable, NotPresent, Entry
<1> HIDE DEF new, l2, fr
<1>6. LevelsFit(fr, l2)
  <2>1. f \notin Roots
    BY <1>2 DEF InUse
  <2>2. lev[up] \in 0 .. 3
    BY <1>1, <1>2
  <2>3. l2[f] # 3
    BY <1>4, <2>2
  <2> QED
    BY <1>1, <1>2, <1>4, <2>1, <2>3 DEF LevelsFit
\* The links there are now: those there were, and the new one.
<1>7. ASSUME NEW g \in InUse(fr), NEW i \in Indices, EntryLeads(new, l2, g, i)
      PROVE  /\ g \in InUse(free)
             /\ \/ g = up /\ i = idx /\ new[g][i].frame = f
                \/ EntryLeads(tab, lev, g, i) /\ new[g][i] = tab[g][i]
  <2>1. g # f
    BY <1>3, <1>5, <1>7 DEF EntryLeads
  <2>2. g \in InUse(free)
    BY <1>2, <2>1
  <2>3. CASE g = up /\ i = idx
    BY <1>3, <1>5, <2>2, <2>3
  <2>4. CASE g # up \/ i # idx
    <3>1. new[g][i] = tab[g][i] /\ l2[g] = lev[g]
      BY <1>3, <1>4, <2>2, <2>4
    <3> QED
      BY <1>7, <2>2, <3>1 DEF EntryLeads
  <2> QED
    BY <2>3, <2>4
<1>8. \A g \in InUse(free), i \in Indices : EntryLeads(tab, lev, g, i) =>
        EntryLeads(new, l2, g, i) /\ new[g][i] = tab[g][i]
  BY <1>3, <1>4 DEF EntryLeads
<1>9. EntryLeads(new, l2, up, idx) /\ new[up][idx].frame = f
  BY <1>3, <1>4, <1>5 DEF EntryLeads
<1>10. \A g \in InUse(free), i \in Indices : EntryLeads(tab, lev, g, i) =>
         tab[g][i].frame \in FreeAtStart \ free /\ lev[tab[g][i].frame] = lev[g] - 1
  BY DEF Shape, LinksGoDown
<1>11. LinksGoDown(new, fr, l2)
  <2> SUFFICES ASSUME NEW g \in InUse(fr), NEW i \in Indices, EntryLeads(new, l2, g, i)
               PROVE  new[g][i].frame \in FreeAtStart \ fr /\ l2[new[g][i].frame] = l2[g] - 1
    BY DEF LinksGoDown
  <2>1. CASE g = up /\ i = idx /\ new[g][i].frame = f
    BY <1>2, <1>4, <2>1
  <2>2. CASE EntryLeads(tab, lev, g, i) /\ new[g][i] = tab[g][i]
    BY <1>2, <1>4, <1>7, <1>10, <2>2
  <2> QED
    BY <1>7, <2>1, <2>2
<1>12. LinksAreApart(new, fr, l2)
  <2> SUFFICES ASSUME NEW g \in InUse(fr), NEW h \in InUse(fr), NEW i \in Indices, NEW j \in Indices,
                      EntryLeads(new, l2, g, i), EntryLeads(new, l2, h, j), new[g][i].frame = new[h][j].frame
               PROVE  g = h /\ i = j
    BY DEF LinksAreApart
  <2>1. f \notin FreeAtStart \ free
    BY <1>2
  <2>2. g \in InUse(free) /\ h \in InUse(free)
    BY <1>7
  <2>3. CASE EntryLeads(tab, lev, g, i) /\ new[g][i] = tab[g][i]
    <3>1. CASE EntryLeads(tab, lev, h, j) /\ new[h][j] = tab[h][j]
      BY <2>2, <2>3, <3>1 DEF Shape, LinksAreApart
    <3>2. CASE h = up /\ j = idx /\ new[h][j].frame = f
      BY <1>10, <2>1, <2>2, <2>3, <3>2
    <3> QED
      BY <1>7, <3>1, <3>2
  <2>4. CASE g = up /\ i = idx /\ new[g][i].frame = f
    <3>1. CASE EntryLeads(tab, lev, h, j) /\ new[h][j] = tab[h][j]
      BY <1>10, <2>1, <2>2, <2>4, <3>1
    <3>2. CASE h = up /\ j = idx /\ new[h][j].frame = f
      BY <2>4, <3>2
    <3> QED
      BY <1>7, <3>1, <3>2
  <2> QED
    BY <1>7, <2>3, <2>4
<1>13. AllAreLinked(new, fr, l2)
  <2> SUFFICES ASSUME NEW g \in FreeAtStart \ fr
               PROVE  \E h \in InUse(fr), i \in Indices : EntryLeads(new, l2, h, i) /\ new[h][i].frame = g
    BY DEF AllAreLinked
  <2>1. CASE g = f
    BY <1>2, <1>9, <2>1
  <2>2. CASE g # f
    <3>1. PICK h \in InUse(free), i \in Indices : EntryLeads(tab, lev, h, i) /\ tab[h][i].frame = g
      BY <1>2, <2>2 DEF Shape, AllAreLinked
    <3> QED
      BY <1>2, <1>8, <3>1
  <2> QED
    BY <2>1, <2>2
<1>14. Shape(new, fr, l2)
  BY <1>2, <1>3, <1>6, <1>11, <1>12, <1>13 DEF Shape
<1> QED
  BY <1>14 DEF new, fr, l2

\* Creating a table changes what no walk finds.
LEMMA CreatedWalks ==
  ASSUME NEW tab, NEW free, NEW lev, Shape(tab, free, lev),
         NEW up \in InUse(free), lev[up] > 0, NEW idx \in Indices, NEW user \in BOOLEAN,
         ~tab[up][idx].present, NEW f \in free, NEW r \in Roots, NEW v \in VPages
  PROVE  Entry0(Created(tab, f, up, idx, user), r, v) = Entry0(tab, r, v)
<1> DEFINE new == Created(tab, f, up, idx, user)
<1>1. /\ tab \in TableType /\ free \subseteq FreeAtStart
  BY DEF Shape
<1>2. InUse(free) \subseteq Frames /\ f \in Frames /\ f \notin InUse(free) /\ f # up
  BY <1>1, FramesInUse
<1>3. /\ new[f] = EmptyTable /\ new[up][idx] = Entry(f, user, 0)
      /\ \A g \in InUse(free), i \in Indices : g # up \/ i # idx => new[g][i] = tab[g][i]
  BY <1>1, <1>2, CreatedTables
<1>4. /\ PML4_IDX(v) \in Indices /\ PDPT_IDX(v) \in Indices
      /\ PD_IDX(v) \in Indices /\ PT_IDX(v) \in Indices
  <2>1. v \in Nat
    BY PagesAreCounted DEF VPages
  <2> QED
    BY <2>1, IndicesOfPages
\* Following an entry that was not there ends in nothing, before and after.
<1>5. /\ \A i \in Indices : EmptyTable[i] = NotPresent
      /\ ~NotPresent.present /\ Entry(f, user, 0).present /\ Entry(f, user, 0).frame = f
  BY DEF EmptyTable, NotPresent, Entry
<1> HIDE DEF new
<1>6. \A i \in Indices : Follow(new, new[up][idx], i) = NotPresent
                         /\ Follow(tab, tab[up][idx], i) = NotPresent
  BY <1>3, <1>5 DEF Follow
<1>7. \A i \in Indices : Follow(new, NotPresent, i) = NotPresent /\ Follow(tab, NotPresent, i) = NotPresent
  BY <1>5 DEF Follow
<1> DEFINE a3 == Entry3(tab, r, v)
           a2 == Entry2(tab, r, v)
           a1 == Entry1(tab, r, v)
           b3 == Entry3(new, r, v)
           b2 == Entry2(new, r, v)
           b1 == Entry1(new, r, v)
<1>8. r \in InUse(free)
  BY WalkGoesDown
<1>9. CASE r = up /\ PML4_IDX(v) = idx
  <2>1. a2 = NotPresent /\ b2 = NotPresent
    BY <1>4, <1>6, <1>9 DEF Entry2, Entry3
  <2>2. a1 = NotPresent /\ b1 = NotPresent
    BY <1>4, <1>7, <2>1 DEF Entry1
  <2> QED
    BY <1>4, <1>7, <2>2 DEF Entry0, new
<1>10. CASE ~(r = up /\ PML4_IDX(v) = idx)
  <2>1. b3 = a3
    BY <1>3, <1>4, <1>8, <1>10 DEF Entry3
  <2>2. CASE ~a3.present
    <3>1. a2 = NotPresent /\ b2 = NotPresent
      BY <2>1, <2>2 DEF Entry2, Follow
    <3>2. a1 = NotPresent /\ b1 = NotPresent
      BY <1>4, <1>7, <3>1 DEF Entry1
    <3> QED
      BY <1>4, <1>7, <3>2 DEF Entry0, new
  <2>3. CASE a3.present /\ a3.frame = up /\ PDPT_IDX(v) = idx
    <3>1. a2 = tab[up][idx] /\ b2 = new[up][idx]
      BY <2>1, <2>3 DEF Entry2, Follow
    <3>2. a1 = NotPresent /\ b1 = NotPresent
      BY <1>4, <1>6, <3>1 DEF Entry1
    <3> QED
      BY <1>4, <1>7, <3>2 DEF Entry0, new
  <2>4. CASE a3.present /\ ~(a3.frame = up /\ PDPT_IDX(v) = idx)
    <3>1. a3.frame \in InUse(free)
      BY <2>4, WalkGoesDown
    <3>2. b2 = a2
      BY <1>3, <1>4, <2>1, <2>4, <3>1 DEF Entry2, Follow
    <3>3. CASE ~a2.present
      <4>1. a1 = NotPresent /\ b1 = NotPresent
        BY <3>2, <3>3 DEF Entry1, Follow
      <4> QED
        BY <1>4, <1>7, <4>1 DEF Entry0, new
    <3>4. CASE a2.present /\ a2.frame = up /\ PD_IDX(v) = idx
      <4>1. a1 = tab[up][idx] /\ b1 = new[up][idx]
        BY <3>2, <3>4 DEF Entry1, Follow
      <4> QED
        BY <1>4, <1>6, <4>1 DEF Entry0, new
    <3>5. CASE a2.present /\ ~(a2.frame = up /\ PD_IDX(v) = idx)
      <4>1. a2.frame \in InUse(free)
        BY <3>5, WalkGoesDown
      <4>2. b1 = a1
        BY <1>3, <1>4, <3>2, <3>5, <4>1 DEF Entry1, Follow
      <4>3. CASE ~a1.present
        BY <4>2, <4>3 DEF Entry0, Follow, new
      <4>4. CASE a1.present
        <5>1. a1.frame \in InUse(free) /\ lev[a1.frame] = 0
          BY <4>4, WalkGoesDown
        <5>2. a1.frame # up
          BY <5>1
        <5>3. new[a1.frame][PT_IDX(v)] = tab[a1.frame][PT_IDX(v)]
          BY <1>3, <1>4, <5>1, <5>2
        <5> QED
          BY <4>2, <4>4, <5>3 DEF Entry0, Follow, new
      <4> QED
        BY <4>3, <4>4
    <3> QED
      BY <3>3, <3>4, <3>5
  <2> QED
    BY <2>2, <2>3, <2>4
<1> QED
  BY <1>9, <1>10

\* Writing an entry of a last table changes what one walk finds.
LeafWritten(tab, r, v, e) == [tab EXCEPT ![Entry1(tab, r, v).frame][PT_IDX(v)] = e]

\* Writing an entry of the last level keeps the shape and changes one walk.
LEMMA WriteLeaf ==
  ASSUME NEW tab, NEW free, NEW lev, Shape(tab, free, lev),
         NEW r \in Roots, NEW v \in VPages, Entry1(tab, r, v).present, NEW e \in EntryType
  PROVE  /\ Shape(LeafWritten(tab, r, v, e), free, lev) /\ Entry0(LeafWritten(tab, r, v, e), r, v) = e
         /\ \A q \in Roots, w \in VPages :
              q # r \/ w # v => Entry0(LeafWritten(tab, r, v, e), q, w) = Entry0(tab, q, w)
<1> DEFINE pt == Entry1(tab, r, v).frame
           k == PT_IDX(v)
           new == LeafWritten(tab, r, v, e)
<1>1. tab \in TableType /\ free \subseteq FreeAtStart
  BY DEF Shape
<1>2. pt \in InUse(free) /\ lev[pt] = 0 /\ pt \in Frames
  BY <1>1, WalkGoesDown, FramesInUse
<1>3. ASSUME NEW w \in VPages
      PROVE  /\ PML4_IDX(w) \in Indices /\ PDPT_IDX(w) \in Indices
             /\ PD_IDX(w) \in Indices /\ PT_IDX(w) \in Indices
  <2>1. w \in Nat
    BY PagesAreCounted DEF VPages
  <2> QED
    BY <2>1, IndicesOfPages
<1>4. /\ new \in TableType /\ new[pt][k] = e
      /\ \A g \in Frames, i \in Indices : g # pt \/ i # k => new[g][i] = tab[g][i]
  <2>1. k \in Indices /\ new = [tab EXCEPT ![pt][k] = e]
    BY <1>3 DEF LeafWritten
  <2>2. pt \in Frames
    BY <1>2
  <2> HIDE DEF pt, k
  <2>3. tab[pt] \in [Indices -> EntryType] /\ tab \in [Frames -> [Indices -> EntryType]]
    BY <1>1, <2>2 DEF TableType
  <2> DEFINE row == [tab[pt] EXCEPT ![k] = e]
  <2>4. /\ row \in [Indices -> EntryType] /\ row[k] = e
        /\ \A i \in Indices : i # k => row[i] = tab[pt][i]
    BY <2>1, <2>3
  <2>5. new = [tab EXCEPT ![pt] = row]
    BY <2>1
  <2> HIDE DEF row
  <2>6. new \in [Frames -> [Indices -> EntryType]] /\ new[pt] = row
        /\ \A g \in Frames : g # pt => new[g] = tab[g]
    BY <2>2, <2>3, <2>4, <2>5
  <2> QED
    BY <2>4, <2>6 DEF TableType
<1>5. InUse(free) \subseteq Frames /\ Roots \subseteq InUse(free)
  BY <1>1, FramesInUse
<1>6. \A g \in InUse(free), i \in Indices : lev[g] > 0 => new[g][i] = tab[g][i]
  BY <1>2, <1>4, <1>5
<1>7. Shape(new, free, lev)
  <2>1. \A g \in InUse(free), i \in Indices :
          /\ EntryLeads(new, lev, g, i) <=> EntryLeads(tab, lev, g, i)
          /\ EntryLeads(tab, lev, g, i) => new[g][i] = tab[g][i]
    BY <1>6 DEF EntryLeads
  <2>2. LinksGoDown(new, free, lev)
    BY <2>1 DEF Shape, LinksGoDown
  <2>3. LinksAreApart(new, free, lev)
    BY <2>1 DEF Shape, LinksAreApart
  <2>4. AllAreLinked(new, free, lev)
    <3> SUFFICES ASSUME NEW f \in FreeAtStart \ free
                 PROVE  \E g \in InUse(free), i \in Indices :
                          EntryLeads(new, lev, g, i) /\ new[g][i].frame = f
      BY DEF AllAreLinked
    <3>1. PICK g \in InUse(free), i \in Indices : EntryLeads(tab, lev, g, i) /\ tab[g][i].frame = f
      BY DEF Shape, AllAreLinked
    <3> QED
      BY <2>1, <3>1
  <2> QED
    BY <1>4, <2>2, <2>3, <2>4 DEF Shape
\* All entries above the last are as before.
<1>8. ASSUME NEW q \in Roots, NEW w \in VPages
      PROVE  /\ Entry1(new, q, w) = Entry1(tab, q, w)
             /\ Entry1(tab, q, w).present => Entry1(tab, q, w).frame \in InUse(free)
  <2>1. Entry3(new, q, w) = Entry3(tab, q, w)
    BY <1>3, <1>5, <1>6, WalkGoesDown DEF Entry3
  <2>2. Entry2(new, q, w) = Entry2(tab, q, w)
    <3>1. CASE ~Entry3(tab, q, w).present
      BY <2>1, <3>1 DEF Entry2, Follow
    <3>2. CASE Entry3(tab, q, w).present
      <4>1. Entry3(tab, q, w).frame \in InUse(free) /\ lev[Entry3(tab, q, w).frame] > 0
        BY <3>2, WalkGoesDown
      <4> QED
        BY <1>3, <1>6, <2>1, <4>1 DEF Entry2, Follow
    <3> QED
      BY <3>1, <3>2
  <2>3. Entry1(new, q, w) = Entry1(tab, q, w)
    <3>1. CASE ~Entry2(tab, q, w).present
      BY <2>2, <3>1 DEF Entry1, Follow
    <3>2. CASE Entry2(tab, q, w).present
      <4>1. Entry2(tab, q, w).frame \in InUse(free) /\ lev[Entry2(tab, q, w).frame] > 0
        BY <3>2, WalkGoesDown
      <4>2. new[Entry2(tab, q, w).frame][PD_IDX(w)] = tab[Entry2(tab, q, w).frame][PD_IDX(w)]
        BY <1>3, <1>6, <4>1
      <4>3. /\ Entry1(new, q, w) = new[Entry2(tab, q, w).frame][PD_IDX(w)]
            /\ Entry1(tab, q, w) = tab[Entry2(tab, q, w).frame][PD_IDX(w)]
        BY <2>2, <3>2 DEF Entry1, Follow
      <4> QED
        BY <4>2, <4>3
    <3> QED
      BY <3>1, <3>2
  <2> QED
    BY <2>3, WalkGoesDown
<1>9. Entry0(new, r, v) = e
  BY <1>4, <1>8 DEF Entry0, Follow
<1>10. ASSUME NEW q \in Roots, NEW w \in VPages, q # r \/ w # v
       PROVE  Entry0(new, q, w) = Entry0(tab, q, w)
  <2>1. CASE ~Entry1(tab, q, w).present
    BY <1>8, <2>1 DEF Entry0, Follow
  <2>2. CASE Entry1(tab, q, w).present
    <3>1. Entry1(tab, q, w).frame # pt \/ PT_IDX(w) # k
      BY <1>10, <2>2, WalksAreApart
    <3>2. new[Entry1(tab, q, w).frame][PT_IDX(w)] = tab[Entry1(tab, q, w).frame][PT_IDX(w)]
      <4>1. Entry1(tab, q, w).frame \in Frames
        BY <1>5, <1>8, <2>2
      <4> QED
        BY <1>3, <1>4, <3>1, <4>1
    <3> QED
      BY <1>8, <2>2, <3>2 DEF Entry0, Follow
  <2> QED
    BY <2>1, <2>2
<1> QED
  BY <1>7, <1>9, <1>10

(***************************************************************************)
(* get_or_create_table.                                                    *)
(***************************************************************************)
Structure == [tab : TableType, free : SUBSET FreeAtStart, at : Frames, ok : BOOLEAN]

\* What the tables keep from s to u: the links, and what every walk finds.
Extends(s, lev, u, lev2) ==
  /\ InUse(s.free) \subseteq InUse(u.free)
  /\ \A g \in InUse(s.free) : lev2[g] = lev[g]
  /\ \A g \in InUse(s.free), i \in Indices : EntryLeads(s.tab, lev, g, i) => u.tab[g][i] = s.tab[g][i]
  /\ \A r \in Roots, v \in VPages : Entry0(u.tab, r, v) = Entry0(s.tab, r, v)

\* The structure is at a table of level k, or nowhere.
Ready(s, lev, k) ==
  /\ s \in Structure /\ Shape(s.tab, s.free, lev)
  /\ s.ok => s.at \in InUse(s.free) /\ lev[s.at] = k

Leads(s, idx, u) ==
  u.ok => s.ok /\ u.tab[s.at][idx].present /\ u.tab[s.at][idx].frame = u.at

\* get_or_create_table goes one level down or fails, and changes no walk.
LEMMA OneLevelDown ==
  ASSUME NEW s, NEW lev, NEW k \in {1, 2, 3}, Ready(s, lev, k),
         NEW idx \in Indices, NEW user \in BOOLEAN
  PROVE  \E lev2 : /\ Ready(get_or_create_table(s, idx, user), lev2, k - 1)
                   /\ Extends(s, lev, get_or_create_table(s, idx, user), lev2)
                   /\ Leads(s, idx, get_or_create_table(s, idx, user))
<1> DEFINE u == get_or_create_table(s, idx, user)
<1>1. /\ s \in Structure /\ s.tab \in TableType /\ s.free \subseteq FreeAtStart /\ s.at \in Frames
      /\ s.ok \in BOOLEAN /\ lev \in [Frames -> 0 .. 3] /\ Shape(s.tab, s.free, lev)
  BY DEF Structure, Shape, LevelsFit, Ready
<1>0. s.ok => s.at \in InUse(s.free) /\ lev[s.at] = k /\ lev[s.at] > 0
  BY DEF Ready
<1>2. CASE ~s.ok
  <2>1. u = s
    BY <1>2 DEF get_or_create_table
  <2>2. Extends(s, lev, s, lev)
    BY DEF Extends
  <2>3. Ready(u, lev, k - 1) /\ Leads(s, idx, u)
    BY <1>1, <1>2, <2>1 DEF Ready, Leads
  <2> QED
    BY <2>1, <2>2, <2>3, SMTT(30)
<1>3. CASE s.ok /\ s.tab[s.at][idx].present
  <2>1. s.tab[s.at][idx].frame \in InUse(s.free) /\ lev[s.tab[s.at][idx].frame] = lev[s.at] - 1
    <3>1. EntryLeads(s.tab, lev, s.at, idx)
      BY <1>0, <1>3 DEF EntryLeads
    <3>2. FreeAtStart \ s.free \subseteq InUse(s.free)
      BY <1>1, FramesInUse, SMTT(30)
    <3> QED
      BY <1>0, <1>1, <1>3, <3>1, <3>2 DEF Shape, LinksGoDown
  <2>2. u = [s EXCEPT !.at = s.tab[s.at][idx].frame]
    BY <1>3 DEF get_or_create_table
  <2>3. s.tab[s.at][idx].frame \in Frames
    BY <1>1, <2>1, FramesInUse
  <2>4. /\ u \in Structure /\ u.tab = s.tab /\ u.free = s.free /\ u.ok = s.ok
        /\ u.at = s.tab[s.at][idx].frame
    BY <1>1, <2>2, <2>3 DEF Structure
  <2>5. Extends(s, lev, u, lev)
    BY <2>4 DEF Extends
  <2>6. Ready(u, lev, k - 1)
    BY <1>0, <1>1, <1>3, <2>1, <2>4 DEF Ready
  <2>7. Leads(s, idx, u)
    BY <1>3, <2>4 DEF Leads
  <2> QED
    BY <2>5, <2>6, <2>7
<1>4. CASE s.ok /\ ~s.tab[s.at][idx].present /\ s.free = {}
  <2>1. u = [s EXCEPT !.ok = FALSE]
    BY <1>4 DEF get_or_create_table
  <2>2. /\ u \in Structure /\ u.tab = s.tab /\ u.free = s.free /\ u.ok = FALSE
    BY <1>1, <2>1 DEF Structure
  <2>3. Extends(s, lev, u, lev)
    BY <2>2 DEF Extends
  <2>4. Ready(u, lev, k - 1) /\ Leads(s, idx, u)
    BY <1>1, <2>2 DEF Ready, Leads
  <2> QED
    BY <2>3, <2>4, SMTT(30)
<1>5. CASE s.ok /\ ~s.tab[s.at][idx].present /\ s.free # {}
  <2> DEFINE f == Min(s.free)
             new == Created(s.tab, f, s.at, idx, user)
             l2 == [lev EXCEPT ![f] = lev[s.at] - 1]
  <2>1. f \in s.free
    <3>1. Frames \subseteq Nat
      BY PagesAreCounted DEF Frames
    <3>2. s.free \subseteq Nat
      BY <1>1, <3>1, FramesInUse
    <3> QED
      BY <1>5, <3>2, SmallestOf
  <2>2. u = [tab |-> new, free |-> s.free \ {f}, at |-> f, ok |-> TRUE]
    BY <1>5 DEF get_or_create_table, Created
  <2> HIDE DEF f
  <2>3. /\ f \in Frames /\ f \notin InUse(s.free) /\ InUse(s.free \ {f}) = InUse(s.free) \cup {f}
        /\ f # s.at /\ InUse(s.free) \subseteq Frames
    BY <1>0, <1>1, <1>5, <2>1, FramesInUse
  <2>4. Shape(new, s.free \ {f}, l2)
    BY <1>0, <1>1, <1>5, <2>1, CreatedShape
  <2>5. /\ new \in TableType /\ new[s.at][idx] = Entry(f, user, 0)
        /\ \A g \in InUse(s.free), i \in Indices : g # s.at \/ i # idx => new[g][i] = s.tab[g][i]
    BY <1>1, <2>3, CreatedTables, SMTT(30)
  <2>6. \A r \in Roots, v \in VPages : Entry0(new, r, v) = Entry0(s.tab, r, v)
    BY <1>0, <1>1, <1>5, <2>1, CreatedWalks
  <2>7. l2[f] = lev[s.at] - 1 /\ \A g \in InUse(s.free) : l2[g] = lev[g]
    BY <1>1, <2>3
  <2> HIDE DEF new, l2
  <2>8. u.tab = new /\ u.free = s.free \ {f} /\ u.at = f /\ u.ok = TRUE /\ u \in Structure
    BY <1>1, <2>2, <2>3, <2>5 DEF Structure
  <2>9. new[s.at][idx].present /\ new[s.at][idx].frame = f
    BY <2>5 DEF Entry
  <2>10. \A g \in InUse(s.free), i \in Indices : EntryLeads(s.tab, lev, g, i) => new[g][i] = s.tab[g][i]
    BY <1>5, <2>5 DEF EntryLeads
  <2>11. Extends(s, lev, u, l2)
    BY <2>3, <2>6, <2>7, <2>8, <2>10 DEF Extends
  <2>12. Ready(u, l2, k - 1)
    BY <1>0, <1>5, <2>3, <2>4, <2>7, <2>8 DEF Ready
  <2>13. Leads(s, idx, u)
    BY <1>5, <2>8, <2>9 DEF Leads
  <2> QED
    BY <2>11, <2>12, <2>13
<1> QED
  BY <1>1, <1>2, <1>3, <1>4, <1>5

(***************************************************************************)
(* The invariant, and the steps.                                           *)
(***************************************************************************)
MmapCalls == [op : {"mmap"}, pa : Nat, va : Nat, low : 0 .. PageBytes - 1, left : Nat, user : BOOLEAN]
MapCalls == [op : {"uacpi_map"}, pa : Nat, va : Nat, low : 0 .. PageBytes - 1, left : Nat,
             user : BOOLEAN, addr : MapAddrs, len : MapLens]
UnmapCalls == [op : {"munmap"}, va : Nat, left : Nat]

\* The pages and frames that a call has left to do exist.
CallFits(c) ==
  \/ c = Idle
  \/ c \in MmapCalls \cup MapCalls /\ c.pa + c.left <= HigherHalf /\ c.va + c.left <= NumPages
  \/ c \in UnmapCalls /\ c.va + c.left <= NumPages

VmmInv ==
  /\ \E lev : Shape(table, pmm_free, lev)
  /\ current_cr3 \in Roots /\ CallFits(call)
  /\ mappings \subseteq [addr : MapAddrs, len : MapLens]

\* What a step does to the address spaces; OnePagePerStep says it of every step.
OnePage ==
  \A r \in Roots, v \in VPages :
    LET here == call # Idle /\ r = current_cr3 /\ v = call.va
    IN  /\ Walk(r, v)' # Walk(r, v) =>
             /\ here
             /\ Walk(r, v)' = IF call.op = "munmap" THEN NotPresent
                              ELSE Entry(call.pa, call.user, call.low)
        /\ here /\ call.op # "munmap" /\ call.left > 0 /\ call' # Idle =>
             Walk(r, v)' = Entry(call.pa, call.user, call.low)

\* At the start no table is in use but the empty roots.
LEMMA VmmInitInv == VmmInit => VmmInv
<1> SUFFICES ASSUME VmmInit PROVE VmmInv
  OBVIOUS
<1> USE DEF VmmInit
<1> DEFINE lev == [f \in Frames |-> 3]
<1>1. InUse(pmm_free) = Roots /\ FreeAtStart \ pmm_free = {} /\ Roots \subseteq Frames
  BY VmmAssumption DEF InUse
<1>2. table \in TableType
  <2>1. Garbage \in [Indices -> EntryType] /\ EmptyTable \in [Indices -> EntryType]
    BY EntryTypes DEF Garbage
  <2> QED
    BY <2>1 DEF TableType
<1>3. \A f \in Roots, i \in Indices : ~table[f][i].present
  <2>1. \A f \in Roots : table[f] = EmptyTable
    BY <1>1, VmmAssumption
  <2> QED
    BY <2>1 DEF EmptyTable, NotPresent
<1>4. LevelsFit(pmm_free, lev)
  BY <1>1 DEF LevelsFit
<1>5. LinksGoDown(table, pmm_free, lev) /\ LinksAreApart(table, pmm_free, lev)
  BY <1>1, <1>3 DEF LinksGoDown, LinksAreApart, EntryLeads
<1>6. AllAreLinked(table, pmm_free, lev)
  BY <1>1 DEF AllAreLinked
<1>7. Shape(table, pmm_free, lev)
  BY <1>2, <1>4, <1>5, <1>6 DEF Shape
<1> HIDE DEF lev
<1> QED
  BY <1>7, VmmAssumption DEF VmmInv, CallFits

\* Three levels down, what led there still does.
LEMMA ThreeLevelsDown ==
  ASSUME NEW s0, NEW s1, NEW s2, NEW s, NEW k0, NEW k1, NEW k2, NEW k3,
         NEW i3 \in Indices, NEW i2 \in Indices, NEW i1 \in Indices,
         Ready(s0, k0, 3), Ready(s1, k1, 2), Ready(s2, k2, 1), Ready(s, k3, 0), s0.ok,
         Extends(s0, k0, s1, k1), Extends(s1, k1, s2, k2), Extends(s2, k2, s, k3),
         Leads(s0, i3, s1), Leads(s1, i2, s2), Leads(s2, i1, s)
  PROVE  s.ok => /\ s.tab[s0.at][i3].present /\ s.tab[s0.at][i3].frame = s1.at
                 /\ s.tab[s1.at][i2].present /\ s.tab[s1.at][i2].frame = s2.at
                 /\ s.tab[s2.at][i1].present /\ s.tab[s2.at][i1].frame = s.at
<1> SUFFICES ASSUME s.ok
             PROVE  /\ s.tab[s0.at][i3].present /\ s.tab[s0.at][i3].frame = s1.at
                    /\ s.tab[s1.at][i2].present /\ s.tab[s1.at][i2].frame = s2.at
                    /\ s.tab[s2.at][i1].present /\ s.tab[s2.at][i1].frame = s.at
  OBVIOUS
<1>1. s2.ok /\ s.tab[s2.at][i1].present /\ s.tab[s2.at][i1].frame = s.at
  BY DEF Leads
<1>2. s1.ok /\ s2.tab[s1.at][i2].present /\ s2.tab[s1.at][i2].frame = s2.at
  BY <1>1 DEF Leads
<1>3. s1.tab[s0.at][i3].present /\ s1.tab[s0.at][i3].frame = s1.at
  BY <1>2 DEF Leads
<1>4. /\ s0.at \in InUse(s0.free) /\ k0[s0.at] = 3 /\ s1.at \in InUse(s1.free) /\ k1[s1.at] = 2
  BY <1>2 DEF Ready
<1>5. s0.at \in InUse(s1.free) /\ k1[s0.at] = 3
  BY <1>4 DEF Extends
<1>6. /\ s0.at \in InUse(s2.free) /\ k2[s0.at] = 3 /\ s1.at \in InUse(s2.free) /\ k2[s1.at] = 2
  BY <1>4, <1>5 DEF Extends
<1>7. s2.tab[s0.at][i3] = s1.tab[s0.at][i3]
  <2>1. EntryLeads(s1.tab, k1, s0.at, i3)
    BY <1>3, <1>5 DEF EntryLeads
  <2> QED
    BY <1>5, <2>1 DEF Extends
<1>8. s.tab[s0.at][i3] = s2.tab[s0.at][i3]
  <2>1. EntryLeads(s2.tab, k2, s0.at, i3)
    BY <1>3, <1>6, <1>7 DEF EntryLeads
  <2> QED
    BY <1>6, <2>1 DEF Extends
<1>9. s.tab[s1.at][i2] = s2.tab[s1.at][i2]
  <2>1. EntryLeads(s2.tab, k2, s1.at, i2)
    BY <1>2, <1>6 DEF EntryLeads
  <2> QED
    BY <1>6, <2>1 DEF Extends
<1> QED
  BY <1>1, <1>2, <1>3, <1>7, <1>8, <1>9

\* What MmapPage starts with, and what the three calls make of it.
TablesBefore == [tab |-> table, free |-> pmm_free, at |-> current_cr3, ok |-> TRUE]
TablesFor(va, user) ==
  get_or_create_table(get_or_create_table(get_or_create_table(TablesBefore, PML4_IDX(va), user),
                                          PDPT_IDX(va), user), PD_IDX(va), user)

\* The three tables of a page are there, or could not be had.
LEMMA TablesOfAPage ==
  ASSUME NEW lev, Shape(table, pmm_free, lev), current_cr3 \in Roots,
         NEW va \in VPages, NEW user \in BOOLEAN,
         NEW s, s = TablesFor(va, user)
  PROVE  /\ s \in Structure
         /\ \E l3 : Shape(s.tab, s.free, l3)
         /\ \A r \in Roots, v \in VPages : Entry0(s.tab, r, v) = Entry0(table, r, v)
         /\ s.ok => Entry1(s.tab, current_cr3, va).present
                    /\ Entry1(s.tab, current_cr3, va).frame = s.at
<1>1. /\ PML4_IDX(va) \in Indices /\ PDPT_IDX(va) \in Indices /\ PD_IDX(va) \in Indices
  <2>1. va \in Nat
    BY PagesAreCounted DEF VPages
  <2> QED
    BY <2>1, IndicesOfPages
<1>2. PICK s0 : s0 = TablesBefore
  OBVIOUS
<1>3. PICK s1 : s1 = get_or_create_table(s0, PML4_IDX(va), user)
  OBVIOUS
<1>4. PICK s2 : s2 = get_or_create_table(s1, PDPT_IDX(va), user)
  OBVIOUS
<1>5. s = get_or_create_table(s2, PD_IDX(va), user)
  BY <1>2, <1>3, <1>4 DEF TablesFor
<1>6. /\ Ready(s0, lev, 3) /\ s0.tab = table /\ s0.free = pmm_free /\ s0.at = current_cr3 /\ s0.ok
  <2>1. /\ table \in TableType /\ pmm_free \subseteq FreeAtStart
    BY DEF Shape
  <2>2. current_cr3 \in InUse(pmm_free) /\ current_cr3 \in Frames
    BY <2>1, FramesInUse
  <2>3. lev[current_cr3] = 3
    BY <2>2 DEF Shape, LevelsFit
  <2>4. s0.tab = table /\ s0.free = pmm_free /\ s0.at = current_cr3 /\ s0.ok /\ s0 \in Structure
    BY <1>2, <2>1, <2>2 DEF TablesBefore, Structure
  <2> QED
    BY <2>2, <2>3, <2>4 DEF Ready
<1>7. PICK k1 : Ready(s1, k1, 2) /\ Extends(s0, lev, s1, k1) /\ Leads(s0, PML4_IDX(va), s1)
  <2>1. 3 - 1 = 2
    OBVIOUS
  <2> QED
    BY <1>1, <1>3, <1>6, <2>1, OneLevelDown
<1>8. PICK k2 : Ready(s2, k2, 1) /\ Extends(s1, k1, s2, k2) /\ Leads(s1, PDPT_IDX(va), s2)
  <2>1. 2 - 1 = 1
    OBVIOUS
  <2> QED
    BY <1>1, <1>4, <1>7, <2>1, OneLevelDown
<1>9. PICK k3 : Ready(s, k3, 0) /\ Extends(s2, k2, s, k3) /\ Leads(s2, PD_IDX(va), s)
  <2>1. 1 - 1 = 0
    OBVIOUS
  <2> QED
    BY <1>1, <1>5, <1>8, <2>1, OneLevelDown
<1>10. \A r \in Roots, v \in VPages : Entry0(s.tab, r, v) = Entry0(table, r, v)
  <2>1. \A r \in Roots, v \in VPages :
          /\ Entry0(s1.tab, r, v) = Entry0(s0.tab, r, v) /\ Entry0(s2.tab, r, v) = Entry0(s1.tab, r, v)
          /\ Entry0(s.tab, r, v) = Entry0(s2.tab, r, v)
    BY <1>7, <1>8, <1>9 DEF Extends
  <2> QED
    BY <1>6, <2>1
<1>11. ASSUME s.ok
       PROVE  Entry1(s.tab, current_cr3, va).present /\ Entry1(s.tab, current_cr3, va).frame = s.at
  <2>1. /\ s.tab[s0.at][PML4_IDX(va)].present /\ s.tab[s0.at][PML4_IDX(va)].frame = s1.at
        /\ s.tab[s1.at][PDPT_IDX(va)].present /\ s.tab[s1.at][PDPT_IDX(va)].frame = s2.at
        /\ s.tab[s2.at][PD_IDX(va)].present /\ s.tab[s2.at][PD_IDX(va)].frame = s.at
    BY <1>1, <1>6, <1>7, <1>8, <1>9, <1>11, ThreeLevelsDown
  <2>2. Entry3(s.tab, current_cr3, va).present /\ Entry3(s.tab, current_cr3, va).frame = s1.at
    BY <1>6, <2>1 DEF Entry3
  <2>3. Entry2(s.tab, current_cr3, va).present /\ Entry2(s.tab, current_cr3, va).frame = s2.at
    BY <2>1, <2>2 DEF Entry2, Follow
  <2> QED
    BY <2>1, <2>3 DEF Entry1, Follow
<1> QED
  BY <1>9, <1>10, <1>11 DEF Ready

\* A page of mmap, whether its tables could be made or not.
LEMMA MmapPageStep ==
  ASSUME VmmInv, MmapPage
  PROVE  VmmInv' /\ OnePage
<1>1. PICK lev : Shape(table, pmm_free, lev)
  BY SMTT(30) DEF VmmInv
<1>2. /\ current_cr3 \in Roots /\ mappings \subseteq [addr : MapAddrs, len : MapLens]
      /\ current_cr3' = current_cr3 /\ mappings' = mappings
  BY DEF VmmInv, MmapPage
<1>3. /\ call \in MmapCalls \cup MapCalls /\ call.left > 0 /\ call # Idle /\ call.op # "munmap"
      /\ call.pa + call.left <= HigherHalf /\ call.va + call.left <= NumPages
  BY DEF VmmInv, CallFits, MmapPage, Idle, UnmapCalls, MmapCalls, MapCalls
<1>4. /\ call.pa \in Nat /\ call.va \in Nat /\ call.left \in Nat /\ call.user \in BOOLEAN
      /\ call.low \in 0 .. PageBytes - 1
  BY <1>3 DEF MmapCalls, MapCalls
<1>5. call.va \in VPages /\ call.pa \in Frames
  BY <1>3, <1>4, PagesAreCounted DEF VPages, Frames
<1>6. PICK s : s = TablesFor(call.va, call.user)
  BY SMTT(30)
<1>7. /\ pmm_free' = s.free
      /\ IF s.ok
         THEN /\ table' = [s.tab EXCEPT ![s.at][PT_IDX(call.va)] = Entry(call.pa, call.user, call.low)]
              /\ call' = [call EXCEPT !.pa = @ + 1, !.va = @ + 1, !.left = @ - 1]
         ELSE table' = s.tab /\ call' = Idle
  BY <1>6 DEF MmapPage, TablesFor, TablesBefore
<1>8. /\ s \in Structure
      /\ \E l3 : Shape(s.tab, s.free, l3)
      /\ \A r \in Roots, v \in VPages : Entry0(s.tab, r, v) = Entry0(table, r, v)
      /\ s.ok => Entry1(s.tab, current_cr3, call.va).present
                 /\ Entry1(s.tab, current_cr3, call.va).frame = s.at
  BY <1>1, <1>2, <1>4, <1>5, <1>6, TablesOfAPage
<1>9. PICK l3 : Shape(s.tab, s.free, l3)
  BY <1>8
<1>10. \A r \in Roots, v \in VPages : Walk(r, v) = Entry0(table, r, v) /\ Walk(r, v)' = Entry0(table', r, v)
  BY DEF Walk, Entry0, Entry1, Entry2, Entry3, Follow
<1>11. CASE ~s.ok
  <2>1. Shape(table', pmm_free', l3) /\ CallFits(call')
    BY <1>7, <1>9, <1>11 DEF CallFits
  <2>2. VmmInv'
    BY <1>2, <2>1 DEF VmmInv
  <2>3. \A r \in Roots, v \in VPages : Walk(r, v)' = Walk(r, v)
    BY <1>7, <1>8, <1>10, <1>11
  <2>4. call' = Idle
    BY <1>7, <1>11
  <2> QED
    BY <2>2, <2>3, <2>4 DEF OnePage
<1>12. CASE s.ok
  <2> DEFINE e == Entry(call.pa, call.user, call.low)
  <2>1. e \in EntryType
    BY <1>4, <1>5, EntryTypes
  <2>2. table' = LeafWritten(s.tab, current_cr3, call.va, e)
    BY <1>7, <1>8, <1>12 DEF LeafWritten
  <2>3. Entry1(s.tab, current_cr3, call.va).present
    BY <1>8, <1>12
  <2> HIDE DEF e
  <2>4. /\ Shape(table', s.free, l3) /\ Entry0(table', current_cr3, call.va) = e
        /\ \A q \in Roots, w \in VPages :
             q # current_cr3 \/ w # call.va => Entry0(table', q, w) = Entry0(s.tab, q, w)
    BY <1>2, <1>5, <1>9, <2>1, <2>2, <2>3, WriteLeaf
  <2>5. CallFits(call')
    <3>1. call' = [call EXCEPT !.pa = @ + 1, !.va = @ + 1, !.left = @ - 1]
      BY <1>7, <1>12
    <3>2. call.pa + 1 \in Nat /\ call.va + 1 \in Nat /\ call.left - 1 \in Nat
          /\ (call.pa + 1) + (call.left - 1) <= HigherHalf /\ (call.va + 1) + (call.left - 1) <= NumPages
      BY <1>3, <1>4, PagesAreCounted
    <3>3. CASE call \in MmapCalls
      <4>1. call' \in MmapCalls /\ call'.pa = call.pa + 1 /\ call'.va = call.va + 1 /\ call'.left = call.left - 1
        BY <3>1, <3>2, <3>3 DEF MmapCalls
      <4> QED
        BY <3>2, <4>1 DEF CallFits
    <3>4. CASE call \in MapCalls
      <4>1. call' \in MapCalls /\ call'.pa = call.pa + 1 /\ call'.va = call.va + 1 /\ call'.left = call.left - 1
        BY <3>1, <3>2, <3>4 DEF MapCalls
      <4> QED
        BY <3>2, <4>1 DEF CallFits
    <3> QED
      BY <1>3, <3>3, <3>4
  <2>6. VmmInv'
    BY <1>2, <1>7, <2>4, <2>5 DEF VmmInv
  <2>7. ASSUME NEW r \in Roots, NEW v \in VPages
        PROVE  /\ Walk(r, v)' # Walk(r, v) => r = current_cr3 /\ v = call.va
               /\ r = current_cr3 /\ v = call.va => Walk(r, v)' = e
    BY <1>8, <1>10, <2>4
  <2> QED
    BY <1>3, <2>6, <2>7 DEF OnePage, e
<1> QED
  BY <1>11, <1>12

\* A page of munmap, whether its tables are there or not.
LEMMA MunmapPageStep ==
  ASSUME VmmInv, MunmapPage
  PROVE  VmmInv' /\ OnePage
<1>1. PICK lev : Shape(table, pmm_free, lev)
  BY DEF VmmInv
<1>2. /\ current_cr3 \in Roots /\ mappings \subseteq [addr : MapAddrs, len : MapLens]
      /\ current_cr3' = current_cr3 /\ mappings' = mappings /\ pmm_free' = pmm_free
  BY DEF VmmInv, MunmapPage
<1>3. /\ call \in UnmapCalls /\ call.va + call.left <= NumPages /\ call # Idle /\ call.op = "munmap"
  <2>1. CallFits(call) /\ call.op = "munmap"
    BY DEF VmmInv, MunmapPage
  <2> QED
    BY <2>1, SMTT(30) DEF CallFits, Idle, UnmapCalls, MmapCalls, MapCalls
<1>4. call.va \in Nat /\ call.left \in Nat
  BY <1>3 DEF UnmapCalls
<1>5. \A r \in Roots, v \in VPages : Walk(r, v) = Entry0(table, r, v) /\ Walk(r, v)' = Entry0(table', r, v)
  BY DEF Walk, Entry0, Entry1, Entry2, Entry3, Follow
<1>6. ASSUME table' = table, CallFits(call')
      PROVE  VmmInv' /\ OnePage
  <2>1. VmmInv'
    BY <1>1, <1>2, <1>6 DEF VmmInv
  <2>2. \A r \in Roots, v \in VPages : Walk(r, v)' = Walk(r, v)
    BY <1>5, <1>6
  <2> QED
    BY <1>3, <2>1, <2>2 DEF OnePage
<1>7. CASE call.left = 0
  <2>1. table' = table /\ call' = Idle
    BY <1>7, SMTT(30) DEF MunmapPage
  <2> QED
    BY <1>6, <2>1 DEF CallFits
<1>8. CASE call.left # 0
  <2> DEFINE va == call.va
             e3 == table[current_cr3][PML4_IDX(va)]
             e2 == table[e3.frame][PDPT_IDX(va)]
             e1 == table[e2.frame][PD_IDX(va)]
  <2>1. va \in VPages
    BY <1>3, <1>4, <1>8, PagesAreCounted, SMTT(30) DEF VPages
  <2>2. /\ table' = IF e3.present /\ e2.present /\ e1.present
                    THEN [table EXCEPT ![e1.frame][PT_IDX(va)] = NotPresent]
                    ELSE table
        /\ call' = [call EXCEPT !.va = @ + 1, !.left = @ - 1]
    BY <1>8 DEF MunmapPage
  <2>3. CallFits(call')
    <3>1. call' \in UnmapCalls /\ call'.va = call.va + 1 /\ call'.left = call.left - 1
      <4>1. call' = [call EXCEPT !.va = @ + 1, !.left = @ - 1]
        BY <2>2
      <4>2. call.va + 1 \in Nat /\ call.left - 1 \in Nat
        BY <1>4, <1>8
      <4> QED
        BY <1>3, <4>1, <4>2 DEF UnmapCalls
    <3>2. (call.va + 1) + (call.left - 1) <= NumPages
      BY <1>3, <1>4, PagesAreCounted, SMTT(30)
    <3> QED
      BY <3>1, <3>2 DEF CallFits
  <2>4. CASE ~(e3.present /\ e2.present /\ e1.present)
    BY <1>6, <2>2, <2>3, <2>4
  <2>5. CASE e3.present /\ e2.present /\ e1.present
    <3>1. Entry1(table, current_cr3, va) = e1
      BY <2>5, ZenonT(60) DEF Entry1, Entry2, Entry3, Follow
    <3>2. table' = LeafWritten(table, current_cr3, va, NotPresent)
      BY <2>2, <2>5, <3>1, ZenonT(60) DEF LeafWritten
    <3>3. Entry1(table, current_cr3, va).present
      BY <2>5, <3>1
    <3> HIDE DEF e3, e2, e1
    <3>4. /\ Shape(table', pmm_free, lev) /\ Entry0(table', current_cr3, va) = NotPresent
          /\ \A q \in Roots, w \in VPages :
               q # current_cr3 \/ w # va => Entry0(table', q, w) = Entry0(table, q, w)
      <4>1. NotPresent \in EntryType /\ current_cr3 \in Roots
        BY <1>2, EntryTypes
      <4> QED
        BY <1>1, <2>1, <3>2, <3>3, <4>1, WriteLeaf
    <3>5. VmmInv'
      BY <1>2, <2>3, <3>4 DEF VmmInv
    <3>6. ASSUME NEW r \in Roots, NEW v \in VPages
          PROVE  Walk(r, v)' # Walk(r, v) => r = current_cr3 /\ v = va /\ Walk(r, v)' = NotPresent
      BY <1>5, <3>4
    <3> QED
      BY <1>3, <3>5, <3>6, SMTT(30) DEF OnePage, va
  <2> QED
    BY <2>4, <2>5
<1> QED
  BY <1>7, <1>8, SMTT(30)

\* The other steps leave the tables alone.
LEMMA OtherStep ==
  ASSUME VmmInv, UNCHANGED <<table, pmm_free>>, current_cr3' \in Roots, CallFits(call'),
         mappings' \subseteq [addr : MapAddrs, len : MapLens],
         call = Idle \/ call.op = "munmap" \/ call.left = 0
  PROVE  VmmInv' /\ OnePage
<1>1. VmmInv'
  BY DEF VmmInv
<1>2. \A r \in Roots, v \in VPages : Walk(r, v)' = Walk(r, v)
  BY DEF Walk
<1> QED
  BY <1>1, <1>2 DEF OnePage

\* Division by the size of a page, in the form the provers can use.
LEMMA PageDivision ==
  ASSUME NEW x \in Nat, NEW q \in Nat, PageBytes * q <= x, x < PageBytes * q + PageBytes
  PROVE  x \div PageBytes = q
<1> DEFINE p == PageBytes
           d == x \div p
           r == x % p
<1>1. p \in Nat /\ p > 0
  BY VmmAssumption
<1>2. d \in Nat /\ r \in 0 .. p - 1 /\ x = p * d + r
  BY <1>1
<1> HIDE DEF d, r
<1>3. p * q \in Nat /\ p * d \in Nat /\ p * (q + 1) = p * q + p /\ p * (d + 1) = p * d + p
  BY <1>1, <1>2
<1>4. CASE d > q
  <2>1. p * d >= p * (q + 1)
    BY <1>1, <1>2, <1>4
  <2> QED
    BY <1>1, <1>2, <1>3, <2>1
<1>5. CASE d < q
  <2>1. p * q >= p * (d + 1)
    BY <1>1, <1>2, <1>5
  <2> QED
    BY <1>1, <1>2, <1>3, <2>1
<1> QED
  BY <1>2, <1>4, <1>5 DEF d

\* Pages of bytes: never more than the bytes, and n for n pages of bytes.
LEMMA PagesOfBytes ==
  ASSUME NEW n \in Nat
  PROVE  PagesOf(n) \in Nat /\ PagesOf(n) <= n /\ PagesOf(n * PageBytes) = n
<1> DEFINE p == PageBytes
           d == (n + p - 1) \div p
           r == (n + p - 1) % p
<1>1. p \in Nat /\ p > 0
  BY VmmAssumption
<1>2. n + p - 1 \in Nat
  BY <1>1
<1>3. d \in Nat /\ r \in 0 .. p - 1 /\ n + p - 1 = p * d + r
  BY <1>1, <1>2
<1>4. d <= n
  <2> HIDE DEF d, r
  <2>1. SUFFICES ASSUME d >= n + 1 PROVE FALSE
    BY <1>3
  <2>2. p * d >= p * (n + 1) /\ p * (n + 1) = p * n + p /\ p * n >= n /\ p * n \in Nat /\ p * d \in Nat
    BY <1>1, <1>3, <2>1
  <2> QED
    BY <1>1, <1>3, <2>2
<1>5. n * p \in Nat /\ p * n = n * p
  BY <1>1
<1>6. n * p + p - 1 \in Nat /\ p * n <= n * p + p - 1 /\ n * p + p - 1 < p * n + p
  BY <1>1, <1>5
<1>7. (n * p + p - 1) \div p = n
  BY <1>6, PageDivision
<1> QED
  BY <1>3, <1>4, <1>7 DEF PagesOf

\* Where the direct map puts a run of frames.
LEMMA DirectMap ==
  ASSUME NEW a \in MapAddrs, NEW len \in MapLens
  PROVE  /\ a \div PageBytes \in Nat /\ a % PageBytes \in 0 .. PageBytes - 1
         /\ pa_to_va(a \div PageBytes) \in Nat /\ PagesOf(len) \in Nat
         /\ a \div PageBytes + PagesOf(len) <= HigherHalf
         /\ pa_to_va(a \div PageBytes) + PagesOf(len) <= NumPages
         /\ pa_to_va(a \div PageBytes) + PagesOf(PagesOf(len)) <= NumPages
<1>1. a \in Nat /\ len \in Nat /\ PageBytes \in Nat /\ PageBytes > 0
  BY VmmAssumption
<1>2. a \div PageBytes \in Nat /\ a % PageBytes \in 0 .. PageBytes - 1
  BY <1>1
<1>3. PagesOf(len) \in Nat /\ PagesOf(PagesOf(len)) \in Nat /\ PagesOf(PagesOf(len)) <= PagesOf(len)
  BY <1>1, PagesOfBytes
<1>4. a \div PageBytes + PagesOf(len) <= HigherHalf
  BY VmmAssumption
<1> DEFINE f == a \div PageBytes
<1> HIDE DEF f
<1>5. f \in Nat /\ f + PagesOf(len) <= HigherHalf
  BY <1>2, <1>4 DEF f
<1>6. pa_to_va(f) \in Nat /\ pa_to_va(f) <= f + HigherHalf
  BY <1>5, PagesAreCounted DEF pa_to_va
<1>7. pa_to_va(f) + PagesOf(len) <= NumPages
  BY <1>3, <1>5, <1>6, PagesAreCounted
<1> QED
  BY <1>2, <1>3, <1>4, <1>6, <1>7, PagesAreCounted DEF f

\* Every step keeps the invariant and changes at most the page of its iteration.
LEMMA VmmStep ==
  ASSUME VmmInv, [VmmNext]_vmmVars
  PROVE  VmmInv' /\ [OnePage]_vmmVars
<1>1. /\ current_cr3 \in Roots /\ CallFits(call)
      /\ mappings \subseteq [addr : MapAddrs, len : MapLens]
  BY DEF VmmInv
<1>2. CallFits(Idle)
  BY DEF CallFits
<1>3. ASSUME NEW a \in MapAddrs, NEW len \in MapLens, uacpi_kernel_map(a, len)
      PROVE  VmmInv' /\ OnePage
  <2>1. /\ UNCHANGED <<table, pmm_free>> /\ current_cr3' = current_cr3 /\ mappings' = mappings
        /\ call = Idle
    BY <1>3 DEF uacpi_kernel_map
  <2>2. call' = [op |-> "uacpi_map", pa |-> a \div PageBytes, va |-> pa_to_va(a \div PageBytes),
                 low |-> a % PageBytes, left |-> PagesOf(len),
                 user |-> FALSE, addr |-> a, len |-> len]
    BY <1>3 DEF uacpi_kernel_map
  <2>3. call' \in MapCalls
    BY <2>2, DirectMap DEF MapCalls
  <2>4. call'.pa + call'.left <= HigherHalf /\ call'.va + call'.left <= NumPages
    BY <2>2, DirectMap
  <2>5. CallFits(call')
    BY <2>3, <2>4 DEF CallFits
  <2> QED
    BY <1>1, <2>1, <2>5, OtherStep
<1>4. ASSUME NEW va \in Nat, NEW n \in Nat, munmap(va, n), va + PagesOf(n) <= NumPages
      PROVE  CallFits(call')
  <2>1. call' = [op |-> "munmap", va |-> va, left |-> PagesOf(n)] /\ PagesOf(n) \in Nat
    BY <1>4, PagesOfBytes DEF munmap
  <2>2. call' \in UnmapCalls /\ call'.va + call'.left <= NumPages
    BY <1>4, <2>1 DEF UnmapCalls
  <2> QED
    BY <2>2 DEF CallFits
<1>5. ASSUME NEW m \in mappings, uacpi_kernel_unmap(m)
      PROVE  VmmInv' /\ OnePage
  <2>1. /\ UNCHANGED <<table, pmm_free>> /\ current_cr3' = current_cr3 /\ call = Idle
        /\ mappings' \subseteq [addr : MapAddrs, len : MapLens]
        /\ munmap(pa_to_va(m.addr \div PageBytes), PagesOf(m.len))
    BY <1>1, <1>5 DEF uacpi_kernel_unmap
  <2>2. m.addr \in MapAddrs /\ m.len \in MapLens
    BY <1>1, <1>5
  <2>3. CallFits(call')
    BY <1>4, <2>1, <2>2, DirectMap
  <2> QED
    BY <1>1, <2>1, <2>3, OtherStep
<1>6. ASSUME NEW f \in MmapFrames, NEW v \in MmapPages, NEW n \in MmapCounts, Mmap(f, v, n)
      PROVE  VmmInv' /\ OnePage
  <2>1. /\ UNCHANGED <<table, pmm_free>> /\ current_cr3' = current_cr3 /\ mappings' = mappings
        /\ call = Idle /\ v + n - 1 \in VPages /\ f + n - 1 \in Frames
    BY <1>6 DEF Mmap
  <2>2. f \in Nat /\ v \in Nat /\ n \in Nat /\ PageBytes \in Nat \ {0}
    BY VmmAssumption
  <2>3. f + n <= HigherHalf /\ v + n <= NumPages
    BY <2>1, <2>2, PagesAreCounted DEF VPages, Frames
  <2>4. call' = [op |-> "mmap", pa |-> f, va |-> v, low |-> 0, left |-> n, user |-> FALSE \/ v < HigherHalf]
    BY <1>6 DEF Mmap, mmap
  <2>5. (FALSE \/ v < HigherHalf) \in BOOLEAN /\ 0 \in 0 .. PageBytes - 1
    BY <2>2
  <2>6. call' \in MmapCalls /\ call'.pa = f /\ call'.va = v /\ call'.left = n
    BY <2>2, <2>4, <2>5 DEF MmapCalls
  <2>7. CallFits(call')
    BY <2>3, <2>6 DEF CallFits
  <2> QED
    BY <1>1, <2>1, <2>7, OtherStep
<1>7. ASSUME NEW v \in MmapPages, NEW n \in MmapCounts, Munmap(v, n)
      PROVE  VmmInv' /\ OnePage
  <2>1. /\ UNCHANGED <<table, pmm_free>> /\ current_cr3' = current_cr3 /\ mappings' = mappings
        /\ call = Idle /\ v + n - 1 \in VPages /\ munmap(v, n * PageBytes)
    BY <1>7 DEF Munmap
  <2>2. v \in Nat /\ n \in Nat /\ PageBytes \in Nat
    BY VmmAssumption
  <2>3. v + n <= NumPages
    BY <2>1, <2>2, PagesAreCounted DEF VPages
  <2>4. n * PageBytes \in Nat /\ PagesOf(n * PageBytes) = n
    BY <2>2, PagesOfBytes
  <2>5. CallFits(call')
    BY <1>4, <2>1, <2>2, <2>3, <2>4
  <2> QED
    BY <1>1, <2>1, <2>5, OtherStep
<1>8. ASSUME NEW r \in Roots \cup {0}, switch_to_new_table(r)
      PROVE  VmmInv' /\ OnePage
  <2>1. /\ UNCHANGED <<table, pmm_free>> /\ mappings' = mappings /\ call' = call /\ call = Idle
        /\ current_cr3' \in Roots
    BY <1>8, VmmAssumption DEF switch_to_new_table
  <2> QED
    BY <1>1, <2>1, OtherStep
<1>9. CASE MmapReturn
  <2>1. /\ UNCHANGED <<table, pmm_free>> /\ current_cr3' = current_cr3 /\ call' = Idle
        /\ call.left = 0 /\ call.op \in {"mmap", "uacpi_map"}
        /\ mappings' = IF call.op = "mmap" THEN mappings
                       ELSE mappings \cup {[addr |-> call.addr, len |-> call.len]}
    BY <1>9 DEF MmapReturn
  <2>2. call.op # "mmap" => call \in MapCalls
    BY <1>1, <2>1 DEF CallFits, Idle, MmapCalls, UnmapCalls
  <2>3. mappings' \subseteq [addr : MapAddrs, len : MapLens]
    BY <1>1, <2>1, <2>2 DEF MapCalls
  <2> QED
    BY <1>1, <1>2, <2>1, <2>3, OtherStep
<1>10. CASE UNCHANGED vmmVars
  BY <1>10 DEF VmmInv, vmmVars
<1> QED
  BY <1>3, <1>5, <1>6, <1>7, <1>8, <1>9, <1>10, MmapPageStep, MunmapPageStep DEF VmmNext

\* The tables of a level are the targets of the entries of the level above.
LEMMA TargetsOfALevel ==
  ASSUME NEW lev, Shape(table, pmm_free, lev), NEW k \in 1 .. 3, NEW fs,
         fs = {f \in InUse(pmm_free) : lev[f] = k}
  PROVE  Uppers(fs) = {f \in InUse(pmm_free) : lev[f] = k - 1}
<1>1. /\ LevelsFit(pmm_free, lev) /\ LinksGoDown(table, pmm_free, lev)
      /\ AllAreLinked(table, pmm_free, lev)
  BY DEF Shape
<1>2. \A x : x \in Uppers(fs) <=> \E f \in fs, i \in Indices : table[f][i].present /\ x = table[f][i].frame
  BY DEF Uppers
<1>3. ASSUME NEW x \in Uppers(fs) PROVE x \in InUse(pmm_free) /\ lev[x] = k - 1
  <2>1. PICK f \in fs, i \in Indices : table[f][i].present /\ x = table[f][i].frame
    BY <1>2
  <2>2. f \in InUse(pmm_free) /\ lev[f] = k /\ EntryLeads(table, lev, f, i)
    BY <2>1 DEF EntryLeads
  <2> QED
    BY <1>1, <2>1, <2>2 DEF LinksGoDown, InUse
<1>4. ASSUME NEW x \in InUse(pmm_free), lev[x] = k - 1 PROVE x \in Uppers(fs)
  <2>1. x \in FreeAtStart \ pmm_free
    BY <1>1, <1>4 DEF LevelsFit, InUse
  <2>2. PICK g \in InUse(pmm_free), i \in Indices : EntryLeads(table, lev, g, i) /\ table[g][i].frame = x
    BY <1>1, <2>1 DEF AllAreLinked
  <2>3. lev[x] = lev[g] - 1 /\ g \in Frames /\ lev \in [Frames -> 0 .. 3]
    BY <1>1, <2>2, VmmAssumption DEF LinksGoDown, LevelsFit, InUse
  <2>4. lev[g] = k
    BY <1>4, <2>3
  <2> QED
    BY <1>2, <2>2, <2>4 DEF EntryLeads
<1> QED
  BY <1>3, <1>4

\* In a tree of levels every table has one parent.
LEMMA ShapeGivesOneParent ==
  ASSUME NEW lev, Shape(table, pmm_free, lev)
  PROVE  TablesHaveOneParent
<1> DEFINE OfLevel(k) == {f \in InUse(pmm_free) : lev[f] = k}
           l2 == Uppers(Roots)
           l1 == Uppers(l2)
           l0 == Uppers(l1)
           Parents(f) == {p \in (Roots \cup l2 \cup l1) \X Indices :
                            table[p[1]][p[2]].present /\ table[p[1]][p[2]].frame = f}
<1>1. /\ LevelsFit(pmm_free, lev) /\ LinksGoDown(table, pmm_free, lev)
      /\ AllAreLinked(table, pmm_free, lev) /\ LinksAreApart(table, pmm_free, lev)
  BY DEF Shape
<1>2. Roots = OfLevel(3)
  BY <1>1 DEF LevelsFit, InUse
<1>3. l2 = OfLevel(2)
  BY <1>2, TargetsOfALevel
<1>4. l1 = OfLevel(1)
  BY <1>3, TargetsOfALevel
<1>5. l0 = OfLevel(0)
  BY <1>4, TargetsOfALevel
<1>6. \A f \in InUse(pmm_free) : f \in Frames /\ lev[f] \in 0 .. 3
  BY <1>1, VmmAssumption DEF LevelsFit, InUse
<1>7. l2 \cup l1 \cup l0 = TableFrames
  <2>1. \A f : f \in l2 \cup l1 \cup l0 <=> f \in InUse(pmm_free) /\ lev[f] # 3
    BY <1>3, <1>4, <1>5, <1>6
  <2>2. \A f : f \in InUse(pmm_free) /\ lev[f] # 3 <=> f \in TableFrames
    BY <1>1, VmmAssumption DEF LevelsFit, InUse, TableFrames
  <2> HIDE DEF l2, l1, l0
  <2> QED
    BY <2>1, <2>2
<1>8. \A f : f \in Roots \cup l2 \cup l1 <=> f \in InUse(pmm_free) /\ lev[f] > 0
  <2> HIDE DEF l2, l1, l0
  <2> QED
    BY <1>2, <1>3, <1>4, <1>6
<1> HIDE DEF l2, l1, l0, OfLevel
<1>9. ASSUME NEW f \in TableFrames PROVE Cardinality(Parents(f)) = 1
  <2>1. PICK g \in InUse(pmm_free), i \in Indices : EntryLeads(table, lev, g, i) /\ table[g][i].frame = f
    BY <1>1 DEF AllAreLinked, TableFrames
  <2>2. <<g, i>> \in Parents(f)
    BY <1>8, <2>1 DEF EntryLeads
  <2>3. ASSUME NEW p \in Parents(f) PROVE p = <<g, i>>
    <3>1. /\ p = <<p[1], p[2]>> /\ p[1] \in InUse(pmm_free) /\ p[2] \in Indices
          /\ EntryLeads(table, lev, p[1], p[2]) /\ table[p[1]][p[2]].frame = f
      BY <1>8 DEF EntryLeads
    <3>2. p[1] = g /\ p[2] = i
      BY <1>1, <2>1, <3>1 DEF LinksAreApart
    <3> QED
      BY <3>1, <3>2
  <2>4. Parents(f) = {<<g, i>>}
    BY <2>2, <2>3
  <2> QED
    BY <2>4, FS_Singleton
<1> QED
  BY <1>7, <1>9 DEF TablesHaveOneParent, l2, l1, l0

\* With tables and memory of any size, every frame that get_or_create_table took
\* hangs below exactly one entry of one address space (vmm.cpp: mmap, munmap),
\* calls that failed half way included.
THEOREM VmmTables ==
  VmmInit /\ [][VmmNext]_vmmVars => []TablesHaveOneParent
<1>1. VmmInv /\ [VmmNext]_vmmVars => VmmInv'
  BY VmmStep
<1>2. VmmInv => TablesHaveOneParent
  BY ShapeGivesOneParent DEF VmmInv
<1> QED
  BY <1>1, <1>2, VmmInitInv, PTL

\* With tables and memory of any size, a step of mmap or munmap changes what the
\* processor finds for one page of one space, and an mmap that goes on has mapped it.
THEOREM VmmOnePage ==
  VmmInit /\ [][VmmNext]_vmmVars => OnePagePerStep
<1>1. VmmInv /\ [VmmNext]_vmmVars => VmmInv' /\ [OnePage]_vmmVars
  BY VmmStep
<1>2. OnePagePerStep <=> [][OnePage]_vmmVars
  BY PTL DEF OnePagePerStep, OnePage
<1> QED
  BY <1>1, <1>2, VmmInitInv, PTL

(***************************************************************************)
(* The services side by side: every one keeps its own invariant, as a step *)
(* of one leaves the variables of the others alone.                        *)
(***************************************************************************)
KernelInv == HlecInv /\ VmmInv /\ SyncIInv /\ VecIInv

LEMMA KernelTypesFollow == KernelInv => KernelTypeOK
<1>1. VmmInv => VmmTypeOK
  BY DEF VmmInv, Shape, TableType, EntryType, VmmTypeOK
<1>2. VecIInv => VecTypeOK
  <2> SUFFICES ASSUME VecIInv PROVE VecTypeOK
    OBVIOUS
  <2>1. size_ \in 0 .. MaxSize
    BY VecFacts, VecAssumption
  <2>2. cells \in [0 .. capacity_ - 1 -> Owners \cup {Junk}]
    BY VecFacts DEF SoundVec
  <2> QED
    BY <2>1, <2>2 DEF VecTypeOK
<1> QED
  BY <1>1, <1>2 DEF KernelInv, KernelTypeOK, HlecInv, SyncIInv

LEMMA KernelInitOK == KernelInit => KernelInv
<1>1. VecInit => VecIInv
  BY VecAssumption, EmptySeq DEF VecInit, VecIInv, Represents, SoundVec, Vec, Buffer
<1> QED
  BY <1>1, HlecInitOK, VmmInitInv, SyncInitIInv DEF KernelInit, KernelInv

LEMMA KernelStep == KernelInv /\ [KernelNext]_kernelVars => KernelInv'
<1> SUFFICES ASSUME KernelInv, [KernelNext]_kernelVars PROVE KernelInv'
  OBVIOUS
<1>1. [Next]_vars /\ [VmmNext]_vmmVars /\ [SyncNext]_syncVars /\ [VecNext]_vecVars
  <2>1. CASE KernelNext
    BY <2>1 DEF KernelNext
  <2>2. CASE UNCHANGED kernelVars
    BY <2>2 DEF kernelVars
  <2> QED
    BY <2>1, <2>2
<1> QED
  BY <1>1, HlecStep, VmmStep, SyncStep, VecStep DEF KernelInv

\* The theorem of the composed specification: mem, the page tables, the mutex and
\* the vector keep the ranges their C declarations give them, for all constants.
THEOREM KernelTypes == KernelSpec => []KernelTypeOK
BY KernelInitOK, KernelStep, KernelTypesFollow, PTL DEF KernelSpec
=============================================================================
