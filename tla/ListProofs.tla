----------------------------- MODULE ListProofs -----------------------------
(***************************************************************************)
(* What the operations on lists do that several components are built from: *)
(* linking and unlinking, appending, cutting and searching from the end.   *)
(***************************************************************************)
EXTENDS SequencesExt, SequenceTheorems, WellFoundedInduction, TLAPS

\* What is left of a list behind its head holds nothing new.
LEMMA TailRange ==
    ASSUME NEW S, NEW s \in Seq(S), s # <<>>
    PROVE  Tail(s) \in Seq(S) /\ Range(Tail(s)) \subseteq Range(s)
<1>1. /\ Tail(s) \in Seq(S) /\ Len(Tail(s)) = Len(s) - 1
      /\ \A i \in 1 .. Len(Tail(s)) : Tail(s)[i] = s[i + 1]
  BY HeadTailProperties
<1>2. Len(s) \in Nat /\ DOMAIN s = 1 .. Len(s) /\ DOMAIN Tail(s) = 1 .. Len(Tail(s))
  BY <1>1, LenProperties
<1>3. \A i \in 1 .. Len(Tail(s)) : i + 1 \in 1 .. Len(s)
  BY <1>1, <1>2
<1> QED
  BY <1>1, <1>2, <1>3 DEF Range

\* The element at i goes, and those behind it move up.
LEMMA RemoveAtProperties ==
    ASSUME NEW S, NEW s \in Seq(S), NEW i \in 1 .. Len(s)
    PROVE  /\ RemoveAt(s, i) \in Seq(S) /\ Len(RemoveAt(s, i)) = Len(s) - 1
           /\ \A j \in 1 .. Len(s) - 1 :
                RemoveAt(s, i)[j] = IF j < i THEN s[j] ELSE s[j + 1]
<1> DEFINE front == SubSeq(s, 1, i - 1)
           back == SubSeq(s, i + 1, Len(s))
<1>1. Len(s) \in Nat /\ i \in Int /\ i - 1 \in Int /\ i + 1 \in Int /\ i >= 1 /\ i <= Len(s)
  BY LenProperties
<1>2. \A j \in 1 .. Len(s) : s[j] \in S
  BY ElementOfSeq
<1>3. /\ front \in Seq(S) /\ Len(front) = i - 1
      /\ \A j \in 1 .. i - 1 : front[j] = s[j]
  <2>1. \A j \in 1 .. i - 1 : s[j] \in S
    BY <1>1, <1>2
  <2> QED
    BY <1>1, <2>1, SubSeqProperties
<1>4. /\ back \in Seq(S) /\ Len(back) = Len(s) - i
      /\ \A j \in 1 .. Len(s) - i : back[j] = s[i + j]
  <2>1. \A j \in i + 1 .. Len(s) : s[j] \in S
    BY <1>1, <1>2
  <2> QED
    BY <1>1, <2>1, SubSeqProperties
<1>5. RemoveAt(s, i) = front \o back
  BY DEF RemoveAt
<1> HIDE DEF front, back
<1>6. /\ front \o back \in Seq(S) /\ Len(front \o back) = Len(front) + Len(back)
      /\ \A j \in 1 .. Len(front) + Len(back) :
           (front \o back)[j] = IF j <= Len(front) THEN front[j] ELSE back[j - Len(front)]
  BY <1>3, <1>4, ConcatProperties
<1>7. ASSUME NEW j \in 1 .. Len(s) - 1
      PROVE  (front \o back)[j] = IF j < i THEN s[j] ELSE s[j + 1]
  <2>1. CASE j < i
    BY <1>1, <1>3, <1>4, <1>6, <2>1
  <2>2. CASE ~(j < i)
    <3>1. j - (i - 1) \in 1 .. Len(s) - i /\ i + (j - (i - 1)) = j + 1
      BY <1>1, <2>2
    <3>2. (front \o back)[j] = back[j - (i - 1)]
      BY <1>1, <1>3, <1>4, <1>6, <2>2
    <3> QED
      BY <1>4, <2>2, <3>1, <3>2
  <2> QED
    BY <2>1, <2>2
<1> QED
  BY <1>1, <1>3, <1>4, <1>5, <1>6, <1>7

\* An element that is linked at the head.
LEMMA ConsProperties ==
    ASSUME NEW S, NEW s \in Seq(S), NEW x \in S
    PROVE  /\ <<x>> \o s \in Seq(S) /\ Len(<<x>> \o s) = Len(s) + 1 /\ (<<x>> \o s)[1] = x
           /\ \A j \in 2 .. Len(s) + 1 : (<<x>> \o s)[j] = s[j - 1]
<1>1. <<x>> \in Seq(S) /\ Len(<<x>>) = 1 /\ <<x>>[1] = x
  OBVIOUS
<1>2. Len(s) \in Nat
  BY LenProperties
<1>3. /\ <<x>> \o s \in Seq(S) /\ Len(<<x>> \o s) = 1 + Len(s)
      /\ \A j \in 1 .. 1 + Len(s) :
           (<<x>> \o s)[j] = IF j <= 1 THEN <<x>>[j] ELSE s[j - 1]
  BY <1>1, ConcatProperties
<1> QED
  BY <1>1, <1>2, <1>3

\* A set of indices that is not empty has a largest one.
LEMMA LargestIndex ==
    ASSUME NEW n \in Nat, NEW T, T \subseteq 1 .. n, T # {}
    PROVE  \E i \in T : \A j \in T : j <= i
<1> DEFINE D == {k \in Nat : \E i \in T : k = n - i}
<1>1. PICK t \in T : TRUE
  OBVIOUS
<1>2. n - t \in D
  BY <1>1
<1>3. \E x \in D : \A y \in D : ~(<<y, x>> \in OpToRel(<, Nat))
  BY <1>2, NatLessThanWellFounded, WFMin
<1>4. PICK x \in D : \A y \in D : ~(y < x)
  BY <1>3 DEF OpToRel
<1>5. PICK i \in T : x = n - i
  BY <1>4
<1>6. \A j \in T : n - j \in D
  OBVIOUS
<1>7. \A j \in T : ~(n - j < n - i)
  BY <1>4, <1>5, <1>6
<1> QED
  BY <1>5, <1>7

\* The last element is dropped.
LEMMA FrontIs ==
    ASSUME NEW S, NEW s \in Seq(S), s # <<>>
    PROVE  /\ Front(s) \in Seq(S) /\ Len(Front(s)) = Len(s) - 1 /\ Len(s) >= 1
           /\ \A i \in 1 .. Len(s) - 1 : Front(s)[i] = s[i]
<1>1. Len(s) \in Nat /\ Len(s) >= 1
  BY EmptySeq, LenProperties
<1>2. \A i \in 1 .. Len(s) - 1 : s[i] \in S
  BY <1>1, ElementOfSeq
<1> DEFINE n == Len(s) - 1
<1>3. n \in Int /\ 1 \in Int /\ n = Len(s) - 1
  BY <1>1
<1>4. Front(s) = SubSeq(s, 1, n)
  BY DEF Front
<1>5. \A i \in 1 .. n : s[i] \in S
  BY <1>2
<1> HIDE DEF n
<1>6. /\ SubSeq(s, 1, n) \in Seq(S) /\ Len(SubSeq(s, 1, n)) = IF 1 <= n THEN n - 1 + 1 ELSE 0
      /\ \A i \in 1 .. n - 1 + 1 : SubSeq(s, 1, n)[i] = s[1 + i - 1]
  BY <1>3, <1>5, SubSeqProperties
<1>7. Len(SubSeq(s, 1, n)) = n
  BY <1>1, <1>3, <1>6
<1>8. \A i \in 1 .. n : i \in 1 .. n - 1 + 1 /\ 1 + i - 1 = i
  BY <1>3
<1>9. \A i \in 1 .. n : SubSeq(s, 1, n)[i] = s[i]
  BY <1>6, <1>8
<1> QED
  BY <1>1, <1>3, <1>4, <1>6, <1>7, <1>9

\* An element that is listed once is gone when its place is removed; the others stay, once.
LEMMA RemoveOnce ==
    ASSUME NEW S, NEW s \in Seq(S), IsInjective(s), NEW i \in 1 .. Len(s)
    PROVE  /\ IsInjective(RemoveAt(s, i)) /\ RemoveAt(s, i) \in Seq(S)
           /\ \A x \in S : (\E j \in DOMAIN RemoveAt(s, i) : RemoveAt(s, i)[j] = x) <=>
                          (\E j \in DOMAIN s : s[j] = x) /\ x # s[i]
<1> DEFINE r == RemoveAt(s, i)
           n == Len(s)
<1>1. n \in Nat /\ DOMAIN s = 1 .. n
  BY LenProperties
<1>2. r \in Seq(S) /\ Len(r) = n - 1 /\ \A j \in 1 .. n - 1 : r[j] = IF j < i THEN s[j] ELSE s[j + 1]
  BY RemoveAtProperties
<1>3. DOMAIN r = 1 .. n - 1
  BY <1>2, LenProperties
<1> HIDE DEF r, n
<1>4. i \in 1 .. n
  BY DEF n
<1>5. \A j, k \in 1 .. n : s[j] = s[k] => j = k
  BY <1>1 DEF IsInjective
<1>6. \A j \in 1 .. n - 1 : j \in 1 .. n /\ j + 1 \in 1 .. n /\ (j < i => j # i) /\ (~(j < i) => j + 1 # i)
  BY <1>1, <1>4
<1>7. ASSUME NEW j \in 1 .. n - 1, NEW k \in 1 .. n - 1, r[j] = r[k] PROVE j = k
  <2>1. (IF j < i THEN j ELSE j + 1) \in 1 .. n /\ (IF k < i THEN k ELSE k + 1) \in 1 .. n
    BY <1>6
  <2>2. (IF j < i THEN j ELSE j + 1) = (IF k < i THEN k ELSE k + 1)
    BY <1>2, <1>5, <1>7, <2>1
  <2> QED
    BY <1>1, <1>4, <2>2
<1>8. IsInjective(r)
  BY <1>3, <1>7 DEF IsInjective
<1>9. ASSUME NEW j \in 1 .. n - 1 PROVE \E k \in 1 .. n : s[k] = r[j] /\ k # i
  BY <1>2, <1>6
<1>10. ASSUME NEW k \in 1 .. n, k # i PROVE \E j \in 1 .. n - 1 : r[j] = s[k]
  <2>1. CASE k < i
    <3>1. k \in 1 .. n - 1
      BY <1>1, <1>4, <2>1
    <3> QED
      BY <1>2, <2>1, <3>1
  <2>2. CASE ~(k < i)
    <3>1. k - 1 \in 1 .. n - 1 /\ ~(k - 1 < i) /\ k - 1 + 1 = k
      BY <1>1, <1>4, <1>10, <2>2
    <3>2. r[k - 1] = s[k]
      BY <1>2, <3>1
    <3> QED
      BY <3>1, <3>2
  <2> QED
    BY <2>1, <2>2
<1>11. \A x : (\E j \in 1 .. n - 1 : r[j] = x) <=> (\E j \in 1 .. n : s[j] = x) /\ x # s[i]
  <2>1. ASSUME NEW x, NEW j \in 1 .. n - 1, r[j] = x PROVE (\E k \in 1 .. n : s[k] = x) /\ x # s[i]
    <3>1. PICK k \in 1 .. n : s[k] = r[j] /\ k # i
      BY <1>9
    <3> QED
      BY <1>4, <1>5, <2>1, <3>1
  <2>2. ASSUME NEW x, NEW k \in 1 .. n, s[k] = x, x # s[i] PROVE \E j \in 1 .. n - 1 : r[j] = x
    BY <1>10, <2>2
  <2> QED
    BY <2>1, <2>2
<1> QED
  BY <1>1, <1>2, <1>3, <1>8, <1>11 DEF r

(***************************************************************************)
(* Induction over numbers, for what loops and recursive functions compute. *)
(***************************************************************************)
\* A set of numbers has a smallest one.
LEMMA SmallestNumber ==
    ASSUME NEW S, S \subseteq Nat, S # {}
    PROVE  \E x \in S : \A y \in S : x <= y
<1>1. \E x \in S : \A y \in S : ~(<<y, x>> \in OpToRel(<, Nat))
  BY NatLessThanWellFounded, WFMin
<1>2. PICK x \in S : \A y \in S : ~(y < x)
  BY <1>1 DEF OpToRel
<1> QED
  BY <1>2

\* What starts in a set and never leaves it is in it.
LEMMA StaysIn ==
    ASSUME NEW T, NEW n \in Nat, NEW f, f[0] \in T,
           \A i \in 1 .. n : f[i - 1] \in T => f[i] \in T
    PROVE  \A i \in 0 .. n : f[i] \in T
<1> DEFINE S == {i \in 0 .. n : f[i] \notin T}
<1> SUFFICES ASSUME S # {} PROVE FALSE
  OBVIOUS
<1>0. S \subseteq Nat
  OBVIOUS
<1>1. PICK x \in S : \A y \in S : x <= y
  BY <1>0, SmallestNumber, Zenon
<1>2. x \in 1 .. n /\ x - 1 \in 0 .. n /\ x - 1 \notin S
  BY <1>1
<1> QED
  BY <1>1, <1>2

\* A set that holds 0, and with a number the next one, holds all up to n.
LEMMA CountsUp ==
    ASSUME NEW n \in Nat, NEW S, 0 \in S, \A i \in 1 .. n : i - 1 \in S => i \in S
    PROVE  \A i \in 0 .. n : i \in S
<1> DEFINE f == [i \in 0 .. n |-> i]
<1>1. f[0] \in S /\ \A i \in 1 .. n : f[i - 1] \in S => f[i] \in S
  OBVIOUS
<1>2. \A i \in 0 .. n : f[i] = i
  OBVIOUS
<1> HIDE DEF f
<1>3. \A i \in 0 .. n : f[i] \in S
  BY <1>1, StaysIn, Zenon
<1> QED
  BY <1>2, <1>3

\* f[i] is what i steps of G make of t.
Repeats(f, n, T, G, t) ==
    f \in [0 .. n -> T] /\ f[0] = t /\ \A i \in 1 .. n : f[i] = G[i][f[i - 1]]

\* A step that maps a set into itself can be repeated.
LEMMA Iteration ==
    ASSUME NEW T, NEW n \in Nat, NEW G \in [1 .. n -> [T -> T]], NEW t \in T
    PROVE  \E f : Repeats(f, n, T, G, t)
<1> DEFINE Good(m, f) == f \in [0 .. m -> T] /\ f[0] = t /\ \A i \in 1 .. m : f[i] = G[i][f[i - 1]]
           S == {m \in 0 .. n : ~ \E f : Good(m, f)}
<1>1. SUFFICES S = {}
  BY <1>1 DEF Repeats
<1> SUFFICES ASSUME S # {} PROVE FALSE
  OBVIOUS
<1>0. S \subseteq Nat
  OBVIOUS
<1>2. PICK x \in S : \A y \in S : x <= y
  BY <1>0, SmallestNumber, Zenon
<1>3. Good(0, [i \in 0 .. 0 |-> t])
  OBVIOUS
<1>4. x \in 1 .. n /\ x - 1 \in 0 .. n /\ x - 1 \notin S
  <2>1. x # 0
    BY <1>2, <1>3, ZenonT(60)
  <2> HIDE DEF Good
  <2> QED
    BY <1>2, <2>1
<1>5. PICK f : Good(x - 1, f)
  BY <1>4
<1> DEFINE g == [i \in 0 .. x |-> IF i = x THEN G[x][f[x - 1]] ELSE f[i]]
<1>6. f[x - 1] \in T /\ G[x] \in [T -> T]
  BY <1>4, <1>5
<1>7. g \in [0 .. x -> T]
  BY <1>4, <1>5, <1>6
<1>8. g[0] = t /\ \A i \in 1 .. x : g[i] = G[i][g[i - 1]]
  BY <1>4, <1>5
<1>9. Good(x, g)
  BY <1>7, <1>8
<1> QED
  BY <1>2, <1>9
=============================================================================
