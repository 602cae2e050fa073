----------------------------- MODULE UacpiFields -----------------------------
(***************************************************************************)
(* Fields of AML: extra/uacpi/io.c and the definition of a field in        *)
(* interpreter.c.  Bits are moved and never looked at, so a bit is modelled *)
(* by where it came from: <<"mem", i>>, <<"val", i>>, or a constant.       *)
(***************************************************************************)
EXTENDS Integers, Sequences, FiniteSets

CONSTANTS FieldBits,    \* the region: bits 0 .. FieldBits - 1
          FieldSpans,   \* set of [offset, length]: where a field may lie in it
          FieldWidths,  \* access widths in bytes
          ValueBytes,   \* sizes of a value that is written, and of a place that is read into
          FieldThread,  \* threads that access indexed fields
          FieldLocked   \* their fields have the Lock rule

VARIABLES access, \* [what, offset, length, width, rule, size, mem, out]: one access and its outcome
          user,   \* thread -> [at, hit]: an access of an indexed field
          select, \* the thread whose index is in the index register, or Nobody
          global  \* the thread that owns the global lock, or Nobody

fieldVars == <<access, user, select, global>>

NoThread == "none"
Zero == <<"zero", 0>>
One == <<"one", 0>>
Mem(i) == <<"mem", i>>
Val(i) == <<"val", i>>

(***************************************************************************)
(* Bytes.  A byte is a function on 0 .. 7; a buffer is one on 0 .. n - 1.  *)
(***************************************************************************)
Bit == 0 .. 7
Zeros(n) == [b \in 0 .. n - 1 |-> [i \in Bit |-> Zero]]
Shr(b, n) == [i \in Bit |-> IF i + n \in Bit THEN b[i + n] ELSE Zero]
Shl(b, n) == [i \in Bit |-> IF i - n \in Bit THEN b[i - n] ELSE Zero]
Or(a, b) == [i \in Bit |-> IF a[i] = Zero THEN b[i] ELSE a[i]]
Low(b, n) == [i \in Bit |-> IF i < n THEN b[i] ELSE Zero]
Smaller(a, b) == IF a < b THEN a ELSE b
RoundUp(n, to) == ((n + to - 1) \div to) * to
BytesOf(bits) == RoundUp(bits, 8) \div 8

Bytes(n, f(_)) == [b \in 0 .. n - 1 |-> [i \in Bit |-> f(8 * b + i)]]
At(data, i) == data[i \div 8][i % 8]

\* uacpi_memcpy_zerout
CopyZerout(dst, src, n) == [b \in DOMAIN dst |-> IF b < n THEN (IF b \in DOMAIN src THEN src[b] ELSE [i \in Bit |-> Zero])
                                                 ELSE dst[b]]

cut_misaligned_tail(data, offset, length) ==
    IF length % 8 = 0 THEN data ELSE [data EXCEPT ![offset] = Low(@, length % 8)]

(***************************************************************************)
(* bit_copy, one byte of the destination at a time.                        *)
(***************************************************************************)

\* The next eight bits of the source: c are left, the first in byte p.
NextBits(src, p, c) ==
    LET shift == src.index % 8
        first == Shr(src.data[p], shift)
        both == IF shift > 0 /\ c > 8 - shift THEN Or(first, Shl(src.data[p + 1], 8 - shift)) ELSE first
    IN  IF c = 0 THEN [i \in Bit |-> Zero] ELSE IF c < 8 THEN Low(both, c) ELSE both

\* A slip: the byte behind is written whenever the destination is misaligned.
PutBitsAlways(data, p, shift, c, bits) ==
    LET n == Smaller(c, 8)
        one == [data EXCEPT ![p] = [i \in Bit |-> IF i \in shift .. shift + n - 1 THEN bits[i - shift] ELSE @[i]]]
    IN  IF shift = 0 \/ p + 1 \notin DOMAIN data THEN one
        ELSE [one EXCEPT ![p + 1] = [i \in Bit |-> IF i < shift THEN bits[i + 8 - shift] ELSE @[i]]]

\* They are put into byte p of the destination, and into the one behind it.
PutBits(data, p, shift, c, bits) ==
    LET n == Smaller(c, 8)
        one == [data EXCEPT ![p] = [i \in Bit |-> IF i \in shift .. shift + n - 1 THEN bits[i - shift] ELSE @[i]]]
    IN  IF shift = 0 \/ c <= 8 - shift THEN one
        ELSE [one EXCEPT ![p + 1] = [i \in Bit |-> IF i + 8 <= shift + n - 1 THEN bits[i + 8 - shift] ELSE @[i]]]

RECURSIVE CopyFrom(_, _, _, _, _, _)
CopyFrom(data, dst, src, done, p, c) ==
    IF done >= dst.length THEN data
    ELSE CopyFrom(PutBits(data, dst.index \div 8 + done \div 8, dst.index % 8, dst.length - done,
                          NextBits(src, p, c)),
                  dst, src, done + 8, IF c < 8 THEN p ELSE p + 1, IF c < 8 THEN 0 ELSE c - 8)

bit_copy(dst, src) == CopyFrom(dst.data, dst, src, 0, src.index \div 8, src.length)

Span(data, index, length) == [data |-> data, index |-> index, length |-> length]

(***************************************************************************)
(* Buffer fields: [index, length] of a buffer.                             *)
(***************************************************************************)
uacpi_read_buffer_field(f, data, size) ==
    LET n == BytesOf(f.length)
        from == [b \in 0 .. n - 1 |-> data[f.index \div 8 + b]]
    IN  IF f.index % 8 = 0
        THEN cut_misaligned_tail(CopyZerout(Zeros(size), from, n), n - 1, f.length)
        ELSE bit_copy(Span(Zeros(size), 0, n * 8), Span(data, f.index, f.length))

uacpi_write_buffer_field(f, data, src) ==
    LET n == BytesOf(f.length)
        p == f.index \div 8
        tail == f.length % 8
        whole == [b \in DOMAIN data |-> IF b \notin p .. p + n - 1 THEN data[b]
                                        ELSE IF b - p \in DOMAIN src THEN src[b - p] ELSE [i \in Bit |-> Zero]]
    IN  IF f.index % 8 # 0
        THEN bit_copy(Span(data, f.index, f.length), Span(src, 0, Cardinality(DOMAIN src) * 8))
        ELSE IF tail = 0 THEN whole
        ELSE [whole EXCEPT ![p + n - 1] = [i \in Bit |-> IF i < tail THEN @[i] ELSE data[p + n - 1][i]]]

(***************************************************************************)
(* Field units.  handle_create_field places one at a bit of its region.    *)
(***************************************************************************)
Unit(offset, length, width, rule) ==
    [byte |-> (offset \div 8) - ((offset \div 8) % width), shift |-> offset % (8 * width),
     length |-> length, width |-> width, rule |-> rule]

\* uacpi_dispatch_opregion_io on memory: an integer of eight bytes, of which width count.
ReadUnit(data, byte, width) == [b \in 0 .. 7 |-> IF b < width THEN data[byte + b] ELSE [i \in Bit |-> Zero]]
WriteUnit(data, byte, width, in) ==
    [b \in DOMAIN data |-> IF b \in byte .. byte + width - 1 THEN in[b - byte] ELSE data[b]]

RECURSIVE ReadUnits(_, _, _, _, _, _)
ReadUnits(u, data, out, filled, left, byte) ==
    LET index == IF byte = u.byte THEN u.shift ELSE 0
        n == Smaller(left, u.width * 8 - index)
        size == Cardinality(DOMAIN out) * 8
        next == bit_copy(Span(out, filled, size - filled), Span(ReadUnit(data, byte, u.width), index, n))
    IN  IF left = 0 THEN out
        ELSE ReadUnits(u, data, next, Smaller(size, filled + n), left - n, byte + u.width)

uacpi_read_field_unit(u, data, size) ==
    LET n == BytesOf(u.length)
        out == CopyZerout(Zeros(size), [b \in 0 .. n - 1 |-> ReadUnit(data, u.byte, u.width)[b]], size)
    IN  IF u.shift = 0 /\ n <= u.width
        THEN (IF size >= n THEN cut_misaligned_tail(out, n - 1, u.length) ELSE out)
        ELSE ReadUnits(u, data, Zeros(size), 0, u.length, u.byte)

\* What a partly written unit starts from.
Base(u, data, byte) ==
    CASE u.rule = "preserve" -> ReadUnit(data, byte, u.width)
      [] u.rule = "ones"     -> Bytes(8, LAMBDA i : One)
      [] u.rule = "zeros"    -> Zeros(8)

RECURSIVE WriteUnits(_, _, _, _, _, _)
WriteUnits(u, data, src, taken, left, byte) ==
    LET index == IF byte = u.byte THEN u.shift ELSE 0
        n == Smaller(u.width * 8 - index, left)
        base == IF index # 0 \/ n < u.width * 8 THEN Base(u, data, byte) ELSE Zeros(8)
        size == Cardinality(DOMAIN src) * 8
        in == bit_copy(Span(base, index, n), Span(src, Smaller(size, taken), size - Smaller(size, taken)))
    IN  IF left = 0 THEN data
        ELSE WriteUnits(u, WriteUnit(data, byte, u.width, in), src, taken + n, left - n, byte + u.width)

write_generic_field_unit(u, data, src) == WriteUnits(u, data, src, 0, u.length, u.byte)

(***************************************************************************)
(* One access of each kind, for every place of a field.                    *)
(***************************************************************************)
Region == Bytes(FieldBits \div 8, Mem)
Value(n) == Bytes(n, Val)

\* The units that a field touches lie in the region: uacpi_dispatch_opregion_io refuses others.
Fits(s, width) ==
    LET u == Unit(s.offset, s.length, width, "preserve")
    IN  u.byte * 8 + RoundUp(u.shift + s.length, width * 8) <= FieldBits

FieldsInit ==
    /\ \E s \in FieldSpans, w \in FieldWidths, r \in {"preserve", "ones", "zeros"}, n \in ValueBytes :
         /\ Fits(s, w)
         /\ access = [what |-> "none", offset |-> s.offset, length |-> s.length, width |-> w,
                      rule |-> r, size |-> n, mem |-> Region, out |-> Zeros(0)]
    /\ user = [t \in FieldThread |-> [at |-> "idle", hit |-> t]]
    /\ select = NoThread /\ global = NoThread

Field(a) == Unit(a.offset, a.length, a.width, a.rule)
Buffer(a) == [index |-> a.offset, length |-> a.length]

\* A buffer field is read into at least as many bytes as it has.
Reads(what) ==
    /\ access.what = "none"
    /\ what = "read_buffer" => access.size >= BytesOf(access.length)
    /\ access' = [access EXCEPT !.what = what,
                      !.out = IF what = "read_buffer"
                              THEN uacpi_read_buffer_field(Buffer(access), access.mem, access.size)
                              ELSE uacpi_read_field_unit(Field(access), access.mem, access.size)]
    /\ UNCHANGED <<user, select, global>>

Writes(what) ==
    /\ access.what = "none"
    /\ access' = [access EXCEPT !.what = what,
                      !.mem = IF what = "write_buffer"
                              THEN uacpi_write_buffer_field(Buffer(access), access.mem, Value(access.size))
                              ELSE write_generic_field_unit(Field(access), access.mem, Value(access.size))]
    /\ UNCHANGED <<user, select, global>>

(***************************************************************************)
(* access_field_unit of an indexed field: the index is written, then the   *)
(* data is accessed.  Each goes to the region's handler, which is called   *)
(* without the namespace lock: threads take turns in between.              *)
(***************************************************************************)
Moves(t, from, to) == user[t].at = from /\ user' = [user EXCEPT ![t].at = to]

AcquireGlobalLock(t) ==
    /\ FieldLocked /\ global = NoThread
    /\ Moves(t, "idle", "locked") /\ global' = t /\ UNCHANGED <<access, select>>

WriteIndex(t) ==
    /\ Moves(t, IF FieldLocked THEN "locked" ELSE "idle", "indexed")
    /\ select' = t /\ UNCHANGED <<access, global>>

AccessData(t) ==
    /\ user[t].at = "indexed"
    /\ user' = [user EXCEPT ![t] = [at |-> "accessed", hit |-> select]]
    /\ UNCHANGED <<access, select, global>>

FinishAccess(t) ==
    /\ Moves(t, "accessed", "idle")
    /\ global' = IF FieldLocked THEN NoThread ELSE global
    /\ UNCHANGED <<access, select>>

FieldAccess ==
    \/ \E what \in {"read_buffer", "read_unit"} : Reads(what)
    \/ \E what \in {"write_buffer", "write_unit"} : Writes(what)

IndexedAccess ==
    \E t \in FieldThread : AcquireGlobalLock(t) \/ WriteIndex(t) \/ AccessData(t) \/ FinishAccess(t)

(***************************************************************************)
(* Properties.                                                             *)
(***************************************************************************)
FieldsTypeOK ==
    /\ DOMAIN access.mem = 0 .. FieldBits \div 8 - 1
    /\ \A t \in FieldThread : user[t].at \in {"idle", "locked", "indexed", "accessed"}
    /\ global \in FieldThread \cup {NoThread}

\* Wherever a field lies and in whatever units it is accessed, a read gives its bits, in
\* order and with zeros above them, and a write puts the bits of the value there, zeros for
\* those the value does not have.
Moved ==
    LET a == access
        field == a.offset .. a.offset + a.length - 1
    IN  /\ a.what \in {"read_buffer", "read_unit"} =>
              \A i \in 0 .. a.size * 8 - 1 :
                 At(a.out, i) = IF i < a.length THEN Mem(a.offset + i) ELSE Zero
        /\ a.what \in {"write_buffer", "write_unit"} =>
              \A i \in field : At(a.mem, i) = IF i - a.offset < a.size * 8 THEN Val(i - a.offset) ELSE Zero

\* What a write leaves outside the field: a buffer, and every unit under the Preserve rule,
\* keep their bits; WriteAsOnes and WriteAsZeros fill the units the field touches, no more.
Neighbours ==
    LET a == access
        field == a.offset .. a.offset + a.length - 1
        u == Field(a)
        touched == u.byte * 8 .. u.byte * 8 + RoundUp(u.shift + a.length, a.width * 8) - 1
        kept(i) == \/ a.what # "write_unit" \/ a.rule = "preserve" \/ i \notin touched
    IN  \A i \in 0 .. FieldBits - 1 :
          (i \in field /\ a.what \in {"write_buffer", "write_unit"}) \/
          At(a.mem, i) = IF kept(i) THEN Mem(i) ELSE IF a.rule = "ones" THEN One ELSE Zero

\* With the Lock rule an indexed access reaches the register its own index selected.
OwnIndex == \A t \in FieldThread : user[t].at = "accessed" => user[t].hit = t

\* An access of a field moves exactly the field's bits, leaves the others as its update rule
\* says, and goes to the register it selected (io.c: bit_copy, the loops over access units,
\* and the global lock around the pair of index and data in access_field_unit).
FieldsAreExact == FieldsTypeOK /\ Moved /\ Neighbours /\ OwnIndex
=============================================================================
