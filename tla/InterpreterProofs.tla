-------------------------- MODULE InterpreterProofs --------------------------
(***************************************************************************)
(* The interpreter leaves nothing behind and keeps serialized methods      *)
(* apart, for any AML, any number of threads and any depth of calls.       *)
(***************************************************************************)
EXTENDS UacpiInterpreter, ListProofs

Methods == DOMAIN AmlCode
MutexNames == DOMAIN SyncLevel

BlockType == {"scope", "if", "else", "while"}
BlockOf(m) == [type : BlockType, begin : 0 .. Size(m), end : 0 .. Size(m)]

FrameOf(m) ==
    [method : {m}, pc : 0 .. Size(m), blocks : Seq(BlockOf(m)), slot : [1 .. Size(m) + 1 -> Int],
     prevWhile : Int, prevAge : Int, prevSync : Nat, temp : Seq(AmlName)]

\* Every block begins at an offset of its own, so that there are at most as many of them as
\* instructions were passed: the i-th begins at i - 2 or later.
Nested(f) ==
    /\ Len(f.blocks) <= f.pc + 1
    /\ \A i \in 1 .. Len(f.blocks) :
         i - 2 <= f.blocks[i].begin /\ f.blocks[i].begin <= f.blocks[i].end

\* The outermost block is the method's, and it is left at the end of the code only.
Rooted(f) ==
    /\ Len(f.blocks) = 0 => f.pc = Size(f.method)
    /\ Len(f.blocks) > 0 => f.blocks[1].type = "scope" /\ f.blocks[1].end = Size(f.method)

GoodFrame == {f \in UNION {FrameOf(m) : m \in Methods} : Nested(f) /\ Rooted(f)}

LEMMA SizeIsNat == ASSUME NEW m \in Methods PROVE Size(m) \in Nat
  BY AmlAssumption DEF Methods

LEMMA GoodFrameFacts ==
    ASSUME NEW f \in GoodFrame
    PROVE  /\ f.method \in Methods /\ f \in FrameOf(f.method) /\ Nested(f) /\ Rooted(f)
           /\ f.pc \in 0 .. Size(f.method) /\ Size(f.method) \in Nat
           /\ f.blocks \in Seq(BlockOf(f.method)) /\ Len(f.blocks) \in Nat
           /\ Len(f.blocks) <= Size(f.method) + 1
           /\ \A i \in 1 .. Len(f.blocks) : f.blocks[i] \in BlockOf(f.method)
           /\ f.temp \in Seq(AmlName)
<1>1. PICK m \in Methods : f \in FrameOf(m)
  BY DEF GoodFrame
<1>2. f.method = m
  BY <1>1 DEF FrameOf
<1>3. f.pc \in 0 .. Size(m) /\ f.blocks \in Seq(BlockOf(m)) /\ f.temp \in Seq(AmlName) /\ Nested(f)
      /\ Rooted(f)
  BY <1>1 DEF FrameOf, GoodFrame
<1>4. Len(f.blocks) \in Nat /\ \A i \in 1 .. Len(f.blocks) : f.blocks[i] \in BlockOf(m)
  BY <1>3, LenProperties, ElementOfSeq
<1> QED
  BY <1>1, <1>2, <1>3, <1>4, SizeIsNat DEF Nested

LEMMA IsGoodFrame ==
    ASSUME NEW m \in Methods, NEW f \in FrameOf(m), Nested(f), Rooted(f) PROVE f \in GoodFrame
  BY DEF GoodFrame

\* Blocks that another frame has too, and an offset that is far enough.
LEMMA FewerIsNested ==
    ASSUME NEW f \in GoodFrame, NEW g, NEW k \in 0 .. Len(f.blocks), Len(g.blocks) = k,
           g.pc \in Int, k <= g.pc + 1, \A i \in 1 .. k : g.blocks[i] = f.blocks[i]
    PROVE  Nested(g)
<1>1. Len(f.blocks) \in Nat /\ Nested(f)
  BY GoodFrameFacts
<1>2. ASSUME NEW i \in 1 .. k PROVE i - 2 <= g.blocks[i].begin /\ g.blocks[i].begin <= g.blocks[i].end
  <2>1. i \in 1 .. Len(f.blocks)
    BY <1>1
  <2> QED
    BY <1>1, <2>1 DEF Nested
<1> QED
  BY <1>2 DEF Nested

LEMMA NewFrameIsGood ==
    ASSUME NEW m \in Methods, NEW sync \in Nat
    PROVE  /\ NewFrame(m, sync) \in GoodFrame
           /\ NewFrame(m, sync).method = m /\ NewFrame(m, sync).temp = <<>>
<1> DEFINE b == [type |-> "scope", begin |-> 0, end |-> Size(m)]
<1>1. Size(m) \in Nat
  BY SizeIsNat
<1>2. b \in BlockOf(m)
  BY <1>1 DEF BlockOf, BlockType
<1>3. <<b>> \in Seq(BlockOf(m)) /\ Len(<<b>>) = 1 /\ <<b>>[1] = b
  BY <1>2
<1>4. [i \in 1 .. Size(m) + 1 |-> -1] \in [1 .. Size(m) + 1 -> Int]
  OBVIOUS
<1>5. <<>> \in Seq(AmlName)
  OBVIOUS
<1>6. b.begin = 0 /\ b.end = Size(m) /\ b.type = "scope"
  OBVIOUS
<1> HIDE DEF b
<1>7. NewFrame(m, sync) = [method |-> m, pc |-> 0, blocks |-> <<b>>,
        slot |-> [i \in 1 .. Size(m) + 1 |-> -1], prevWhile |-> -1, prevAge |-> -1,
        prevSync |-> sync, temp |-> <<>>]
  BY DEF NewFrame, b
<1>8. NewFrame(m, sync) \in FrameOf(m)
  BY <1>1, <1>3, <1>4, <1>5, <1>7 DEF FrameOf
<1>9. Nested(NewFrame(m, sync)) /\ Rooted(NewFrame(m, sync))
  BY <1>1, <1>3, <1>6, <1>7 DEF Nested, Rooted
<1> QED
  BY <1>7, <1>8, <1>9, IsGoodFrame

\* The offset of a frame moves to where as many instructions were passed.
LEMMA MoveIsGood ==
    ASSUME NEW f \in GoodFrame, NEW p \in 0 .. Size(f.method), Len(f.blocks) <= p + 1,
           Len(f.blocks) = 0 => p = Size(f.method)
    PROVE  LET g == [f EXCEPT !.pc = p]
           IN  g \in GoodFrame /\ g.method = f.method /\ g.temp = f.temp /\ g.pc = p /\ g.blocks = f.blocks
<1> DEFINE g == [f EXCEPT !.pc = p]
<1>1. f.method \in Methods /\ f \in FrameOf(f.method) /\ Nested(f) /\ Rooted(f)
  BY GoodFrameFacts
<1>2. g \in FrameOf(f.method) /\ g.method = f.method /\ g.temp = f.temp /\ g.pc = p /\ g.blocks = f.blocks
  BY <1>1 DEF FrameOf
<1> HIDE DEF g
<1>3. Nested(g) /\ Rooted(g)
  BY <1>1, <1>2 DEF Nested, Rooted
<1> QED
  BY <1>1, <1>2, <1>3, IsGoodFrame DEF g

\* frame_reset_post_end_block keeps the blocks below the one that ends.
LEMMA EndBlockIsGood ==
    ASSUME NEW f \in GoodFrame, f.blocks # <<>>, Len(f.blocks) = 1 => f.pc = Size(f.method)
    PROVE  LET g == EndBlockOf(f)
           IN  /\ g \in GoodFrame /\ g.method = f.method /\ g.temp = f.temp /\ g.pc = f.pc
               /\ Len(g.blocks) = Len(f.blocks) - 1 /\ Len(f.blocks) >= 1
<1> DEFINE n == Len(f.blocks)
           g == IF Block(f).type # "while" THEN f
                ELSE [f EXCEPT !.prevWhile = Block(f).begin, !.prevAge = f.slot[Len(f.blocks)]]
           h == [g EXCEPT !.blocks = Front(@)]
           m == f.method
<1>1. /\ m \in Methods /\ f \in FrameOf(m) /\ Nested(f) /\ f.blocks \in Seq(BlockOf(m)) /\ n \in Nat
      /\ n <= Size(m) + 1 /\ Size(m) \in Nat /\ \A i \in 1 .. n : f.blocks[i] \in BlockOf(m)
  BY GoodFrameFacts
<1>2. /\ Front(f.blocks) \in Seq(BlockOf(m)) /\ Len(Front(f.blocks)) = n - 1 /\ n >= 1
      /\ \A i \in 1 .. n - 1 : Front(f.blocks)[i] = f.blocks[i]
  BY <1>1, FrontIs
<1>3. Block(f).begin \in Int /\ f.slot[Len(f.blocks)] \in Int
  <2>1. n \in 1 .. n /\ n \in 1 .. Size(m) + 1
    BY <1>1, <1>2
  <2>2. f.slot \in [1 .. Size(m) + 1 -> Int]
    BY <1>1 DEF FrameOf
  <2>3. Block(f) \in BlockOf(m)
    BY <1>1, <2>1 DEF Block
  <2>4. Block(f).begin \in 0 .. Size(m)
    BY <2>3 DEF BlockOf
  <2>5. f.slot[n] \in Int
    BY <2>1, <2>2
  <2> QED
    BY <1>1, <2>4, <2>5
<1>4. /\ g \in FrameOf(m) /\ g.method = m /\ g.temp = f.temp /\ g.pc = f.pc /\ g.blocks = f.blocks
  BY <1>1, <1>3 DEF FrameOf
<1>5. EndBlockOf(f) = h
  BY DEF EndBlockOf
<1> HIDE DEF g
<1>6. /\ h \in FrameOf(m) /\ h.method = m /\ h.temp = f.temp /\ h.pc = f.pc
      /\ h.blocks = Front(f.blocks)
  BY <1>2, <1>4 DEF FrameOf
<1> HIDE DEF h, m
<1>7. f.pc \in Int
  BY GoodFrameFacts
<1>8. Nested(h)
  <2>1. n <= f.pc + 1
    BY <1>1 DEF Nested
  <2>2. Len(h.blocks) = n - 1 /\ h.pc \in Int /\ n - 1 <= h.pc + 1 /\ n - 1 \in 0 .. n
    BY <1>1, <1>2, <1>6, <1>7, <2>1
  <2>3. \A i \in 1 .. n - 1 : h.blocks[i] = f.blocks[i]
    BY <1>1, <1>2, <1>6
  <2> QED
    BY <2>2, <2>3, FewerIsNested
<1>9. Rooted(h)
  <2>1. Rooted(f)
    BY GoodFrameFacts
  <2>2. n - 1 > 0 => 1 \in 1 .. n - 1 /\ n > 0
    BY <1>1
  <2>3. Len(h.blocks) = n - 1 /\ h.pc = f.pc /\ h.method = f.method
    BY <1>2, <1>6 DEF m
  <2>4. n - 1 > 0 => h.blocks[1] = f.blocks[1]
    BY <1>2, <1>6, <2>2
  <2>5. n - 1 = 0 => n = 1
    BY <1>1
  <2> QED
    BY <2>1, <2>2, <2>3, <2>4, <2>5 DEF Rooted
<1> QED
  BY <1>1, <1>2, <1>5, <1>6, <1>8, <1>9, IsGoodFrame DEF m

\* begin_block_execution: the new block begins where no other one did.
LEMMA BeginBlockIsGood ==
    ASSUME NEW f \in GoodFrame, NEW type \in BlockType, NEW begin \in 0 .. Size(f.method) - 1,
           NEW end \in 0 .. Size(f.method), f.pc <= begin, begin <= end
    PROVE  LET g == BeginBlock(f, type, begin, end)
           IN  g \in GoodFrame /\ g.method = f.method /\ g.temp = f.temp
<1> DEFINE n == Len(f.blocks)
           m == f.method
           b == [type |-> type, begin |-> begin, end |-> end]
           age == IF begin = f.prevWhile THEN f.prevAge ELSE 0
           g == [f EXCEPT !.blocks = Append(@, b), !.slot[n + 1] = IF type = "while" THEN age ELSE @,
                          !.pc = begin + 1]
<1>1. /\ m \in Methods /\ f \in FrameOf(m) /\ Nested(f) /\ f.blocks \in Seq(BlockOf(m)) /\ n \in Nat
      /\ f.pc \in 0 .. Size(m) /\ Size(m) \in Nat /\ \A i \in 1 .. n : f.blocks[i] \in BlockOf(m)
  BY GoodFrameFacts
<1>2. BeginBlock(f, type, begin, end) = g
  BY DEF BeginBlock
<1>3. b \in BlockOf(m) /\ b.begin = begin /\ b.end = end
  BY <1>1 DEF BlockOf
<1> HIDE DEF b
<1>4. /\ Append(f.blocks, b) \in Seq(BlockOf(m)) /\ Len(Append(f.blocks, b)) = n + 1
      /\ Append(f.blocks, b)[n + 1] = b /\ \A i \in 1 .. n : Append(f.blocks, b)[i] = f.blocks[i]
  BY <1>1, <1>3, AppendProperties
<1>5. n <= f.pc + 1 /\ \A i \in 1 .. n : /\ i - 2 <= f.blocks[i].begin
                                        /\ f.blocks[i].begin <= f.blocks[i].end
  BY <1>1 DEF Nested
<1>6. f.slot \in [1 .. Size(m) + 1 -> Int] /\ f.prevAge \in Int
  BY <1>1 DEF FrameOf
<1>7. n + 1 \in 1 .. Size(m) + 1 /\ begin + 1 \in 0 .. Size(m)
  BY <1>1, <1>5
<1>8. age \in Int
  BY <1>6
<1> HIDE DEF age
<1>9. /\ g \in FrameOf(m) /\ g.method = m /\ g.temp = f.temp /\ g.pc = begin + 1
      /\ g.blocks = Append(f.blocks, b)
  <2> DEFINE sl == [f.slot EXCEPT ![n + 1] = IF type = "while" THEN age ELSE @]
  <2>1. sl \in [1 .. Size(m) + 1 -> Int]
    BY <1>6, <1>7, <1>8
  <2>2. g = [f EXCEPT !.blocks = Append(f.blocks, b), !.slot = sl, !.pc = begin + 1]
    BY <1>1 DEF FrameOf
  <2> HIDE DEF sl, g
  <2> QED
    BY <1>1, <1>4, <1>7, <2>1, <2>2 DEF FrameOf
<1> HIDE DEF g
<1>10. Nested(g)
  <2>1. Len(g.blocks) = n + 1 /\ n + 1 <= g.pc + 1
    BY <1>1, <1>4, <1>5, <1>9
  <2>2. ASSUME NEW i \in 1 .. n + 1
        PROVE  i - 2 <= g.blocks[i].begin /\ g.blocks[i].begin <= g.blocks[i].end
    <3>1. CASE i = n + 1
      <4>1. g.blocks[i].begin = begin /\ g.blocks[i].end = end
        BY <1>3, <1>4, <1>9, <3>1
      <4>2. n \in Nat /\ f.pc \in Nat /\ begin \in Nat /\ end \in Nat
        BY <1>1
      <4>3. n + 1 - 2 <= begin
        <5> HIDE DEF n
        <5> QED
          BY <1>5, <4>2
      <4> QED
        BY <3>1, <4>1, <4>3
    <3>2. CASE i # n + 1
      <4>1. n \in Nat
        BY <1>1
      <4>2. i \in 1 .. n
        <5> HIDE DEF n
        <5> QED
          BY <3>2, <4>1
      <4> QED
        BY <1>4, <1>5, <1>9, <4>2
    <3> QED
      BY <3>1, <3>2
  <2> QED
    BY <2>1, <2>2 DEF Nested
<1>11. Rooted(g)
  <2>1. Rooted(f)
    BY GoodFrameFacts
  <2>2. n > 0
    BY <1>1, <2>1 DEF Rooted
  <2>3. 1 \in 1 .. n /\ n + 1 # 0
    BY <1>1, <2>2
  <2>4. Len(g.blocks) = n + 1 /\ g.blocks[1] = f.blocks[1]
    BY <1>4, <1>9, <2>3
  <2> QED
    BY <1>9, <2>1, <2>2, <2>3, <2>4 DEF Rooted
<1> QED
  BY <1>1, <1>2, <1>9, <1>10, <1>11, IsGoodFrame

\* Break and Continue drop the blocks inside the loop first.
LEMMA CutIsGood ==
    ASSUME NEW f \in GoodFrame, NEW k \in 1 .. Len(f.blocks)
    PROVE  LET g == [f EXCEPT !.blocks = SubSeq(@, 1, k)]
           IN  g \in GoodFrame /\ g.method = f.method /\ g.temp = f.temp /\ g.pc = f.pc /\ Len(g.blocks) = k
<1> DEFINE n == Len(f.blocks)
           m == f.method
           g == [f EXCEPT !.blocks = SubSeq(@, 1, k)]
<1>1. /\ m \in Methods /\ f \in FrameOf(m) /\ Nested(f) /\ f.blocks \in Seq(BlockOf(m)) /\ n \in Nat
      /\ f.pc \in 0 .. Size(m) /\ Size(m) \in Nat /\ \A i \in 1 .. n : f.blocks[i] \in BlockOf(m)
  BY GoodFrameFacts
<1>2. k \in Int /\ k >= 1 /\ k <= n /\ \A i \in 1 .. k : i \in 1 .. n
  BY <1>1
<1>3. \A i \in 1 .. k : f.blocks[i] \in BlockOf(m)
  BY <1>1, <1>2
<1>4. /\ SubSeq(f.blocks, 1, k) \in Seq(BlockOf(m))
      /\ Len(SubSeq(f.blocks, 1, k)) = IF 1 <= k THEN k - 1 + 1 ELSE 0
      /\ \A i \in 1 .. k - 1 + 1 : SubSeq(f.blocks, 1, k)[i] = f.blocks[1 + i - 1]
  BY <1>2, <1>3, SubSeqProperties
<1>5. /\ Len(SubSeq(f.blocks, 1, k)) = k
      /\ \A i \in 1 .. k : SubSeq(f.blocks, 1, k)[i] = f.blocks[i]
  <2>1. \A i \in 1 .. k : i \in 1 .. k - 1 + 1 /\ 1 + i - 1 = i
    BY <1>2
  <2> QED
    BY <1>2, <1>4, <2>1
<1>6. /\ g \in FrameOf(m) /\ g.method = m /\ g.temp = f.temp /\ g.pc = f.pc
      /\ g.blocks = SubSeq(f.blocks, 1, k)
  BY <1>1, <1>4 DEF FrameOf
<1> HIDE DEF g, n
<1>7. Nested(g)
  <2>1. n <= f.pc + 1
    BY <1>1 DEF Nested, n
  <2>2. Len(g.blocks) = k /\ g.pc \in Int /\ k <= g.pc + 1 /\ k \in 0 .. n
    BY <1>1, <1>2, <1>5, <1>6, <2>1
  <2>3. \A i \in 1 .. k : g.blocks[i] = f.blocks[i]
    BY <1>5, <1>6
  <2> QED
    BY <2>2, <2>3, FewerIsNested DEF n
<1>8. Rooted(g)
  <2>1. Rooted(f)
    BY GoodFrameFacts
  <2>2. 1 \in 1 .. k /\ Len(g.blocks) = k /\ g.blocks[1] = f.blocks[1] /\ n > 0
    BY <1>1, <1>2, <1>5, <1>6
  <2> QED
    BY <1>2, <1>6, <2>1, <2>2 DEF Rooted, n
<1> QED
  BY <1>1, <1>5, <1>6, <1>7, <1>8, IsGoodFrame DEF g

\* Time changes the ages of a frame's loops only.
LEMMA AgedIsGood ==
    ASSUME NEW f \in GoodFrame
    PROVE  Aged(f) \in GoodFrame /\ Aged(f).method = f.method /\ Aged(f).temp = f.temp
<1> DEFINE m == f.method
           sl == [i \in DOMAIN f.slot |-> Older(f.slot[i])]
           g == [f EXCEPT !.prevAge = Older(f.prevAge), !.slot = sl]
<1>1. m \in Methods /\ f \in FrameOf(m) /\ Nested(f) /\ Rooted(f)
  BY GoodFrameFacts
<1>2. \A a \in Int : Older(a) \in Int
  BY DEF Older
<1>3. f.slot \in [1 .. Size(m) + 1 -> Int] /\ f.prevAge \in Int
  BY <1>1 DEF FrameOf
<1>4. sl \in [1 .. Size(m) + 1 -> Int] /\ Older(f.prevAge) \in Int
  BY <1>2, <1>3
<1>5. Aged(f) = g
  BY <1>1 DEF Aged, FrameOf
<1> HIDE DEF sl
<1>6. /\ g \in FrameOf(m) /\ g.method = m /\ g.temp = f.temp /\ g.pc = f.pc /\ g.blocks = f.blocks
  BY <1>1, <1>4 DEF FrameOf
<1> HIDE DEF g
<1>7. Nested(g) /\ Rooted(g)
  BY <1>1, <1>6 DEF Nested, Rooted
<1> QED
  BY <1>1, <1>5, <1>6, <1>7, IsGoodFrame

(***************************************************************************)
(* Contexts.                                                               *)
(***************************************************************************)
States == {"idle", "start", "run", "failed", "done"}
WaitRec == [m : MutexNames \cup Methods \cup {Nobody}, why : {"none", "enter", "acquire", "sleep"},
            got : BOOLEAN]
CtxRec == [state : States, frames : Seq(GoodFrame), held : Seq(MutexNames), sync : Nat,
           unwind : 0 .. 2, wait : WaitRec]

\* A thread outside an evaluation has nothing; a method that waits to be entered has room on
\* the stack, which is tested before the wait.
GoodCtx(c) ==
    /\ c \in CtxRec /\ Len(c.frames) <= CallDepth
    /\ c.state \in {"idle", "start", "done"} =>
         c.frames = <<>> /\ c.held = <<>> /\ c.wait.why = "none"
    /\ c.state = "start" => c.wait.m \in Methods
    /\ c.wait.why = "enter" => c.wait.m \in Serialized /\ Len(c.frames) < CallDepth
    /\ c.wait.why = "acquire" => c.wait.m \in MutexNames
    /\ c.wait.got => c.wait.why \in {"enter", "acquire"}

\* d has the frames, nodes and mutexes of c, and waits for nothing.
SameShape(c, d) ==
    /\ GoodCtx(d) /\ d.held = c.held /\ d.wait.why = "none" /\ Len(d.frames) = Len(c.frames)
    /\ \A k \in 1 .. Len(c.frames) : /\ d.frames[k].method = c.frames[k].method
                                     /\ d.frames[k].temp = c.frames[k].temp

LEMMA SerializedNames == Serialized \subseteq Methods /\ Serialized \subseteq MutexNames
  BY AmlAssumption DEF Methods, MutexNames

LEMMA CtxIsGood ==
    ASSUME NEW state \in States, state # "start"
    PROVE  /\ GoodCtx(Ctx(state)) /\ Ctx(state).frames = <<>> /\ Ctx(state).held = <<>>
           /\ Ctx(state).wait.why = "none" /\ ~Ctx(state).wait.got /\ Ctx(state).state = state
<1>1. <<>> \in Seq(GoodFrame) /\ <<>> \in Seq(MutexNames) /\ Len(<<>>) = 0
  OBVIOUS
<1>2. NoWait \in WaitRec /\ NoWait.why = "none" /\ ~NoWait.got
  BY DEF NoWait, WaitRec
<1>3. 0 \in Nat /\ 0 \in 0 .. 2 /\ 0 <= CallDepth
  BY AmlAssumption
<1>4. Ctx(state) \in CtxRec
  BY <1>1, <1>2, <1>3 DEF Ctx, CtxRec
<1> QED
  BY <1>1, <1>2, <1>3, <1>4 DEF Ctx, GoodCtx

LEMMA GoodCtxFacts ==
    ASSUME NEW c, GoodCtx(c)
    PROVE  /\ c \in CtxRec /\ c.frames \in Seq(GoodFrame) /\ c.held \in Seq(MutexNames) /\ c.sync \in Nat
           /\ c.wait \in WaitRec /\ c.unwind \in 0 .. 2 /\ c.state \in States
           /\ Len(c.frames) \in 0 .. CallDepth /\ DOMAIN c.frames = 1 .. Len(c.frames)
           /\ Len(c.held) \in Nat /\ DOMAIN c.held = 1 .. Len(c.held)
           /\ \A k \in 1 .. Len(c.frames) : c.frames[k] \in GoodFrame
           /\ \A k \in 1 .. Len(c.held) : c.held[k] \in MutexNames
           /\ c.wait.why = "none" => c.wait.got = FALSE
<1>1. /\ c \in CtxRec /\ c.frames \in Seq(GoodFrame) /\ c.held \in Seq(MutexNames) /\ c.sync \in Nat
      /\ c.wait \in WaitRec /\ c.unwind \in 0 .. 2 /\ c.state \in States
  BY DEF GoodCtx, CtxRec
<1>2. /\ Len(c.frames) \in Nat /\ DOMAIN c.frames = 1 .. Len(c.frames)
      /\ Len(c.held) \in Nat /\ DOMAIN c.held = 1 .. Len(c.held)
  BY <1>1, LenProperties
<1>3. Len(c.frames) \in 0 .. CallDepth
  BY <1>2, AmlAssumption DEF GoodCtx
<1>4. \A k \in 1 .. Len(c.frames) : c.frames[k] \in GoodFrame
  BY <1>1, ElementOfSeq
<1>5. \A k \in 1 .. Len(c.held) : c.held[k] \in MutexNames
  BY <1>1, ElementOfSeq
<1>6. c.wait.got \in BOOLEAN
  BY <1>1 DEF WaitRec
<1>7. c.wait.why = "none" => c.wait.got = FALSE
  BY <1>6 DEF GoodCtx
<1> QED
  BY <1>1, <1>2, <1>3, <1>4, <1>5, <1>7

LEMMA FramesAreCounted == ASSUME NEW c, GoodCtx(c) PROVE Len(c.frames) \in Nat
<1>1. CallDepth \in Nat
  BY AmlAssumption
<1>2. Len(c.frames) \in 0 .. CallDepth
  BY GoodCtxFacts
<1> QED
  BY <1>1, <1>2

LEMMA TopFacts ==
    ASSUME NEW c, GoodCtx(c), c.frames # <<>>
    PROVE  /\ Len(c.frames) \in 1 .. CallDepth /\ Top(c) \in GoodFrame /\ Top(c) = c.frames[Len(c.frames)]
           /\ c.state \in {"run", "failed"}
<1>1. c.frames \in Seq(GoodFrame) /\ Len(c.frames) \in 0 .. CallDepth /\ c.state \in States
  BY GoodCtxFacts
<1>2. Len(c.frames) \in 1 .. CallDepth
  BY <1>1, EmptySeq
<1>3. Top(c) \in GoodFrame /\ Top(c) = c.frames[Len(c.frames)]
  BY <1>1, <1>2, GoodCtxFacts DEF Top
<1> QED
  BY <1>1, <1>2, <1>3 DEF GoodCtx, States

LEMMA WithTopIsGood ==
    ASSUME NEW c, GoodCtx(c), c.frames # <<>>, c.wait.why = "none",
           NEW g \in GoodFrame, g.method = Top(c).method
    PROVE  LET d == WithTop(c, g)
           IN  /\ GoodCtx(d) /\ d.held = c.held /\ d.wait = c.wait /\ d.sync = c.sync /\ d.state = c.state
               /\ d.unwind = c.unwind /\ d.frames # <<>>
               /\ Len(d.frames) = Len(c.frames) /\ Top(d) = g
               /\ \A k \in 1 .. Len(c.frames) :
                    d.frames[k] = IF k = Len(c.frames) THEN g ELSE c.frames[k]
<1> DEFINE n == Len(c.frames)
           s == [c.frames EXCEPT ![n] = g]
           d == [c EXCEPT !.frames = s]
<1>1. c \in CtxRec /\ c.frames \in Seq(GoodFrame) /\ n \in 1 .. CallDepth /\ c.state \in {"run", "failed"}
  BY GoodCtxFacts, TopFacts
<1>2. /\ s \in Seq(GoodFrame) /\ Len(s) = n
      /\ \A k \in 1 .. n : s[k] = IF k = n THEN g ELSE c.frames[k]
  BY <1>1, ExceptSeq
<1>3. WithTop(c, g) = d
  BY <1>1 DEF WithTop, CtxRec
<1> HIDE DEF s
<1>4. /\ d \in CtxRec /\ d.frames = s /\ d.held = c.held /\ d.wait = c.wait /\ d.sync = c.sync
      /\ d.state = c.state /\ d.unwind = c.unwind
  BY <1>1, <1>2 DEF CtxRec
<1>5. s # <<>>
  BY <1>1, <1>2
<1> HIDE DEF d
<1>6. GoodCtx(d)
  BY <1>1, <1>2, <1>4 DEF GoodCtx
<1>7. n \in 1 .. n
  BY <1>1
<1>8. Top(d) = g
  BY <1>2, <1>4, <1>7 DEF Top
<1> QED
  BY <1>2, <1>3, <1>4, <1>5, <1>6, <1>8

\* A frame at the top that differs in its offset, its blocks and its loops only.
LEMMA WithTopIsSame ==
    ASSUME NEW c, GoodCtx(c), c.frames # <<>>, c.wait.why = "none",
           NEW g \in GoodFrame, g.method = Top(c).method, g.temp = Top(c).temp
    PROVE  SameShape(c, WithTop(c, g))
<1> DEFINE d == WithTop(c, g)
<1>1. /\ GoodCtx(d) /\ d.held = c.held /\ d.wait = c.wait /\ Len(d.frames) = Len(c.frames)
      /\ \A k \in 1 .. Len(c.frames) : d.frames[k] = IF k = Len(c.frames) THEN g ELSE c.frames[k]
  BY WithTopIsGood
<1> HIDE DEF d
<1> QED
  BY <1>1 DEF SameShape, Top, d

LEMMA UnwindIsSame ==
    ASSUME NEW c, NEW d, GoodCtx(c), SameShape(c, d), NEW u \in 0 .. 2
    PROVE  SameShape(c, [d EXCEPT !.unwind = u])
<1> DEFINE e == [d EXCEPT !.unwind = u]
<1>1. GoodCtx(d) /\ d \in CtxRec
  BY DEF SameShape, GoodCtx
<1>2. /\ e \in CtxRec /\ e.frames = d.frames /\ e.held = d.held /\ e.wait = d.wait /\ e.state = d.state
  BY <1>1 DEF CtxRec
<1> HIDE DEF e
<1>3. GoodCtx(e)
  BY <1>1, <1>2 DEF GoodCtx
<1> QED
  BY <1>2, <1>3 DEF SameShape, e

LEMMA SameAsItself ==
    ASSUME NEW c, GoodCtx(c), c.wait.why = "none" PROVE SameShape(c, c)
  BY DEF SameShape

LEMMA PastIsGood ==
    ASSUME NEW c, GoodCtx(c), c.frames # <<>>, c.wait.why = "none", InCode(Top(c))
    PROVE  /\ SameShape(c, Past(c)) /\ Past(c).frames # <<>> /\ Past(c).sync = c.sync
           /\ Top(Past(c)).method = Top(c).method /\ Past(c).state = c.state
           /\ Top(Past(c)) \in GoodFrame
<1> DEFINE f == Top(c)
           g == [f EXCEPT !.pc = f.pc + 1]
<1>1. f \in GoodFrame
  BY TopFacts
<1>2. f \in FrameOf(f.method) /\ f.pc \in 0 .. Size(f.method) /\ Size(f.method) \in Nat /\ Nested(f)
  BY <1>1, GoodFrameFacts
<1>3. /\ f.pc + 1 \in 0 .. Size(f.method) /\ Len(f.blocks) <= f.pc + 1 + 1 /\ Len(f.blocks) # 0
  BY <1>1, <1>2, GoodFrameFacts DEF InCode, Nested, Rooted
<1>4. g \in GoodFrame /\ g.method = f.method /\ g.temp = f.temp
  <2> DEFINE p == f.pc + 1
  <2>1. p \in 0 .. Size(f.method) /\ Len(f.blocks) <= p + 1 /\ Len(f.blocks) # 0
    BY <1>3
  <2> HIDE DEF p
  <2>2. [f EXCEPT !.pc = p] \in GoodFrame /\ [f EXCEPT !.pc = p].method = f.method
        /\ [f EXCEPT !.pc = p].temp = f.temp
    BY <1>1, <2>1, MoveIsGood
  <2> QED
    BY <2>2 DEF p
<1>5. Past(c) = WithTop(c, g)
  BY <1>2 DEF Past, FrameOf
<1> HIDE DEF g, f
<1>6. SameShape(c, WithTop(c, g))
  BY <1>4, WithTopIsSame DEF f
<1>7. WithTop(c, g).frames # <<>> /\ WithTop(c, g).sync = c.sync /\ Top(WithTop(c, g)) = g
      /\ WithTop(c, g).state = c.state
  BY <1>4, WithTopIsGood DEF f
<1> QED
  BY <1>4, <1>5, <1>6, <1>7 DEF f

(***************************************************************************)
(* The invariant.                                                          *)
(***************************************************************************)
Owns(c, m) == (\E i \in DOMAIN c.held : c.held[i] = m) \/ (c.wait.m = m /\ c.wait.got)

\* A mutex that has just been got is not listed yet: it is listed when the namespace lock is
\* taken again, and would be listed twice otherwise.
MutexesOK(A, M) ==
    /\ \A m \in MutexNames, t \in AmlThread : M[m].owner = t <=> Owns(A[t], m)
    /\ \A t \in AmlThread : IsInjective(A[t].held)
    /\ \A t \in AmlThread : A[t].wait.got => \A i \in DOMAIN A[t].held : A[t].held[i] # A[t].wait.m

ListsIn(c, k, n) == k \in DOMAIN c.frames /\ n \in Range(c.frames[k].temp)

NodesOK(A, N) ==
    \A n \in AmlName :
        /\ N[n] = "temporary" <=> \E t \in AmlThread, k \in 1 .. CallDepth : ListsIn(A[t], k, n)
        /\ \A t, u \in AmlThread, k, l \in 1 .. CallDepth :
              ListsIn(A[t], k, n) /\ ListsIn(A[u], l, n) => t = u /\ k = l

AmlTyped ==
    /\ aml \in [AmlThread -> CtxRec] /\ \A t \in AmlThread : GoodCtx(aml[t])
    /\ lock \in AmlThread \cup {Nobody}
    /\ mutexes \in [MutexNames -> [owner : AmlThread \cup {Nobody}, depth : Nat]]
    /\ nodes \in [AmlName -> {"none", "temporary", "permanent"}]
    /\ \A t \in AmlThread : lock = t => aml[t].wait.why = "none"

\* INVARIANT: what is preserved by every step.
AmlIInv == AmlTyped /\ MutexesOK(aml, mutexes) /\ NodesOK(aml, nodes)

\* A context that takes the place of another one in t.
LEMMA TypedStep ==
    ASSUME AmlTyped, NEW t \in AmlThread, NEW d, GoodCtx(d), aml' = [aml EXCEPT ![t] = d],
           lock' \in {lock, t, Nobody}, lock' = t => d.wait.why = "none",
           mutexes' \in [MutexNames -> [owner : AmlThread \cup {Nobody}, depth : Nat]],
           nodes' \in [AmlName -> {"none", "temporary", "permanent"}]
    PROVE  AmlTyped'
<1>1. d \in CtxRec
  BY DEF GoodCtx
<1>2. aml' \in [AmlThread -> CtxRec] /\ aml'[t] = d /\ \A u \in AmlThread \ {t} : aml'[u] = aml[u]
  BY <1>1 DEF AmlTyped
<1>3. \A u \in AmlThread : GoodCtx(aml'[u])
  BY <1>2 DEF AmlTyped
<1>4. lock' \in AmlThread \cup {Nobody}
  BY DEF AmlTyped
<1>5. ASSUME NEW u \in AmlThread, lock' = u PROVE aml'[u].wait.why = "none"
  BY <1>2, <1>5, AmlAssumption DEF AmlTyped
<1> QED
  BY <1>2, <1>3, <1>4, <1>5 DEF AmlTyped

\* The same mutexes, and the same owners.
LEMMA MutexesSame ==
    ASSUME NEW A, NEW B, NEW M, NEW Q, MutexesOK(A, M),
           \A u \in AmlThread : /\ B[u].held = A[u].held /\ (B[u].wait.got <=> A[u].wait.got)
                                /\ A[u].wait.got => B[u].wait.m = A[u].wait.m,
           \A m \in MutexNames : Q[m].owner = M[m].owner
    PROVE  MutexesOK(B, Q)
<1>1. \A u \in AmlThread, m \in MutexNames : Owns(B[u], m) <=> Owns(A[u], m)
  BY DEF Owns
<1> QED
  BY <1>1 DEF MutexesOK

LEMMA NodesSame ==
    ASSUME NEW A, NEW B, NEW N, NodesOK(A, N),
           \A u \in AmlThread, k \in 1 .. CallDepth, n \in AmlName : ListsIn(B[u], k, n) <=> ListsIn(A[u], k, n)
    PROVE  NodesOK(B, N)
  BY DEF NodesOK

LEMMA ShapeLists ==
    ASSUME NEW c, NEW d, GoodCtx(c), SameShape(c, d)
    PROVE  /\ \A k \in 1 .. CallDepth, n \in AmlName : ListsIn(d, k, n) <=> ListsIn(c, k, n)
           /\ DOMAIN d.frames = DOMAIN c.frames
<1>1. DOMAIN c.frames = 1 .. Len(c.frames) /\ DOMAIN d.frames = 1 .. Len(d.frames)
  BY GoodCtxFacts DEF SameShape
<1> QED
  BY <1>1 DEF SameShape, ListsIn

\* One turn of the loop that changes neither frames, nodes nor mutexes.
Turned(t) == \E d : SameShape(aml[t], d) /\ Turn(t, d)

\* A step of t, which runs or is about to, that changes none of them; the lock may go.
LEMMA ShapeStep ==
    ASSUME AmlIInv, NEW t \in AmlThread, aml[t].wait.why = "none",
           NEW c, SameShape(aml[t], c), NEW d, GoodCtx(d),
           d.held = c.held, ~d.wait.got,
           \A k \in 1 .. CallDepth, n \in AmlName : ListsIn(d, k, n) <=> ListsIn(c, k, n),
           aml' = [aml EXCEPT ![t] = d], lock' \in {lock, t, Nobody}, lock' = t => d.wait.why = "none",
           mutexes' \in [MutexNames -> [owner : AmlThread \cup {Nobody}, depth : Nat]],
           \A m \in MutexNames : mutexes'[m].owner = mutexes[m].owner,
           nodes' = nodes
    PROVE  AmlIInv'
<1>1. AmlTyped'
  BY TypedStep DEF AmlIInv, AmlTyped
<1>2. aml'[t] = d /\ \A u \in AmlThread \ {t} : aml'[u] = aml[u]
  BY DEF AmlIInv, AmlTyped
<1>3. ~aml[t].wait.got /\ GoodCtx(aml[t])
  BY GoodCtxFacts DEF AmlIInv, AmlTyped
<1>4. d.held = aml[t].held
  BY DEF SameShape
<1>5. MutexesOK(aml, mutexes)
  BY DEF AmlIInv
<1>6. ASSUME NEW u \in AmlThread
      PROVE  /\ aml'[u].held = aml[u].held /\ (aml'[u].wait.got <=> aml[u].wait.got)
             /\ aml[u].wait.got => aml'[u].wait.m = aml[u].wait.m
  <2>1. CASE u = t
    BY <1>2, <1>3, <1>4, <2>1
  <2>2. CASE u # t
    BY <1>2, <2>2
  <2> QED
    BY <2>1, <2>2
<1>7. MutexesOK(aml', mutexes')
  <2>1. \A u \in AmlThread : /\ aml'[u].held = aml[u].held /\ (aml'[u].wait.got <=> aml[u].wait.got)
                             /\ aml[u].wait.got => aml'[u].wait.m = aml[u].wait.m
    BY <1>6
  <2>2. \A m \in MutexNames : mutexes'[m].owner = mutexes[m].owner
    OBVIOUS
  <2> DEFINE B == aml'
             Q == mutexes'
  <2>3. \A u \in AmlThread : /\ B[u].held = aml[u].held /\ (B[u].wait.got <=> aml[u].wait.got)
                             /\ aml[u].wait.got => B[u].wait.m = aml[u].wait.m
    BY <2>1
  <2>4. \A m \in MutexNames : Q[m].owner = mutexes[m].owner
    BY <2>2
  <2> HIDE DEF B, Q
  <2>5. MutexesOK(B, Q)
    BY ONLY <1>5, <2>3, <2>4, MutexesSame
  <2> QED
    BY <2>5 DEF B, Q
<1>8. \A u \in AmlThread, k \in 1 .. CallDepth, n \in AmlName : ListsIn(aml'[u], k, n) <=> ListsIn(aml[u], k, n)
  <2>1. \A k \in 1 .. CallDepth, n \in AmlName : ListsIn(c, k, n) <=> ListsIn(aml[t], k, n)
    BY <1>3, ShapeLists
  <2> QED
    BY <1>2, <2>1
<1>9. NodesOK(aml', nodes')
  BY <1>8, NodesSame DEF AmlIInv
<1> QED
  BY <1>1, <1>7, <1>9 DEF AmlIInv

LEMMA TurnedStep == ASSUME AmlIInv, NEW t \in AmlThread, lock = t, Turned(t) PROVE AmlIInv'
<1>1. PICK d : SameShape(aml[t], d) /\ Turn(t, d)
  BY DEF Turned
<1>2. GoodCtx(d) /\ d.wait.why = "none"
  BY <1>1 DEF SameShape
<1>3. ~d.wait.got
  BY <1>2, GoodCtxFacts
<1>4. aml[t].wait.why = "none" /\ mutexes \in [MutexNames -> [owner : AmlThread \cup {Nobody}, depth : Nat]]
  BY DEF AmlIInv, AmlTyped
<1> QED
  BY <1>1, <1>2, <1>3, <1>4, ShapeStep DEF Turn

(***************************************************************************)
(* The turns of the loop.                                                  *)
(***************************************************************************)
LEMMA LockedFacts ==
    ASSUME AmlIInv, NEW t \in AmlThread PROVE GoodCtx(aml[t]) /\ (lock = t => aml[t].wait.why = "none")
  BY DEF AmlIInv, AmlTyped

LEMMA RunsFacts ==
    ASSUME AmlIInv, NEW t \in AmlThread, Runs(t)
    PROVE  /\ lock = t /\ aml[t].frames # <<>> /\ aml[t].wait.why = "none" /\ GoodCtx(aml[t])
           /\ Top(aml[t]) \in GoodFrame /\ aml[t].state = "run"
  BY LockedFacts, TopFacts DEF Runs

LEMMA FetchFacts ==
    ASSUME AmlIInv, NEW t \in AmlThread, NEW op, Fetches(t, op)
    PROVE  LET f == Top(aml[t])
           IN  /\ Runs(t) /\ InCode(f) /\ f.pc + 1 \in 1 .. Size(f.method) /\ Instr(f).op = op
               /\ InstructionOK(Instr(f), f.pc + 1, Size(f.method))
<1> DEFINE f == Top(aml[t])
<1>1. Runs(t) /\ InCode(f) /\ Instr(f).op = op
  BY DEF Fetches
<1>2. f \in GoodFrame
  BY <1>1, RunsFacts
<1>3. f.method \in Methods /\ f.pc \in 0 .. Size(f.method) /\ Size(f.method) \in Nat
  BY <1>2, GoodFrameFacts
<1>4. f.pc + 1 \in 1 .. Size(f.method)
  BY <1>1, <1>3 DEF InCode
<1>5. \A k \in 1 .. Size(f.method) : InstructionOK(AmlCode[f.method][k], k, Size(f.method))
  BY <1>3, AmlAssumption DEF Methods
<1>6. InstructionOK(Instr(f), f.pc + 1, Size(f.method))
  BY <1>4, <1>5 DEF Instr
<1> QED
  BY <1>1, <1>4, <1>6

\* A turn that gives the top frame another offset, other blocks or other loops.
LEMMA TopTurned ==
    ASSUME AmlIInv, NEW t \in AmlThread, Runs(t), NEW g \in GoodFrame,
           g.method = Top(aml[t]).method, g.temp = Top(aml[t]).temp, Turn(t, WithTop(aml[t], g))
    PROVE  Turned(t)
  BY RunsFacts, WithTopIsSame DEF Turned

LEMMA AbortTurned ==
    ASSUME AmlIInv, NEW t \in AmlThread, lock = t, NEW c, SameShape(aml[t], c), Abort(t, c)
    PROVE  Turned(t)
<1>1. GoodCtx(aml[t]) /\ 1 \in 0 .. 2
  BY LockedFacts
<1>2. SameShape(aml[t], [c EXCEPT !.unwind = 1])
  BY <1>1, UnwindIsSame
<1> QED
  BY <1>2 DEF Turned, Turn, Abort

LEMMA EndBlockTurns == ASSUME AmlIInv, NEW t \in AmlThread, maybe_end_block(t) PROVE Turned(t)
<1> DEFINE f == Top(aml[t])
           b == Block(f)
           e == EndBlockOf(f)
           p == IF b.type = "while" THEN b.begin ELSE e.pc
           g == [e EXCEPT !.pc = p]
<1>1. Runs(t) /\ f.blocks # <<>> /\ f.pc = b.end
  BY DEF maybe_end_block, AtBlockEnd
<1>2. f \in GoodFrame
  BY <1>1, RunsFacts
<1>0. /\ Rooted(f) /\ Len(f.blocks) \in Nat
      /\ Len(f.blocks) = 1 => b.type = "scope" /\ f.pc = Size(f.method)
  BY <1>1, <1>2, GoodFrameFacts DEF Rooted, Block
<1>3. /\ e \in GoodFrame /\ e.method = f.method /\ e.temp = f.temp /\ e.pc = f.pc
      /\ Len(e.blocks) = Len(f.blocks) - 1 /\ Len(f.blocks) >= 1
  BY <1>0, <1>1, <1>2, EndBlockIsGood
<1>4. /\ Len(f.blocks) \in Nat /\ Nested(f) /\ f.pc \in 0 .. Size(f.method)
      /\ \A i \in 1 .. Len(f.blocks) : f.blocks[i] \in BlockOf(f.method)
  BY <1>2, GoodFrameFacts
<1>5. Len(f.blocks) \in 1 .. Len(f.blocks)
  BY <1>3, <1>4
<1>6. b \in BlockOf(f.method) /\ Len(f.blocks) - 2 <= b.begin /\ Len(f.blocks) <= f.pc + 1
  BY <1>4, <1>5 DEF Nested, Block
<1>7. b.begin \in 0 .. Size(f.method)
  BY <1>6 DEF BlockOf
<1>8. p \in 0 .. Size(e.method) /\ Len(e.blocks) <= p + 1 /\ (Len(e.blocks) = 0 => p = Size(e.method))
  <2>1. Size(f.method) \in Nat
    BY <1>2, GoodFrameFacts
  <2>2. CASE b.type = "while"
    <3>1. p = b.begin
      BY <2>2
    <3>2. Len(f.blocks) # 1
      BY <1>0, <2>2
    <3> HIDE DEF p, b, e
    <3> QED
      BY <3>2, <1>3, <1>4, <1>6, <1>7, <2>1, <3>1
  <2>3. CASE b.type # "while"
    <3>1. p = f.pc
      BY <1>3, <2>3
    <3> HIDE DEF p, b, e
    <3> QED
      BY <1>0, <1>3, <1>4, <1>6, <1>7, <2>1, <3>1
  <2> QED
    BY <2>2, <2>3
<1>9. Turn(t, WithTop(aml[t], g))
  BY DEF maybe_end_block
<1> HIDE DEF e, p
<1>10. g \in GoodFrame /\ g.method = f.method /\ g.temp = f.temp
  BY <1>3, <1>8, MoveIsGood
<1> HIDE DEF g
<1> QED
  BY <1>1, <1>9, <1>10, TopTurned

\* A package that is skipped.
LEMMA SkippedTurns ==
    ASSUME AmlIInv, NEW t \in AmlThread, NEW op \in {"if", "else", "while"}, Fetches(t, op),
           Turn(t, Skipped(aml[t]))
    PROVE  Turned(t)
<1> DEFINE f == Top(aml[t])
           p == Instr(f).end
           g == [f EXCEPT !.pc = p]
<1>1. Runs(t) /\ f.pc + 1 \in 1 .. Size(f.method) /\ p \in f.pc + 1 .. Size(f.method)
  BY FetchFacts DEF InstructionOK
<1>2. f \in GoodFrame
  BY <1>1, RunsFacts
<1>3. Nested(f) /\ f.pc \in 0 .. Size(f.method) /\ Size(f.method) \in Nat /\ Len(f.blocks) \in Nat
  BY <1>2, GoodFrameFacts
<1>4. p \in 0 .. Size(f.method) /\ Len(f.blocks) <= p + 1 /\ Len(f.blocks) # 0
  BY <1>1, <1>2, <1>3, GoodFrameFacts DEF Nested, Rooted
<1>5. Turn(t, WithTop(aml[t], g))
  BY DEF Skipped
<1> HIDE DEF p
<1>6. g \in GoodFrame /\ g.method = f.method /\ g.temp = f.temp
  BY <1>2, <1>4, MoveIsGood
<1> HIDE DEF g
<1> QED
  BY <1>1, <1>5, <1>6, TopTurned

\* A block that begins at the instruction, or at the Else behind it.
LEMMA BlockTurns ==
    ASSUME AmlIInv, NEW t \in AmlThread, NEW type \in BlockType, Runs(t),
           NEW begin \in Top(aml[t]).pc .. Size(Top(aml[t]).method) - 1,
           NEW end \in begin .. Size(Top(aml[t]).method),
           Turn(t, WithTop(aml[t], BeginBlock(Top(aml[t]), type, begin, end)))
    PROVE  Turned(t)
<1> DEFINE f == Top(aml[t])
           g == BeginBlock(f, type, begin, end)
<1>1. f \in GoodFrame
  BY RunsFacts
<1>2. f.pc \in 0 .. Size(f.method) /\ Size(f.method) \in Nat
  BY <1>1, GoodFrameFacts
<1>3. /\ begin \in 0 .. Size(f.method) - 1 /\ end \in 0 .. Size(f.method) /\ f.pc <= begin /\ begin <= end
  BY <1>2
<1>4. g \in GoodFrame /\ g.method = f.method /\ g.temp = f.temp
  BY <1>1, <1>3, BeginBlockIsGood
<1> HIDE DEF g
<1> QED
  BY <1>4, TopTurned DEF g

LEMMA IfTurns ==
    ASSUME AmlIInv, NEW t \in AmlThread, NEW holds \in BOOLEAN, If(t, holds) PROVE Turned(t)
<1> DEFINE f == Top(aml[t])
           e == Instr(f).end
           m == f.method
<1>1. /\ Fetches(t, "if") /\ Runs(t) /\ f.pc + 1 \in 1 .. Size(m) /\ e \in f.pc + 1 .. Size(m)
  BY FetchFacts DEF InstructionOK, If
<1>2. f \in GoodFrame
  BY <1>1, RunsFacts
<1>3. /\ f.pc \in 0 .. Size(m) /\ Size(m) \in Nat /\ m \in Methods
  BY <1>2, GoodFrameFacts
<1>4. CASE holds
  <2>1. Turn(t, WithTop(aml[t], BeginBlock(f, "if", f.pc, e)))
    BY <1>4 DEF If
  <2>2. f.pc \in f.pc .. Size(m) - 1 /\ e \in f.pc .. Size(m)
    BY <1>1, <1>3
  <2> QED
    BY <1>1, <2>1, <2>2, BlockTurns DEF BlockType
<1>5. CASE ~holds /\ HasElse(f)
  <2> DEFINE end == AmlCode[m][e + 1].end
  <2>1. Turn(t, WithTop(aml[t], BeginBlock(f, "else", e, end)))
    BY <1>5 DEF If
  <2>2. e < Block(f).end /\ AmlCode[m][e + 1].op = "else"
    BY <1>5 DEF HasElse
  <2>3. Block(f).end \in 0 .. Size(m)
    <3>1. /\ Len(f.blocks) \in Nat /\ Rooted(f)
          /\ \A i \in 1 .. Len(f.blocks) : f.blocks[i] \in BlockOf(m)
      BY <1>2, GoodFrameFacts
    <3>2. Len(f.blocks) \in 1 .. Len(f.blocks)
      BY <1>1, <1>3, <3>1 DEF Rooted
    <3> QED
      BY <3>1, <3>2 DEF Block, BlockOf
  <2>4. e + 1 \in 1 .. Size(m)
    BY <1>1, <1>3, <2>2, <2>3
  <2>5. InstructionOK(AmlCode[m][e + 1], e + 1, Size(m))
    BY <1>3, <2>4, AmlAssumption DEF Methods
  <2>6. e \in f.pc .. Size(m) - 1 /\ end \in e .. Size(m)
    BY <1>1, <1>3, <2>2, <2>4, <2>5 DEF InstructionOK
  <2> QED
    BY <1>1, <2>1, <2>6, BlockTurns DEF BlockType
<1>6. CASE ~holds /\ ~HasElse(f)
  <2>1. Turn(t, Skipped(aml[t]))
    BY <1>6 DEF If
  <2> QED
    BY <1>1, <2>1, SkippedTurns
<1> QED
  BY <1>4, <1>5, <1>6

LEMMA WhileTurns ==
    ASSUME AmlIInv, NEW t \in AmlThread, NEW holds \in BOOLEAN, While(t, holds) PROVE Turned(t)
<1> DEFINE f == Top(aml[t])
           e == Instr(f).end
           m == f.method
<1>1. /\ Fetches(t, "while") /\ Runs(t) /\ f.pc + 1 \in 1 .. Size(m) /\ e \in f.pc + 1 .. Size(m)
  BY FetchFacts DEF InstructionOK, While
<1>2. f \in GoodFrame /\ lock = t /\ GoodCtx(aml[t]) /\ aml[t].wait.why = "none"
  BY <1>1, RunsFacts
<1>3. f.pc \in 0 .. Size(m) /\ Size(m) \in Nat
  BY <1>2, GoodFrameFacts
<1>4. CASE ~holds
  <2>1. Turn(t, Skipped(aml[t]))
    BY <1>4 DEF While
  <2> QED
    BY <1>1, <2>1, SkippedTurns
<1>5. CASE holds /\ LoopIsOver(f)
  <2>1. Abort(t, aml[t])
    BY <1>5 DEF While
  <2>2. SameShape(aml[t], aml[t])
    BY <1>2, SameAsItself
  <2> QED
    BY <1>2, <2>1, <2>2, AbortTurned
<1>6. CASE holds /\ ~LoopIsOver(f)
  <2>1. Turn(t, WithTop(aml[t], BeginBlock(f, "while", f.pc, e)))
    BY <1>6 DEF While
  <2>2. f.pc \in f.pc .. Size(m) - 1 /\ e \in f.pc .. Size(m)
    BY <1>1, <1>3
  <2> QED
    BY <1>1, <2>1, <2>2, BlockTurns DEF BlockType
<1> QED
  BY <1>4, <1>5, <1>6

LEMMA ControlTurns ==
    ASSUME AmlIInv, NEW t \in AmlThread, NEW op \in {"break", "continue"}, handle_control_flow(t, op)
    PROVE  Turned(t)
<1> DEFINE f == Top(aml[t])
           m == f.method
           k == Last_(LastWhile(f))
           cut == [f EXCEPT !.blocks = SubSeq(@, 1, k)]
           e == EndBlockOf(cut)
           p == IF op = "break" THEN f.blocks[k].end ELSE f.blocks[k].begin
           g == [e EXCEPT !.pc = p]
<1>1. Runs(t)
  BY DEF handle_control_flow, Fetches
<1>2. f \in GoodFrame /\ lock = t /\ GoodCtx(aml[t]) /\ aml[t].wait.why = "none"
  BY <1>1, RunsFacts
<1>3. /\ f.pc \in 0 .. Size(m) /\ Size(m) \in Nat /\ Nested(f) /\ Rooted(f) /\ Len(f.blocks) \in Nat
      /\ f.blocks \in Seq(BlockOf(m))
      /\ \A i \in 1 .. Len(f.blocks) : f.blocks[i] \in BlockOf(m)
  BY <1>2, GoodFrameFacts
<1>4. CASE LastWhile(f) = {}
  <2>1. Abort(t, aml[t])
    BY <1>4 DEF handle_control_flow
  <2>2. SameShape(aml[t], aml[t])
    BY <1>2, SameAsItself
  <2> QED
    BY <1>2, <2>1, <2>2, AbortTurned
<1>5. CASE LastWhile(f) # {}
  <2>1. LastWhile(f) \subseteq 1 .. Len(f.blocks)
    BY <1>3, LenProperties DEF LastWhile
  <2>2. \E i \in LastWhile(f) : \A j \in LastWhile(f) : j <= i
    BY <1>3, <1>5, <2>1, LargestIndex
  <2>3. k \in LastWhile(f)
    BY <2>2, Zenon DEF Last_
  <2>4. k \in 1 .. Len(f.blocks) /\ f.blocks[k].type = "while"
    BY <2>1, <2>3 DEF LastWhile
  <2>5. Turn(t, WithTop(aml[t], g))
    <3>1. Turn(t, WithTop(aml[t], [e EXCEPT !.pc = IF op = "break" THEN f.blocks[k].end
                                                   ELSE f.blocks[k].begin]))
      BY <1>5 DEF handle_control_flow
    <3> QED
      BY <3>1
  <2> HIDE DEF k
  <2>6. k # 1
    BY <1>3, <2>4 DEF Rooted
  <2>7. cut \in GoodFrame /\ cut.method = m /\ cut.temp = f.temp /\ cut.pc = f.pc /\ Len(cut.blocks) = k
    BY <1>2, <2>4, CutIsGood
  <2> HIDE DEF cut
  <2>8. cut.blocks # <<>> /\ Len(cut.blocks) # 1
    BY <1>3, <2>4, <2>6, <2>7
  <2>9. e \in GoodFrame /\ e.method = m /\ e.temp = f.temp /\ Len(e.blocks) = k - 1
    BY <2>7, <2>8, EndBlockIsGood
  <2>10. f.blocks[k] \in BlockOf(m) /\ k - 2 <= f.blocks[k].begin /\ f.blocks[k].begin <= f.blocks[k].end
    BY <1>3, <2>4 DEF Nested
  <2>11. f.blocks[k].begin \in 0 .. Size(m) /\ f.blocks[k].end \in 0 .. Size(m)
    BY <2>10 DEF BlockOf
  <2>12. p \in 0 .. Size(m) /\ k - 2 <= p
    BY <1>3, <2>4, <2>10, <2>11
  <2> HIDE DEF e, p, m
  <2>13. p \in 0 .. Size(e.method) /\ Len(e.blocks) <= p + 1 /\ Len(e.blocks) # 0
    BY <1>3, <2>4, <2>6, <2>9, <2>12
  <2>14. g \in GoodFrame /\ g.method = e.method /\ g.temp = e.temp
    BY <2>9, <2>13, MoveIsGood
  <2> HIDE DEF g
  <2> QED
    BY <1>1, <2>5, <2>9, <2>14, TopTurned DEF m
<1> QED
  BY <1>4, <1>5

LEMMA ReturnTurns == ASSUME AmlIInv, NEW t \in AmlThread, handle_return(t) PROVE Turned(t)
<1> DEFINE f == Top(aml[t])
           p == Size(f.method)
           g == [f EXCEPT !.pc = p]
<1>1. Runs(t) /\ Turn(t, WithTop(aml[t], g))
  BY DEF handle_return, Fetches
<1>2. f \in GoodFrame
  BY <1>1, RunsFacts
<1>3. p \in 0 .. Size(f.method) /\ Len(f.blocks) <= p + 1
  BY <1>2, GoodFrameFacts
<1>4. p = Size(f.method)
  OBVIOUS
<1> HIDE DEF p
<1>5. g \in GoodFrame /\ g.method = f.method /\ g.temp = f.temp
  BY <1>2, <1>3, <1>4, MoveIsGood
<1> HIDE DEF g
<1> QED
  BY <1>1, <1>5, TopTurned

LEMMA FetchedPast ==
    ASSUME AmlIInv, NEW t \in AmlThread, NEW op, Fetches(t, op)
    PROVE  /\ SameShape(aml[t], Past(aml[t])) /\ lock = t /\ GoodCtx(aml[t]) /\ aml[t].wait.why = "none"
           /\ aml[t].frames # <<>> /\ Past(aml[t]).sync = aml[t].sync /\ aml[t].state = "run"
           /\ Past(aml[t]).state = "run"
<1>1. Runs(t) /\ InCode(Top(aml[t]))
  BY DEF Fetches
<1>2. /\ lock = t /\ GoodCtx(aml[t]) /\ aml[t].wait.why = "none" /\ aml[t].frames # <<>>
      /\ aml[t].state = "run"
  BY <1>1, RunsFacts
<1> QED
  BY <1>1, <1>2, PastIsGood

\* The instructions that change neither frames, nodes nor mutexes.
LEMMA PlainTurns ==
    ASSUME AmlIInv, NEW t \in AmlThread,
           \/ maybe_end_block(t) \/ Else(t) \/ handle_return(t) \/ LoadDenied(t) \/ Fails(t)
           \/ \E holds \in BOOLEAN : If(t, holds) \/ While(t, holds)
           \/ \E op \in {"break", "continue"} : handle_control_flow(t, op)
    PROVE  Turned(t) /\ lock = t
<1>1. CASE maybe_end_block(t)
  BY <1>1, EndBlockTurns, RunsFacts DEF maybe_end_block
<1>2. CASE Else(t)
  <2>1. Fetches(t, "else") /\ Turn(t, Skipped(aml[t]))
    BY <1>2 DEF Else
  <2> QED
    BY <2>1, SkippedTurns, FetchedPast
<1>3. CASE handle_return(t)
  <2>1. Fetches(t, "return")
    BY <1>3 DEF handle_return
  <2> QED
    BY <1>3, <2>1, ReturnTurns, FetchedPast
<1>4. CASE LoadDenied(t)
  <2>1. Fetches(t, "load") /\ Turn(t, Past(aml[t]))
    BY <1>4 DEF LoadDenied
  <2> QED
    BY <2>1, FetchedPast DEF Turned
<1>5. CASE Fails(t)
  <2>1. Fetches(t, "fail") /\ Abort(t, aml[t])
    BY <1>5 DEF Fails
  <2>2. lock = t /\ SameShape(aml[t], aml[t])
    BY <2>1, FetchedPast, SameAsItself
  <2> QED
    BY <2>1, <2>2, AbortTurned
<1>6. ASSUME NEW holds \in BOOLEAN, If(t, holds) PROVE Turned(t) /\ lock = t
  <2>1. Fetches(t, "if")
    BY <1>6 DEF If
  <2> QED
    BY <1>6, <2>1, IfTurns, FetchedPast
<1>7. ASSUME NEW holds \in BOOLEAN, While(t, holds) PROVE Turned(t) /\ lock = t
  <2>1. Fetches(t, "while")
    BY <1>7 DEF While
  <2> QED
    BY <1>7, <2>1, WhileTurns, FetchedPast
<1>8. ASSUME NEW op \in {"break", "continue"}, handle_control_flow(t, op) PROVE Turned(t) /\ lock = t
  <2>1. Fetches(t, op)
    BY <1>8 DEF handle_control_flow
  <2> QED
    BY <1>8, <2>1, ControlTurns, FetchedPast
<1> QED
  BY <1>1, <1>2, <1>3, <1>4, <1>5, <1>6, <1>7, <1>8

(***************************************************************************)
(* Calls and waits.                                                        *)
(***************************************************************************)
LEMMA EnteredIsGood ==
    ASSUME NEW c, GoodCtx(c), c.wait.why = "none", c.state \in {"run", "failed"}, NEW m \in Methods,
           Len(c.frames) < CallDepth
    PROVE  LET d == EnteredFrame(c, m)
           IN  /\ GoodCtx(d) /\ d.held = c.held /\ d.wait = c.wait /\ Len(d.frames) = Len(c.frames) + 1
               /\ \A k \in 1 .. Len(c.frames) : d.frames[k] = c.frames[k]
               /\ d.frames[Len(c.frames) + 1].method = m
               /\ \A k \in 1 .. CallDepth, n \in AmlName : ListsIn(d, k, n) <=> ListsIn(c, k, n)
<1> DEFINE f == NewFrame(m, c.sync)
           s == Append(c.frames, f)
           sync == IF m \in Serialized THEN SyncLevel[m] ELSE c.sync
           d == [c EXCEPT !.frames = s, !.sync = sync]
           n == Len(c.frames)
<1>1. /\ c \in CtxRec /\ c.frames \in Seq(GoodFrame) /\ c.sync \in Nat /\ n \in 0 .. CallDepth
      /\ DOMAIN c.frames = 1 .. n
  BY GoodCtxFacts
<1>2. f \in GoodFrame /\ f.method = m /\ f.temp = <<>>
  BY <1>1, NewFrameIsGood
<1> HIDE DEF f
<1>3. s \in Seq(GoodFrame) /\ Len(s) = n + 1 /\ s[n + 1] = f /\ \A k \in 1 .. n : s[k] = c.frames[k]
  BY <1>1, <1>2, AppendProperties
<1>4. sync \in Nat
  BY <1>1, SerializedNames, AmlAssumption DEF MutexNames
<1>5. EnteredFrame(c, m) = d
  BY <1>1 DEF EnteredFrame, f, CtxRec
<1> HIDE DEF s, sync
<1>6. d \in CtxRec /\ d.frames = s /\ d.held = c.held /\ d.wait = c.wait /\ d.state = c.state
  BY <1>1, <1>3, <1>4 DEF CtxRec
<1> HIDE DEF d
<1>7. GoodCtx(d)
  BY <1>1, <1>3, <1>6, AmlAssumption DEF GoodCtx
<1>8. DOMAIN d.frames = 1 .. n + 1
  BY <1>3, <1>6, LenProperties
<1>9. ASSUME NEW k \in 1 .. CallDepth, NEW x \in AmlName PROVE ListsIn(d, k, x) <=> ListsIn(c, k, x)
  <2>1. CASE k \in 1 .. n
    BY <1>1, <1>3, <1>6, <1>8, <2>1 DEF ListsIn
  <2>2. CASE k = n + 1
    <3>1. Range(f.temp) = {}
      BY <1>2 DEF Range
    <3>2. ~ListsIn(d, k, x)
      BY <1>3, <1>6, <2>2, <3>1 DEF ListsIn
    <3>3. k \notin 1 .. n
      BY <1>1, <2>2
    <3> QED
      BY <1>1, <3>2, <3>3 DEF ListsIn
  <2>3. CASE k \notin 1 .. n /\ k # n + 1
    <3>1. k \notin 1 .. n + 1
      BY <1>1, <2>3
    <3> QED
      BY <1>1, <1>8, <2>3, <3>1 DEF ListsIn
  <2> QED
    BY <2>1, <2>2, <2>3
<1> QED
  BY <1>2, <1>3, <1>5, <1>6, <1>7, <1>9

\* What t must be able to wait for.
MayWaitFor(c, m, why) ==
    /\ why \in {"enter", "acquire", "sleep"} /\ m \in MutexNames \cup {Nobody}
    /\ why = "enter" => m \in Serialized /\ Len(c.frames) < CallDepth
    /\ why = "acquire" => m \in MutexNames

LEMMA WaitIsGood ==
    ASSUME NEW c, GoodCtx(c), c.state = "run", NEW m, NEW why, MayWaitFor(c, m, why)
    PROVE  LET d == [c EXCEPT !.wait = [m |-> m, why |-> why, got |-> FALSE]]
           IN  /\ GoodCtx(d) /\ d.held = c.held /\ d.frames = c.frames
               /\ d.wait = [m |-> m, why |-> why, got |-> FALSE] /\ ~d.wait.got
<1> DEFINE w == [m |-> m, why |-> why, got |-> FALSE]
           d == [c EXCEPT !.wait = w]
<1>1. c \in CtxRec
  BY GoodCtxFacts
<1>2. w \in WaitRec /\ w.m = m /\ w.why = why /\ w.got = FALSE
  BY DEF WaitRec, MayWaitFor
<1> HIDE DEF w
<1>3. d \in CtxRec /\ d.frames = c.frames /\ d.held = c.held /\ d.wait = w /\ d.state = c.state
  BY <1>1, <1>2 DEF CtxRec
<1> HIDE DEF d
<1>4. GoodCtx(d)
  BY <1>2, <1>3 DEF GoodCtx, MayWaitFor
<1> QED
  BY <1>2, <1>3, <1>4 DEF d, w

LEMMA WaitStep ==
    ASSUME AmlIInv, NEW t \in AmlThread, lock = t, NEW c, SameShape(aml[t], c), c.state = "run",
           NEW m, NEW why, MayWaitFor(c, m, why), Wait(t, c, m, why)
    PROVE  AmlIInv'
<1> DEFINE d == [c EXCEPT !.wait = [m |-> m, why |-> why, got |-> FALSE]]
<1>1. GoodCtx(c) /\ aml[t].wait.why = "none"
  BY LockedFacts DEF SameShape
<1>2. GoodCtx(d) /\ d.held = c.held /\ d.frames = c.frames /\ ~d.wait.got
  BY <1>1, WaitIsGood
<1>3. aml' = [aml EXCEPT ![t] = d] /\ lock' = Nobody /\ mutexes' = mutexes /\ nodes' = nodes
  BY DEF Wait
<1> HIDE DEF d
<1>4. \A k \in 1 .. CallDepth, n \in AmlName : ListsIn(d, k, n) <=> ListsIn(c, k, n)
  BY <1>2 DEF ListsIn
<1>5. lock' # t
  BY <1>3, AmlAssumption
<1>6. mutexes \in [MutexNames -> [owner : AmlThread \cup {Nobody}, depth : Nat]]
  BY DEF AmlIInv, AmlTyped
<1> QED
  BY <1>1, <1>2, <1>3, <1>4, <1>5, <1>6, ShapeStep

LEMMA InvokeStep ==
    ASSUME AmlIInv, NEW t \in AmlThread, lock = t, NEW c, SameShape(aml[t], c), c.state = "run",
           NEW m \in Methods, Invoke(t, c, m)
    PROVE  AmlIInv'
<1>1. GoodCtx(c) /\ aml[t].wait.why = "none" /\ c.wait.why = "none"
  BY LockedFacts DEF SameShape
<1>2. CASE Abort(t, c)
  <2>1. Turned(t)
    BY <1>2, AbortTurned
  <2> QED
    BY <2>1, TurnedStep
<1>3. CASE Len(c.frames) < CallDepth /\ Turn(t, EnteredFrame(c, m))
  <2> DEFINE d == EnteredFrame(c, m)
  <2>1. /\ GoodCtx(d) /\ d.held = c.held /\ d.wait = c.wait
        /\ \A k \in 1 .. CallDepth, n \in AmlName : ListsIn(d, k, n) <=> ListsIn(c, k, n)
    BY <1>1, <1>3, EnteredIsGood
  <2>2. aml' = [aml EXCEPT ![t] = d] /\ lock' = lock /\ mutexes' = mutexes /\ nodes' = nodes
    BY <1>3 DEF Turn
  <2> HIDE DEF d
  <2>3. d.wait.why = "none" /\ ~d.wait.got
    BY <1>1, <2>1, GoodCtxFacts
  <2>4. mutexes \in [MutexNames -> [owner : AmlThread \cup {Nobody}, depth : Nat]]
    BY DEF AmlIInv, AmlTyped
  <2> QED
    BY <1>1, <2>1, <2>2, <2>3, <2>4, ShapeStep
<1>4. CASE Len(c.frames) < CallDepth /\ m \in Serialized /\ Wait(t, c, m, "enter")
  <2>1. MayWaitFor(c, m, "enter")
    BY <1>4, SerializedNames DEF MayWaitFor
  <2> QED
    BY <1>4, <2>1, WaitStep
<1> QED
  BY <1>2, <1>3, <1>4 DEF Invoke, Turn

LEMMA EvaluateStep ==
    ASSUME AmlIInv, NEW t \in AmlThread, NEW m \in AmlEntry[t], Evaluate(t, m) PROVE AmlIInv'
<1> DEFINE w == [NoWait EXCEPT !.m = m]
           d == [Ctx("start") EXCEPT !.wait = w]
<1>1. m \in Methods
  BY AmlAssumption DEF Methods
<1>2. w \in WaitRec /\ w.m = m /\ w.why = "none" /\ w.got = FALSE
  BY <1>1 DEF NoWait, WaitRec
<1> HIDE DEF w
<1>3. <<>> \in Seq(GoodFrame) /\ <<>> \in Seq(MutexNames) /\ Len(<<>>) = 0
  OBVIOUS
<1>4. d \in CtxRec /\ d.frames = <<>> /\ d.held = <<>> /\ d.wait = w /\ d.state = "start"
  <2>1. d = [state |-> "start", frames |-> <<>>, held |-> <<>>, sync |-> 0, unwind |-> 0, wait |-> w]
    BY DEF Ctx
  <2>2. 0 \in Nat /\ 0 \in 0 .. 2 /\ "start" \in States
    BY DEF States
  <2> HIDE DEF d
  <2> QED
    BY <1>2, <1>3, <2>1, <2>2 DEF CtxRec
<1>5. /\ aml' = [aml EXCEPT ![t] = d] /\ lock' = t /\ mutexes' = mutexes /\ nodes' = nodes
      /\ aml[t].state = "idle"
  BY DEF Evaluate, Ctx, w, NoWait
<1> HIDE DEF d
<1>6. GoodCtx(d)
  BY <1>1, <1>2, <1>3, <1>4, AmlAssumption DEF GoodCtx
<1>7. GoodCtx(aml[t]) /\ aml[t].frames = <<>> /\ aml[t].held = <<>> /\ aml[t].wait.why = "none"
  BY <1>5, LockedFacts DEF GoodCtx
<1>8. SameShape(aml[t], aml[t]) /\ ~d.wait.got /\ d.wait.why = "none"
  BY <1>2, <1>4, <1>7, SameAsItself
<1>9. \A k \in 1 .. CallDepth, n \in AmlName : ListsIn(d, k, n) <=> ListsIn(aml[t], k, n)
  BY <1>4, <1>7 DEF ListsIn
<1>10. mutexes \in [MutexNames -> [owner : AmlThread \cup {Nobody}, depth : Nat]]
  BY DEF AmlIInv, AmlTyped
<1> QED
  BY <1>4, <1>5, <1>6, <1>7, <1>8, <1>9, <1>10, ShapeStep

LEMMA FirstShape ==
    ASSUME AmlIInv, NEW t \in AmlThread, PrepareFirst(t)
    PROVE  /\ SameShape(aml[t], Ctx("run")) /\ Ctx("run").state = "run" /\ aml[t].wait.m \in Methods
           /\ lock = t /\ Invoke(t, Ctx("run"), aml[t].wait.m)
<1>1. /\ GoodCtx(aml[t]) /\ aml[t].frames = <<>> /\ aml[t].held = <<>> /\ aml[t].wait.m \in Methods
  BY LockedFacts DEF PrepareFirst, GoodCtx
<1>2. /\ GoodCtx(Ctx("run")) /\ Ctx("run").frames = <<>> /\ Ctx("run").held = <<>>
      /\ Ctx("run").wait.why = "none" /\ Ctx("run").state = "run"
  BY CtxIsGood DEF States
<1>3. \A k \in 1 .. Len(<<>>) : FALSE
  OBVIOUS
<1> QED
  BY <1>1, <1>2, <1>3 DEF PrepareFirst, SameShape

LEMMA PrepareFirstStep == ASSUME AmlIInv, NEW t \in AmlThread, PrepareFirst(t) PROVE AmlIInv'
  BY FirstShape, InvokeStep

LEMMA CallShape ==
    ASSUME AmlIInv, NEW t \in AmlThread, Call(t)
    PROVE  /\ SameShape(aml[t], Past(aml[t])) /\ Past(aml[t]).state = "run" /\ lock = t
           /\ Instr(Top(aml[t])).op \in {"call", "load"} /\ Instr(Top(aml[t])).arg \in Methods
           /\ Runs(t) /\ InCode(Top(aml[t]))
           /\ Invoke(t, Past(aml[t]), Instr(Top(aml[t])).arg)
<1>1. PICK op \in {"call", "load"} : Fetches(t, op) /\ Invoke(t, Past(aml[t]), Instr(Top(aml[t])).arg)
  BY DEF Call
<1>2. Instr(Top(aml[t])).op = op /\ Instr(Top(aml[t])).arg \in Methods
  BY <1>1, FetchFacts DEF InstructionOK, Methods
<1> QED
  BY <1>1, <1>2, FetchedPast DEF Fetches

LEMMA CallStep == ASSUME AmlIInv, NEW t \in AmlThread, Call(t) PROVE AmlIInv'
  BY CallShape, InvokeStep

LEMMA SleepStep == ASSUME AmlIInv, NEW t \in AmlThread, Sleep(t) PROVE AmlIInv'
<1>1. Fetches(t, "sleep") /\ Wait(t, Past(aml[t]), Nobody, "sleep")
  BY DEF Sleep
<1>2. MayWaitFor(Past(aml[t]), Nobody, "sleep")
  BY DEF MayWaitFor
<1> QED
  BY <1>1, <1>2, FetchedPast, WaitStep

(***************************************************************************)
(* Mutexes.                                                                *)
(***************************************************************************)
MutexTable == [MutexNames -> [owner : AmlThread \cup {Nobody}, depth : Nat]]

Holds(h, m) == \E i \in DOMAIN h : h[i] = m

\* Nothing is given back, or m is, at whatever depth.
GivenBack(h, M, m, k, Q) ==
    \/ /\ k = h /\ \A x \in MutexNames : Q[x].owner = M[x].owner
    \/ /\ Holds(h, m) /\ IsInjective(k) /\ \A x \in MutexNames : Holds(k, x) <=> Holds(h, x) /\ x # m
       /\ Q[m].owner = Nobody /\ \A x \in MutexNames \ {m} : Q[x].owner = M[x].owner

LEMMA ReleaseFacts ==
    ASSUME NEW h \in Seq(MutexNames), IsInjective(h), NEW M \in MutexTable, NEW m \in MutexNames,
           NEW force \in BOOLEAN
    PROVE  LET r == remove_and_release([held |-> h, mx |-> M], m, force)
           IN  /\ r.held \in Seq(MutexNames) /\ r.mx \in MutexTable
               /\ GivenBack(h, M, m, r.held, r.mx)
<1> DEFINE s == [held |-> h, mx |-> M]
           r == remove_and_release(s, m, force)
           i == Last_(Held(s, m))
           one == [M EXCEPT ![m].depth = M[m].depth - 1]
           all == [M EXCEPT ![m] = [owner |-> Nobody, depth |-> 0]]
<1>1. s.held = h /\ s.mx = M
  OBVIOUS
<1>2. M[m].owner \in AmlThread \cup {Nobody} /\ M[m].depth \in Nat
  BY DEF MutexTable
<1>0. r = s \/ (M[m].depth > 1 /\ r = [held |-> h, mx |-> one])
            \/ (Held(s, m) # {} /\ r = [held |-> RemoveAt(h, i), mx |-> all])
  BY <1>1 DEF remove_and_release, uacpi_release_aml_mutex
<1> HIDE DEF r, i
<1>3. CASE r = s
  BY <1>1, <1>3 DEF GivenBack, r
<1>4. CASE M[m].depth > 1 /\ r = [held |-> h, mx |-> one]
  <2> DEFINE k == M[m].depth - 1
  <2>1. k \in Nat
    BY <1>2, <1>4
  <2>2. one = [M EXCEPT ![m].depth = k]
    OBVIOUS
  <2> HIDE DEF k, one
  <2>3. r.held = h /\ r.mx = one
    BY <1>4
  <2>4. one \in MutexTable /\ \A x \in MutexNames : one[x].owner = M[x].owner
    BY <2>1, <2>2 DEF MutexTable
  <2> QED
    BY <2>3, <2>4 DEF GivenBack, r
<1>5. CASE Held(s, m) # {} /\ r = [held |-> RemoveAt(h, i), mx |-> all]
  <2>1. Len(h) \in Nat /\ DOMAIN h = 1 .. Len(h) /\ Held(s, m) \subseteq 1 .. Len(h)
    BY <1>1, LenProperties DEF Held
  <2>2. \E x \in Held(s, m) : \A y \in Held(s, m) : y <= x
    BY <1>5, <2>1, LargestIndex
  <2>3. i \in Held(s, m)
    BY <2>2, Zenon DEF Last_, i
  <2>4. i \in 1 .. Len(h) /\ h[i] = m
    BY <1>1, <2>1, <2>3 DEF Held
  <2> HIDE DEF all
  <2>5. r.held = RemoveAt(h, i) /\ r.mx = all
    BY <1>5
  <2>6. /\ IsInjective(RemoveAt(h, i)) /\ RemoveAt(h, i) \in Seq(MutexNames)
        /\ \A x \in MutexNames : (\E j \in DOMAIN RemoveAt(h, i) : RemoveAt(h, i)[j] = x) <=>
                                 (\E j \in DOMAIN h : h[j] = x) /\ x # h[i]
    <3>1. i \in 1 .. Len(h)
      BY <2>4
    <3>2. h \in Seq(MutexNames) /\ IsInjective(h)
      OBVIOUS
    <3> QED
      BY ONLY <3>1, <3>2, RemoveOnce
  <2>7. \A x \in MutexNames : Holds(RemoveAt(h, i), x) <=> Holds(h, x) /\ x # m
    BY <2>4, <2>6 DEF Holds
  <2>8. Holds(h, m)
    BY <2>1, <2>4 DEF Holds
  <2>9. all \in MutexTable /\ all[m].owner = Nobody /\ \A x \in MutexNames \ {m} : all[x].owner = M[x].owner
    BY DEF MutexTable, all
  <2> QED
    BY <2>5, <2>6, <2>7, <2>8, <2>9 DEF GivenBack, r
<1> QED
  BY <1>0, <1>3, <1>4, <1>5

\* t gives m back.
LEMMA MutexesGiven ==
    ASSUME NEW A, NEW B, NEW M \in MutexTable, NEW Q, NEW t \in AmlThread, NEW m \in MutexNames, MutexesOK(A, M),
           ~A[t].wait.got, ~B[t].wait.got, GivenBack(A[t].held, M, m, B[t].held, Q),
           \A u \in AmlThread \ {t} : B[u] = A[u]
    PROVE  MutexesOK(B, Q)
<1>1. CASE B[t].held = A[t].held /\ \A x \in MutexNames : Q[x].owner = M[x].owner
  <2>1. \A u \in AmlThread : /\ B[u].held = A[u].held /\ (B[u].wait.got <=> A[u].wait.got)
                             /\ A[u].wait.got => B[u].wait.m = A[u].wait.m
    BY <1>1
  <2> QED
    BY <1>1, <2>1, MutexesSame
<1>2. CASE /\ Holds(A[t].held, m) /\ IsInjective(B[t].held)
           /\ \A x \in MutexNames : Holds(B[t].held, x) <=> Holds(A[t].held, x) /\ x # m
           /\ Q[m].owner = Nobody /\ \A x \in MutexNames \ {m} : Q[x].owner = M[x].owner
  <2>1. M[m].owner = t
    BY <1>2 DEF MutexesOK, Owns, Holds
  <2>2. \A x \in MutexNames : /\ Owns(A[t], x) <=> Holds(A[t].held, x)
                              /\ Owns(B[t], x) <=> Holds(B[t].held, x)
    BY DEF Owns, Holds
  <2>3. \A u \in AmlThread \ {t}, x \in MutexNames : Owns(B[u], x) <=> Owns(A[u], x)
    OBVIOUS
  <2>4. \A u \in AmlThread \ {t} : ~Owns(A[u], m)
    BY <2>1 DEF MutexesOK
  <2>5. ASSUME NEW x \in MutexNames, NEW u \in AmlThread PROVE Q[x].owner = u <=> Owns(B[u], x)
    <3>1. CASE x = m
      <4>1. Q[x].owner # u
        BY <1>2, <3>1, AmlAssumption
      <4>2. ~Owns(B[u], x)
        BY <1>2, <2>2, <2>3, <2>4, <3>1
      <4> QED
        BY <4>1, <4>2
    <3>2. CASE x # m
      <4>1. Q[x].owner = M[x].owner
        BY <1>2, <3>2
      <4>2. Owns(B[u], x) <=> Owns(A[u], x)
        BY <1>2, <2>2, <2>3, <3>2
      <4> QED
        BY <4>1, <4>2 DEF MutexesOK
    <3> QED
      BY <3>1, <3>2
  <2>6. \A u \in AmlThread : IsInjective(B[u].held)
    BY <1>2 DEF MutexesOK
  <2>7. \A u \in AmlThread : B[u].wait.got => \A i \in DOMAIN B[u].held : B[u].held[i] # B[u].wait.m
    BY DEF MutexesOK
  <2> QED
    BY <2>5, <2>6, <2>7 DEF MutexesOK
<1> QED
  BY <1>1, <1>2 DEF GivenBack

LEMMA TimesOutStep == ASSUME AmlIInv, NEW t \in AmlThread, TimesOut(t) PROVE AmlIInv'
<1> DEFINE c == aml[t]
           w == [c.wait EXCEPT !.why = "sleep"]
           d == [c EXCEPT !.wait = w]
<1>1. GoodCtx(c) /\ c \in CtxRec /\ c.wait \in WaitRec /\ aml \in [AmlThread -> CtxRec] /\ c.wait.got \in BOOLEAN
  BY LockedFacts, GoodCtxFacts DEF AmlIInv, AmlTyped, WaitRec
<1>2. /\ c.wait.why = "acquire" /\ ~c.wait.got /\ lock # t /\ lock' = lock /\ mutexes' = mutexes /\ nodes' = nodes
      /\ aml' = [aml EXCEPT ![t].wait.why = "sleep"]
  BY DEF TimesOut, Waits
<1>3. aml' = [aml EXCEPT ![t] = d]
  BY <1>1, <1>2 DEF CtxRec, WaitRec
<1>4. w \in WaitRec /\ w.m = c.wait.m /\ w.why = "sleep" /\ ~w.got
  BY <1>1, <1>2 DEF WaitRec
<1> HIDE DEF w
<1>5. d \in CtxRec /\ d.frames = c.frames /\ d.held = c.held /\ d.wait = w /\ d.state = c.state
  BY <1>1, <1>4 DEF CtxRec
<1> HIDE DEF d
<1>6. GoodCtx(d)
  BY <1>1, <1>2, <1>4, <1>5 DEF GoodCtx
<1>7. AmlTyped'
  BY <1>2, <1>3, <1>6, TypedStep DEF AmlIInv, AmlTyped
<1>8. aml'[t] = d /\ \A u \in AmlThread \ {t} : aml'[u] = aml[u]
  BY <1>1, <1>3
<1>9. \A u \in AmlThread : /\ aml'[u].held = aml[u].held /\ (aml'[u].wait.got <=> aml[u].wait.got)
                           /\ aml[u].wait.got => aml'[u].wait.m = aml[u].wait.m
  BY <1>2, <1>4, <1>5, <1>8
<1>10. \A u \in AmlThread, k \in 1 .. CallDepth, n \in AmlName : ListsIn(aml'[u], k, n) <=> ListsIn(aml[u], k, n)
  BY <1>5, <1>8 DEF ListsIn
<1> DEFINE B == aml'
<1>11. \A u \in AmlThread : /\ B[u].held = aml[u].held /\ (B[u].wait.got <=> aml[u].wait.got)
                            /\ aml[u].wait.got => B[u].wait.m = aml[u].wait.m
  BY <1>9
<1>14. \A u \in AmlThread, k \in 1 .. CallDepth, n \in AmlName : ListsIn(B[u], k, n) <=> ListsIn(aml[u], k, n)
  BY <1>10
<1> HIDE DEF B
<1>12. MutexesOK(B, mutexes)
  <2>1. MutexesOK(aml, mutexes)
    BY DEF AmlIInv
  <2> QED
    BY <1>11, <2>1, MutexesSame
<1>13. NodesOK(B, nodes)
  <2>1. NodesOK(aml, nodes)
    BY DEF AmlIInv
  <2> QED
    BY ONLY <1>14, <2>1, NodesSame
<1> QED
  BY <1>2, <1>7, <1>12, <1>13 DEF AmlIInv, B

LEMMA MutexesGot ==
    ASSUME NEW A, NEW B, NEW M, NEW Q, NEW t \in AmlThread, NEW m \in MutexNames, MutexesOK(A, M),
           M[m].owner = Nobody, ~A[t].wait.got, B[t].held = A[t].held, B[t].wait.m = m, B[t].wait.got,
           Q[m].owner = t, \A x \in MutexNames \ {m} : Q[x].owner = M[x].owner,
           \A u \in AmlThread \ {t} : B[u] = A[u]
    PROVE  MutexesOK(B, Q)
<1>1. \A u \in AmlThread : ~Owns(A[u], m)
  BY AmlAssumption DEF MutexesOK
<1>2. \A x \in MutexNames \ {m} : Owns(B[t], x) <=> Owns(A[t], x)
  BY DEF Owns
<1>3. Owns(B[t], m)
  BY DEF Owns
<1>4. \A x \in MutexNames, u \in AmlThread \ {t} : Owns(B[u], x) <=> Owns(A[u], x)
  OBVIOUS
<1>5. ASSUME NEW x \in MutexNames, NEW u \in AmlThread PROVE Q[x].owner = u <=> Owns(B[u], x)
  <2>1. CASE x = m
    BY <1>1, <1>3, <1>4, <2>1
  <2>2. CASE x # m
    BY <1>2, <1>4, <2>2 DEF MutexesOK
  <2> QED
    BY <2>1, <2>2
<1>6. \A u \in AmlThread : IsInjective(B[u].held)
  BY DEF MutexesOK
<1>7. ASSUME NEW u \in AmlThread, B[u].wait.got, NEW i \in DOMAIN B[u].held PROVE B[u].held[i] # B[u].wait.m
  <2>1. CASE u = t
    BY <1>1, <2>1 DEF Owns
  <2>2. CASE u # t
    BY <1>7, <2>2 DEF MutexesOK
  <2> QED
    BY <2>1, <2>2
<1> QED
  BY <1>5, <1>6, <1>7 DEF MutexesOK

LEMMA MutexesListedNow ==
    ASSUME NEW A, NEW B, NEW M, NEW t \in AmlThread, NEW m \in MutexNames, MutexesOK(A, M),
           A[t].held \in Seq(MutexNames), A[t].wait.got, A[t].wait.m = m,
           B[t].held = Append(A[t].held, m), ~B[t].wait.got, \A u \in AmlThread \ {t} : B[u] = A[u]
    PROVE  MutexesOK(B, M)
<1> DEFINE h == A[t].held
           k == B[t].held
           n == Len(h)
<1>1. n \in Nat /\ DOMAIN h = 1 .. n
  BY LenProperties
<1>2. k \in Seq(MutexNames) /\ Len(k) = n + 1 /\ k[n + 1] = m /\ \A i \in 1 .. n : k[i] = h[i]
  BY AppendProperties
<1>3. DOMAIN k = 1 .. n + 1
  BY <1>2, LenProperties
<1>4. \A i \in 1 .. n : h[i] # m
  BY <1>1 DEF MutexesOK
<1>5. \A i, j \in 1 .. n : h[i] = h[j] => i = j
  BY <1>1 DEF MutexesOK, IsInjective
<1>6. \A x : Owns(B[t], x) <=> \E i \in 1 .. n + 1 : k[i] = x
  BY <1>3 DEF Owns
<1>7. \A x : Owns(A[t], x) <=> (\E i \in 1 .. n : h[i] = x) \/ x = m
  BY <1>1 DEF Owns
<1> HIDE DEF h, k, n
<1>8. \A i \in 1 .. n + 1 : i \in 1 .. n \/ i = n + 1
  BY <1>1
<1>9. \A i \in 1 .. n : i \in 1 .. n + 1
  BY <1>1
<1>10. n + 1 \in 1 .. n + 1
  BY <1>1
<1>11. \A x : (\E i \in 1 .. n + 1 : k[i] = x) <=> (\E i \in 1 .. n : h[i] = x) \/ x = m
  BY <1>2, <1>8, <1>9, <1>10
<1>12. \A i, j \in 1 .. n + 1 : k[i] = k[j] => i = j
  BY <1>2, <1>4, <1>5, <1>8
<1>13. \A x \in MutexNames, u \in AmlThread : Owns(B[u], x) <=> Owns(A[u], x)
  <2>1. \A x : Owns(B[t], x) <=> Owns(A[t], x)
    BY <1>6, <1>7, <1>11
  <2> QED
    BY <2>1
<1>14. \A u \in AmlThread : IsInjective(B[u].held)
  <2>1. IsInjective(k)
    BY <1>3, <1>12 DEF IsInjective
  <2>2. \A u \in AmlThread \ {t} : IsInjective(B[u].held)
    BY DEF MutexesOK
  <2> QED
    BY <2>1, <2>2 DEF k
<1>15. ASSUME NEW u \in AmlThread, B[u].wait.got, NEW i \in DOMAIN B[u].held PROVE B[u].held[i] # B[u].wait.m
  BY <1>15 DEF MutexesOK
<1> QED
  BY <1>13, <1>14, <1>15 DEF MutexesOK

\* A step of t that leaves its nodes alone; what it does to mutexes is shown apart.
LEMMA MutexStep ==
    ASSUME AmlIInv, NEW t \in AmlThread, NEW d, GoodCtx(d),
           \A k \in 1 .. CallDepth, n \in AmlName : ListsIn(d, k, n) <=> ListsIn(aml[t], k, n),
           aml' = [aml EXCEPT ![t] = d], lock' \in {lock, t, Nobody}, lock' = t => d.wait.why = "none",
           mutexes' \in MutexTable, MutexesOK(aml', mutexes'), nodes' = nodes
    PROVE  AmlIInv'
<1>1. AmlTyped'
  BY TypedStep DEF AmlIInv, AmlTyped, MutexTable
<1>2. aml'[t] = d /\ \A u \in AmlThread \ {t} : aml'[u] = aml[u]
  BY DEF AmlIInv, AmlTyped
<1>3. \A u \in AmlThread, k \in 1 .. CallDepth, n \in AmlName : ListsIn(aml'[u], k, n) <=> ListsIn(aml[u], k, n)
  BY <1>2
<1>4. NodesOK(aml', nodes')
  BY <1>3, NodesSame DEF AmlIInv
<1> QED
  BY <1>1, <1>4 DEF AmlIInv

LEMMA GetsMutexStep == ASSUME AmlIInv, NEW t \in AmlThread, GetsMutex(t) PROVE AmlIInv'
<1> DEFINE c == aml[t]
           m == c.wait.m
           w == [c.wait EXCEPT !.got = TRUE]
           d == [c EXCEPT !.wait = w]
           Q == [mutexes EXCEPT ![m] = [owner |-> t, depth |-> 1]]
<1>1. /\ GoodCtx(c) /\ c \in CtxRec /\ c.wait \in WaitRec /\ aml \in [AmlThread -> CtxRec]
      /\ mutexes \in MutexTable /\ MutexesOK(aml, mutexes)
  BY LockedFacts, GoodCtxFacts DEF AmlIInv, AmlTyped, MutexTable
<1>2. /\ c.wait.why \in {"enter", "acquire"} /\ ~c.wait.got /\ lock # t /\ lock' = lock /\ nodes' = nodes
      /\ mutexes' = Q /\ mutexes[m].owner = Nobody /\ aml' = [aml EXCEPT ![t].wait.got = TRUE]
  BY DEF GetsMutex, Waits
<1>3. aml' = [aml EXCEPT ![t] = d]
  BY <1>1, <1>2 DEF CtxRec, WaitRec
<1>4. w \in WaitRec /\ w.m = m /\ w.why = c.wait.why /\ w.got = TRUE
  BY <1>1 DEF WaitRec
<1> HIDE DEF w
<1>5. d \in CtxRec /\ d.frames = c.frames /\ d.held = c.held /\ d.wait = w /\ d.state = c.state
  BY <1>1, <1>4 DEF CtxRec
<1> HIDE DEF d
<1>6. GoodCtx(d)
  BY <1>1, <1>2, <1>4, <1>5 DEF GoodCtx
<1>7. m \in MutexNames
  BY <1>1, <1>2, SerializedNames DEF GoodCtx
<1> HIDE DEF m
<1>8. Q \in MutexTable /\ Q[m].owner = t /\ \A x \in MutexNames \ {m} : Q[x].owner = mutexes[x].owner
  BY <1>1, <1>7 DEF MutexTable
<1> HIDE DEF Q
<1>9. aml'[t] = d /\ \A u \in AmlThread \ {t} : aml'[u] = aml[u]
  BY <1>1, <1>3
<1>10. MutexesOK(aml', mutexes')
  <2> DEFINE B == aml'
  <2>1. B[t].held = aml[t].held /\ B[t].wait.m = m /\ B[t].wait.got /\ \A u \in AmlThread \ {t} : B[u] = aml[u]
    BY <1>4, <1>5, <1>9
  <2> HIDE DEF B
  <2>2. MutexesOK(B, Q)
    BY <1>1, <1>2, <1>7, <1>8, <2>1, MutexesGot
  <2> QED
    BY <1>2, <2>2 DEF B
<1>11. \A k \in 1 .. CallDepth, n \in AmlName : ListsIn(d, k, n) <=> ListsIn(aml[t], k, n)
  BY <1>5 DEF ListsIn
<1> QED
  BY <1>2, <1>3, <1>6, <1>8, <1>10, <1>11, MutexStep

LEMMA UnwaitIsGood ==
    ASSUME NEW c, GoodCtx(c), c.wait.why # "none"
    PROVE  LET d == [c EXCEPT !.wait = NoWait]
           IN  /\ GoodCtx(d) /\ d.held = c.held /\ d.frames = c.frames /\ d.wait.why = "none" /\ ~d.wait.got
               /\ d.state \in {"run", "failed"}
<1> DEFINE d == [c EXCEPT !.wait = NoWait]
<1>1. c \in CtxRec /\ c.state \in States
  BY GoodCtxFacts
<1>2. c.state \in {"run", "failed"}
  BY <1>1 DEF GoodCtx, States
<1>3. NoWait \in WaitRec /\ NoWait.why = "none" /\ ~NoWait.got
  BY DEF WaitRec, NoWait
<1>4. d \in CtxRec /\ d.frames = c.frames /\ d.held = c.held /\ d.wait = NoWait /\ d.state = c.state
  BY <1>1, <1>3 DEF CtxRec
<1> HIDE DEF d
<1>5. GoodCtx(d)
  BY <1>2, <1>3, <1>4 DEF GoodCtx
<1> QED
  BY <1>2, <1>3, <1>4, <1>5 DEF d

WithHeld(c, h, l) == [c EXCEPT !.held = h, !.sync = l]

LEMMA HeldIsGood ==
    ASSUME NEW c, GoodCtx(c), c.state \in {"run", "failed"}, NEW h \in Seq(MutexNames), NEW l \in Nat
    PROVE  LET d == WithHeld(c, h, l)
           IN  /\ GoodCtx(d) /\ d.held = h /\ d.frames = c.frames /\ d.wait = c.wait /\ d.state = c.state
<1> DEFINE d == [c EXCEPT !.held = h, !.sync = l]
<1>1. c \in CtxRec
  BY GoodCtxFacts
<1>2. d \in CtxRec /\ d.frames = c.frames /\ d.held = h /\ d.wait = c.wait /\ d.state = c.state
  BY <1>1 DEF CtxRec
<1> HIDE DEF d
<1>3. GoodCtx(d)
  BY <1>2 DEF GoodCtx
<1> QED
  BY <1>2, <1>3 DEF d, WithHeld

\* The three ways in which a wait ends.
LEMMA ResumedShape ==
    ASSUME AmlIInv, NEW t \in AmlThread, Resumes(t)
    PROVE  \E d : /\ GoodCtx(d) /\ aml' = [aml EXCEPT ![t] = d] /\ d.wait.why = "none" /\ ~d.wait.got
                  /\ \A k \in 1 .. CallDepth, n \in AmlName : ListsIn(d, k, n) <=> ListsIn(aml[t], k, n)
                  /\ \/ /\ aml[t].wait.why = "sleep" /\ d.held = aml[t].held /\ d.frames = aml[t].frames
                     \/ /\ aml[t].wait.why = "acquire" /\ aml[t].wait.got /\ d.frames = aml[t].frames
                        /\ d.held = Append(aml[t].held, aml[t].wait.m) /\ aml[t].wait.m \in MutexNames
                     \/ /\ aml[t].wait.why = "enter" /\ aml[t].wait.got
                        /\ d.held = Append(aml[t].held, aml[t].wait.m) /\ aml[t].wait.m \in MutexNames
                        /\ Len(d.frames) = Len(aml[t].frames) + 1
                        /\ \A k \in 1 .. Len(aml[t].frames) : d.frames[k] = aml[t].frames[k]
                        /\ d.frames[Len(aml[t].frames) + 1].method = aml[t].wait.m
<1> DEFINE a == aml[t]
           c == [a EXCEPT !.wait = NoWait]
           m == a.wait.m
           h == Append(a.held, m)
<1>1. /\ GoodCtx(a) /\ a.wait.why \in {"enter", "acquire", "sleep"} /\ a.wait.why # "none"
      /\ a.wait.why # "sleep" => a.wait.got
  BY LockedFacts, GoodCtxFacts DEF Resumes, Waits, WaitRec
<1>2. /\ GoodCtx(c) /\ c.held = a.held /\ c.frames = a.frames /\ c.wait.why = "none" /\ ~c.wait.got
      /\ c.state \in {"run", "failed"}
  BY <1>1, UnwaitIsGood
<1>3. a.held \in Seq(MutexNames) /\ c \in CtxRec /\ c.sync \in Nat
  BY <1>1, <1>2, GoodCtxFacts
<1>4. CASE a.wait.why = "sleep"
  <2>1. aml' = [aml EXCEPT ![t] = c]
    BY <1>4 DEF Resumes
  <2> HIDE DEF c
  <2>2. \A k \in 1 .. CallDepth, n \in AmlName : ListsIn(c, k, n) <=> ListsIn(a, k, n)
    BY <1>2 DEF ListsIn
  <2> QED
    BY <1>2, <1>4, <2>1, <2>2
<1>5. CASE a.wait.why = "acquire"
  <2> DEFINE l == SyncLevel[m]
             d == WithHeld(c, h, l)
  <2>1. m \in MutexNames /\ a.wait.got
    BY <1>1, <1>5 DEF GoodCtx
  <2>2. l \in Nat /\ h \in Seq(MutexNames)
    BY <1>3, <2>1, AmlAssumption, AppendProperties DEF MutexNames
  <2>3. aml' = [aml EXCEPT ![t] = d]
    BY <1>2, <1>3, <1>5 DEF Resumes, CtxRec, WithHeld
  <2>6. GoodCtx(c) /\ c.state \in {"run", "failed"}
    BY <1>2
  <2> HIDE DEF c, h, l
  <2>4. /\ GoodCtx(d) /\ d.held = h /\ d.frames = c.frames /\ d.wait = c.wait
    BY ONLY <2>2, <2>6, HeldIsGood
  <2> HIDE DEF d
  <2>5. \A k \in 1 .. CallDepth, n \in AmlName : ListsIn(d, k, n) <=> ListsIn(a, k, n)
    BY <1>2, <2>4 DEF ListsIn
  <2> QED
    BY <1>2, <1>5, <2>1, <2>3, <2>4, <2>5 DEF h
<1>6. CASE a.wait.why = "enter"
  <2> DEFINE e == WithHeld(c, h, c.sync)
             d == EnteredFrame(e, m)
  <2>1. m \in MutexNames /\ m \in Methods /\ a.wait.got /\ Len(a.frames) < CallDepth
    BY <1>1, <1>6, SerializedNames DEF GoodCtx
  <2>2. h \in Seq(MutexNames)
    BY <1>3, <2>1, AppendProperties
  <2>3. aml' = [aml EXCEPT ![t] = d]
    <3>1. aml' = [aml EXCEPT ![t] = EnteredFrame([c EXCEPT !.held = Append(@, m)], m)]
      BY <1>6 DEF Resumes
    <3>2. [c EXCEPT !.held = Append(@, m)] = e
      BY <1>2, <1>3 DEF CtxRec, WithHeld
    <3> QED
      BY <3>1, <3>2
  <2>9. GoodCtx(c) /\ c.state \in {"run", "failed"} /\ c.sync \in Nat
    BY <1>2, <1>3
  <2> HIDE DEF c, h
  <2>4. /\ GoodCtx(e) /\ e.held = h /\ e.frames = c.frames /\ e.wait = c.wait /\ e.state = c.state
    BY ONLY <2>2, <2>9, HeldIsGood
  <2> HIDE DEF e, m
  <2>10. /\ GoodCtx(e) /\ e.wait.why = "none" /\ e.state \in {"run", "failed"} /\ m \in Methods
         /\ Len(e.frames) < CallDepth
    BY <1>2, <2>1, <2>4
  <2>5. /\ GoodCtx(d) /\ d.held = e.held /\ d.wait = e.wait /\ Len(d.frames) = Len(e.frames) + 1
        /\ \A k \in 1 .. Len(e.frames) : d.frames[k] = e.frames[k]
        /\ d.frames[Len(e.frames) + 1].method = m
        /\ \A k \in 1 .. CallDepth, n \in AmlName : ListsIn(d, k, n) <=> ListsIn(e, k, n)
    BY ONLY <2>10, EnteredIsGood
  <2> HIDE DEF d
  <2>6. \A k \in 1 .. CallDepth, n \in AmlName : ListsIn(d, k, n) <=> ListsIn(a, k, n)
    BY <1>2, <2>4, <2>5 DEF ListsIn
  <2>7. d.wait.why = "none" /\ ~d.wait.got /\ d.held = Append(a.held, m)
    BY <1>2, <2>4, <2>5 DEF h
  <2>8. /\ Len(d.frames) = Len(a.frames) + 1 /\ \A k \in 1 .. Len(a.frames) : d.frames[k] = a.frames[k]
        /\ d.frames[Len(a.frames) + 1].method = m
    BY <1>2, <2>4, <2>5
  <2> QED
    BY <1>6, <2>1, <2>3, <2>5, <2>6, <2>7, <2>8 DEF m
<1> QED
  BY <1>1, <1>4, <1>5, <1>6

LEMMA ResumesStep == ASSUME AmlIInv, NEW t \in AmlThread, Resumes(t) PROVE AmlIInv'
<1> DEFINE a == aml[t]
<1>1. PICK d : /\ GoodCtx(d) /\ aml' = [aml EXCEPT ![t] = d] /\ d.wait.why = "none" /\ ~d.wait.got
               /\ \A k \in 1 .. CallDepth, n \in AmlName : ListsIn(d, k, n) <=> ListsIn(a, k, n)
               /\ \/ a.wait.why = "sleep" /\ d.held = a.held
                  \/ a.wait.got /\ d.held = Append(a.held, a.wait.m) /\ a.wait.m \in MutexNames
  BY ResumedShape
<1>2. /\ GoodCtx(a) /\ a.held \in Seq(MutexNames) /\ aml \in [AmlThread -> CtxRec] /\ MutexesOK(aml, mutexes)
      /\ mutexes \in MutexTable
  BY LockedFacts, GoodCtxFacts DEF AmlIInv, AmlTyped, MutexTable
<1>3. lock' = t /\ mutexes' = mutexes /\ nodes' = nodes
  BY DEF Resumes
<1> DEFINE B == aml'
<1>4. B[t] = d /\ \A u \in AmlThread \ {t} : B[u] = aml[u]
  BY <1>1, <1>2
<1> HIDE DEF B
<1>5. CASE a.wait.why = "sleep" /\ d.held = a.held
  <2>1. ~a.wait.got
    BY <1>2, <1>5 DEF GoodCtx
  <2>2. \A u \in AmlThread : /\ B[u].held = aml[u].held /\ (B[u].wait.got <=> aml[u].wait.got)
                             /\ aml[u].wait.got => B[u].wait.m = aml[u].wait.m
    BY <1>1, <1>4, <1>5, <2>1
  <2>3. MutexesOK(B, mutexes)
    BY <1>2, <2>2, MutexesSame
  <2> QED
    BY <1>1, <1>2, <1>3, <2>3, MutexStep DEF B
<1>6. CASE a.wait.got /\ d.held = Append(a.held, a.wait.m) /\ a.wait.m \in MutexNames
  <2>1. B[t].held = Append(a.held, a.wait.m) /\ ~B[t].wait.got
    BY <1>1, <1>4, <1>6
  <2>2. MutexesOK(B, mutexes)
    BY <1>2, <1>4, <1>6, <2>1, MutexesListedNow
  <2> QED
    BY <1>1, <1>2, <1>3, <2>2, MutexStep DEF B
<1> QED
  BY <1>1, <1>5, <1>6

(***************************************************************************)
(* Frames that are left.                                                   *)
(***************************************************************************)
WithoutTop(c, h, l) == [c EXCEPT !.frames = Front(@), !.held = h, !.sync = l]

LEMMA WithoutTopIsGood ==
    ASSUME NEW c, GoodCtx(c), c.frames # <<>>, c.wait.why = "none", NEW h \in Seq(MutexNames), NEW l \in Nat
    PROVE  LET d == WithoutTop(c, h, l)
           IN  /\ GoodCtx(d) /\ d.held = h /\ d.wait = c.wait /\ d.state = c.state
               /\ Len(d.frames) = Len(c.frames) - 1 /\ Len(c.frames) \in 1 .. CallDepth
               /\ \A k \in 1 .. Len(c.frames) - 1 : d.frames[k] = c.frames[k]
               /\ \A k \in 1 .. CallDepth, n \in AmlName :
                    ListsIn(d, k, n) <=> ListsIn(c, k, n) /\ k # Len(c.frames)
<1> DEFINE s == Front(c.frames)
           d == [c EXCEPT !.frames = s, !.held = h, !.sync = l]
           n == Len(c.frames)
<1>1. /\ c \in CtxRec /\ c.frames \in Seq(GoodFrame) /\ n \in 1 .. CallDepth /\ c.state \in {"run", "failed"}
      /\ DOMAIN c.frames = 1 .. n
  BY GoodCtxFacts, TopFacts
<1>2. s \in Seq(GoodFrame) /\ Len(s) = n - 1 /\ \A k \in 1 .. n - 1 : s[k] = c.frames[k]
  BY <1>1, FrontIs
<1>3. WithoutTop(c, h, l) = d
  BY DEF WithoutTop
<1> HIDE DEF s
<1>4. d \in CtxRec /\ d.frames = s /\ d.held = h /\ d.wait = c.wait /\ d.state = c.state
  BY <1>1, <1>2 DEF CtxRec
<1> HIDE DEF d
<1>5. DOMAIN d.frames = 1 .. n - 1
  BY <1>2, <1>4, LenProperties
<1> HIDE DEF n
<1>6. n - 1 <= CallDepth /\ n - 1 \in Nat
  BY <1>1, AmlAssumption
<1>7. GoodCtx(d)
  BY <1>1, <1>2, <1>4, <1>6 DEF GoodCtx
<1>8. \A k \in 1 .. CallDepth : k \in 1 .. n - 1 <=> k \in 1 .. n /\ k # n
  BY <1>1
<1>9. \A k \in 1 .. CallDepth, x \in AmlName : ListsIn(d, k, x) <=> ListsIn(c, k, x) /\ k # n
  BY <1>1, <1>2, <1>4, <1>5, <1>8 DEF ListsIn
<1> QED
  BY <1>1, <1>2, <1>3, <1>4, <1>7, <1>9 DEF n

\* What leaving a frame does to the contexts, the mutexes and the nodes.
LEMMA DropShape ==
    ASSUME AmlIInv, NEW t \in AmlThread, lock = t, NEW c, SameShape(aml[t], c), c.frames # <<>>,
           DropFrame(t, c)
    PROVE  \E d : /\ GoodCtx(d) /\ aml' = [aml EXCEPT ![t] = d] /\ lock' = lock /\ d.wait.why = "none"
                  /\ Len(d.frames) = Len(aml[t].frames) - 1 /\ Len(aml[t].frames) \in 1 .. CallDepth
                  /\ \A k \in 1 .. Len(aml[t].frames) - 1 : d.frames[k].method = aml[t].frames[k].method
                  /\ \A k \in 1 .. CallDepth, n \in AmlName :
                       ListsIn(d, k, n) <=> ListsIn(aml[t], k, n) /\ k # Len(aml[t].frames)
                  /\ mutexes' \in MutexTable
                  /\ \/ d.held = aml[t].held /\ mutexes' = mutexes
                     \/ /\ aml[t].frames[Len(aml[t].frames)].method \in Serialized
                        /\ GivenBack(aml[t].held, mutexes, aml[t].frames[Len(aml[t].frames)].method,
                                     d.held, mutexes')
                  /\ nodes' = [n \in AmlName |-> IF ListsIn(aml[t], Len(aml[t].frames), n) THEN "none"
                                                 ELSE nodes[n]]
<1> DEFINE a == aml[t]
           f == Top(c)
           m == f.method
           s == [held |-> c.held, mx |-> mutexes]
           r == IF m \in Serialized THEN remove_and_release(s, m, TRUE) ELSE s
           l == IF m \in Serialized THEN f.prevSync ELSE c.sync
           d == WithoutTop(c, r.held, l)
           n == Len(a.frames)
<1>1. /\ GoodCtx(c) /\ c.wait.why = "none" /\ GoodCtx(a) /\ c.held = a.held /\ Len(c.frames) = n
      /\ \A k \in 1 .. n : c.frames[k].method = a.frames[k].method /\ c.frames[k].temp = a.frames[k].temp
  BY LockedFacts DEF SameShape
<1>2. /\ f \in GoodFrame /\ f = c.frames[n] /\ n \in 1 .. CallDepth /\ n \in 1 .. n
  BY <1>1, TopFacts
<1>3. m \in Methods /\ m = a.frames[n].method /\ f.temp = a.frames[n].temp /\ f.prevSync \in Nat
  BY <1>1, <1>2, GoodFrameFacts DEF FrameOf
<1>4. mutexes \in MutexTable /\ IsInjective(a.held) /\ a.held \in Seq(MutexNames) /\ c.sync \in Nat
  BY <1>1, GoodCtxFacts DEF AmlIInv, AmlTyped, MutexTable, MutexesOK
<1>5. l \in Nat
  BY <1>3, <1>4
<1>6. /\ r.held \in Seq(MutexNames) /\ r.mx \in MutexTable
      /\ (r.held = a.held /\ r.mx = mutexes) \/ (m \in Serialized /\ GivenBack(a.held, mutexes, m, r.held, r.mx))
  <2>1. CASE m \in Serialized
    <3>1. m \in MutexNames /\ TRUE \in BOOLEAN
      BY <2>1, SerializedNames
    <3>2. r = remove_and_release([held |-> a.held, mx |-> mutexes], m, TRUE)
      BY <1>1, <2>1
    <3> HIDE DEF r, m
    <3>3. /\ r.held \in Seq(MutexNames) /\ r.mx \in MutexTable /\ GivenBack(a.held, mutexes, m, r.held, r.mx)
      BY <1>4, <3>1, <3>2, ReleaseFacts
    <3> QED
      BY <2>1, <3>3
  <2>2. CASE m \notin Serialized
    BY <1>1, <1>4, <2>2
  <2> QED
    BY <2>1, <2>2
<1>7. /\ aml' = [aml EXCEPT ![t] = d] /\ mutexes' = r.mx /\ lock' = lock
      /\ nodes' = [x \in AmlName |-> IF x \in Range(f.temp) THEN "none" ELSE nodes[x]]
  <2>1. c \in CtxRec
    BY <1>1, GoodCtxFacts
  <2>2. d = [c EXCEPT !.frames = Front(@), !.held = r.held,
                      !.sync = IF f.method \in Serialized THEN f.prevSync ELSE @]
    BY <2>1 DEF WithoutTop, CtxRec
  <2> QED
    BY <2>2 DEF DropFrame
<1> HIDE DEF r, l, m
<1>8. /\ GoodCtx(d) /\ d.held = r.held /\ d.wait = c.wait
      /\ Len(d.frames) = Len(c.frames) - 1
      /\ \A k \in 1 .. Len(c.frames) - 1 : d.frames[k] = c.frames[k]
      /\ \A k \in 1 .. CallDepth, x \in AmlName : ListsIn(d, k, x) <=> ListsIn(c, k, x) /\ k # Len(c.frames)
  BY <1>1, <1>5, <1>6, WithoutTopIsGood
<1> HIDE DEF d, f
<1>9. \A k \in 1 .. CallDepth, x \in AmlName : ListsIn(c, k, x) <=> ListsIn(a, k, x)
  BY <1>1, ShapeLists
<1>10. \A k \in 1 .. CallDepth, x \in AmlName : ListsIn(d, k, x) <=> ListsIn(a, k, x) /\ k # n
  BY <1>1, <1>8, <1>9
<1>11. \A k \in 1 .. n - 1 : d.frames[k].method = a.frames[k].method
  <2>1. \A k \in 1 .. n - 1 : k \in 1 .. n
    BY <1>2
  <2> QED
    BY <1>1, <1>8, <2>1
<1>12. \A x \in AmlName : ListsIn(a, n, x) <=> x \in Range(f.temp)
  <2>1. n \in DOMAIN a.frames
    BY <1>1, <1>2, GoodCtxFacts
  <2> QED
    BY <1>3, <2>1 DEF ListsIn
<1>13. nodes' = [x \in AmlName |-> IF ListsIn(a, n, x) THEN "none" ELSE nodes[x]]
  BY <1>7, <1>12
<1>14. \/ d.held = a.held /\ mutexes' = mutexes
       \/ a.frames[n].method \in Serialized /\ GivenBack(a.held, mutexes, a.frames[n].method, d.held, mutexes')
  BY <1>3, <1>6, <1>7, <1>8
<1>15. d.wait.why = "none" /\ Len(d.frames) = n - 1 /\ mutexes' \in MutexTable
  BY <1>1, <1>6, <1>7, <1>8
<1> HIDE DEF n
<1>16. GoodCtx(d) /\ n \in 1 .. CallDepth
  BY <1>2, <1>8 DEF n
<1>17. aml' = [aml EXCEPT ![t] = d] /\ lock' = lock
  BY <1>7
<1> WITNESS d
<1> QED
  BY <1>10, <1>11, <1>13, <1>14, <1>15, <1>16, <1>17 DEF n

NodesWithout(c, p, N) == [n \in AmlName |-> IF ListsIn(c, p, n) THEN "none" ELSE N[n]]

\* The nodes of one frame go with it.
LEMMA NodesDropped ==
    ASSUME NEW A, NEW B, NEW N, NEW t \in AmlThread, NEW p \in 1 .. CallDepth, NodesOK(A, N),
           \A u \in AmlThread \ {t} : B[u] = A[u],
           \A k \in 1 .. CallDepth, n \in AmlName : ListsIn(B[t], k, n) <=> ListsIn(A[t], k, n) /\ k # p
    PROVE  NodesOK(B, NodesWithout(A[t], p, N))
<1> DEFINE O == [n \in AmlName |-> IF ListsIn(A[t], p, n) THEN "none" ELSE N[n]]
<1>1. \A u \in AmlThread, k \in 1 .. CallDepth, n \in AmlName :
         ListsIn(B[u], k, n) <=> ListsIn(A[u], k, n) /\ ~(u = t /\ k = p)
  OBVIOUS
<1>2. ASSUME NEW n \in AmlName
      PROVE  /\ O[n] = "temporary" <=> \E u \in AmlThread, k \in 1 .. CallDepth : ListsIn(B[u], k, n)
             /\ \A u, v \in AmlThread, k, l \in 1 .. CallDepth :
                   ListsIn(B[u], k, n) /\ ListsIn(B[v], l, n) => u = v /\ k = l
  <2>1. /\ N[n] = "temporary" <=> \E u \in AmlThread, k \in 1 .. CallDepth : ListsIn(A[u], k, n)
        /\ \A u, v \in AmlThread, k, l \in 1 .. CallDepth :
              ListsIn(A[u], k, n) /\ ListsIn(A[v], l, n) => u = v /\ k = l
    BY DEF NodesOK
  <2>2. CASE ListsIn(A[t], p, n)
    BY <1>1, <2>1, <2>2
  <2>3. CASE ~ListsIn(A[t], p, n)
    BY <1>1, <2>1, <2>3
  <2> QED
    BY <2>2, <2>3
<1> QED
  BY <1>2 DEF NodesOK, NodesWithout

LEMMA DropStep ==
    ASSUME AmlIInv, NEW t \in AmlThread, lock = t, NEW c, SameShape(aml[t], c), c.frames # <<>>,
           DropFrame(t, c)
    PROVE  AmlIInv'
<1> DEFINE a == aml[t]
           p == Len(a.frames)
           B == aml'
           Q == mutexes'
           O == NodesWithout(a, p, nodes)
<1>1. PICK d : /\ GoodCtx(d) /\ aml' = [aml EXCEPT ![t] = d] /\ lock' = lock /\ d.wait.why = "none"
               /\ p \in 1 .. CallDepth
               /\ \A k \in 1 .. CallDepth, n \in AmlName : ListsIn(d, k, n) <=> ListsIn(a, k, n) /\ k # p
               /\ mutexes' \in MutexTable
               /\ \/ d.held = a.held /\ mutexes' = mutexes
                  \/ a.frames[p].method \in Serialized /\ GivenBack(a.held, mutexes, a.frames[p].method, d.held, mutexes')
               /\ nodes' = O
  BY DropShape DEF NodesWithout
<1>2. /\ mutexes \in MutexTable /\ MutexesOK(aml, mutexes) /\ NodesOK(aml, nodes) /\ AmlTyped
      /\ nodes \in [AmlName -> {"none", "temporary", "permanent"}] /\ aml \in [AmlThread -> CtxRec]
  BY DEF AmlIInv, AmlTyped, MutexTable
<1>3. ~a.wait.got /\ ~d.wait.got
  BY <1>1, LockedFacts, GoodCtxFacts
<1>4. nodes' \in [AmlName -> {"none", "temporary", "permanent"}]
  BY <1>1, <1>2 DEF NodesWithout
<1>5. AmlTyped'
  BY <1>1, <1>2, <1>4, TypedStep DEF MutexTable
<1>6. B[t] = d /\ \A u \in AmlThread \ {t} : B[u] = aml[u]
  BY <1>1, <1>2
<1>7. B = aml' /\ Q = mutexes'
  OBVIOUS
<1> HIDE DEF B, Q, p
<1>8. MutexesOK(B, Q)
  <2>1. CASE d.held = a.held /\ mutexes' = mutexes
    <3>1. \A u \in AmlThread : /\ B[u].held = aml[u].held /\ (B[u].wait.got <=> aml[u].wait.got)
                               /\ aml[u].wait.got => B[u].wait.m = aml[u].wait.m
      BY <1>3, <1>6, <2>1
    <3>2. MutexesOK(B, mutexes)
      BY <1>2, <3>1, MutexesSame
    <3> QED
      BY <1>7, <2>1, <3>2
  <2>2. CASE a.frames[p].method \in Serialized /\ GivenBack(a.held, mutexes, a.frames[p].method, d.held, mutexes')
    <3> DEFINE m == a.frames[p].method
    <3>1. m \in MutexNames /\ GivenBack(aml[t].held, mutexes, m, B[t].held, Q)
      BY <1>6, <1>7, <2>2, SerializedNames
    <3>2. ~aml[t].wait.got /\ ~B[t].wait.got
      BY <1>3, <1>6
    <3> HIDE DEF m
    <3> QED
      BY <1>2, <1>6, <3>1, <3>2, MutexesGiven
  <2> QED
    BY <1>1, <2>1, <2>2
<1>9. NodesOK(B, O)
  <2>1. \A k \in 1 .. CallDepth, n \in AmlName : ListsIn(B[t], k, n) <=> ListsIn(aml[t], k, n) /\ k # p
    BY <1>1, <1>6
  <2> QED
    BY <1>1, <1>2, <1>6, <2>1, NodesDropped
<1> QED
  BY <1>1, <1>5, <1>7, <1>8, <1>9 DEF AmlIInv

LEMMA ReturnShape ==
    ASSUME AmlIInv, NEW t \in AmlThread, ctx_reload_post_ret(t)
    PROVE  lock = t /\ SameShape(aml[t], aml[t]) /\ aml[t].frames # <<>> /\ DropFrame(t, aml[t])
<1>1. Runs(t) /\ DropFrame(t, aml[t])
  BY DEF ctx_reload_post_ret
<1> QED
  BY <1>1, RunsFacts, SameAsItself

\* Unwinding ends, goes on in table-level code, or drops a frame.
LEMMA UnwindShape ==
    ASSUME AmlIInv, NEW t \in AmlThread, stack_unwind(t)
    PROVE  /\ lock = t
           /\ \/ Turned(t)
              \/ \E c : SameShape(aml[t], c) /\ c.frames # <<>> /\ DropFrame(t, c)
<1> DEFINE c == aml[t]
           table == c.frames # <<>> /\ Top(c).method \in AmlTable
<1>1. lock = t /\ GoodCtx(c) /\ c.wait.why = "none" /\ c \in CtxRec
  BY LockedFacts, GoodCtxFacts DEF stack_unwind
<1>2. SameShape(c, c)
  BY <1>1, SameAsItself
<1>3. CASE c.frames = <<>>
  <2> DEFINE d == [c EXCEPT !.unwind = 0, !.state = "failed"]
  <2>1. Turn(t, d)
    BY <1>3 DEF stack_unwind
  <2>0. 0 \in 0 .. 2 /\ "failed" \in States
    BY DEF States
  <2>2. /\ d \in CtxRec /\ d.frames = c.frames /\ d.held = c.held /\ d.wait = c.wait /\ d.state = "failed"
    BY <1>1, <2>0 DEF CtxRec
  <2> HIDE DEF d
  <2>3. GoodCtx(d)
    BY <1>1, <2>2 DEF GoodCtx
  <2>4. SameShape(c, d)
    BY <1>1, <2>2, <2>3 DEF SameShape
  <2> QED
    BY <1>1, <2>1, <2>4 DEF Turned
<1>4. CASE c.frames # <<>> /\ c.unwind = 2 /\ table
  <2>1. Turn(t, [c EXCEPT !.unwind = 0])
    BY <1>4 DEF stack_unwind
  <2>2. 0 \in 0 .. 2
    OBVIOUS
  <2>3. SameShape(c, [c EXCEPT !.unwind = 0])
    BY <1>1, <1>2, <2>2, UnwindIsSame
  <2> QED
    BY <1>1, <2>1, <2>3 DEF Turned
<1>5. CASE c.frames # <<>> /\ ~(c.unwind = 2 /\ table)
  <2> DEFINE u == IF table /\ Len(c.frames) > 1 THEN 0 ELSE 2
             d == [c EXCEPT !.unwind = u]
  <2>1. DropFrame(t, d)
    BY <1>5 DEF stack_unwind
  <2>2. u \in 0 .. 2
    OBVIOUS
  <2> HIDE DEF u
  <2>3. SameShape(c, d) /\ d.frames = c.frames
    BY <1>1, <1>2, <2>2, UnwindIsSame DEF CtxRec
  <2> HIDE DEF d
  <2> QED
    BY <1>1, <1>5, <2>1, <2>3
<1> QED
  BY <1>3, <1>4, <1>5

LEMMA LeaveStep ==
    ASSUME AmlIInv, NEW t \in AmlThread, ctx_reload_post_ret(t) \/ stack_unwind(t) PROVE AmlIInv'
<1>1. CASE ctx_reload_post_ret(t)
  BY <1>1, ReturnShape, DropStep
<1>2. CASE stack_unwind(t)
  <2>1. CASE Turned(t)
    BY <1>2, <2>1, UnwindShape, TurnedStep
  <2>2. CASE \E c : SameShape(aml[t], c) /\ c.frames # <<>> /\ DropFrame(t, c)
    BY <1>2, <2>2, UnwindShape, DropStep
  <2> QED
    BY <1>2, <2>1, <2>2, UnwindShape
<1> QED
  BY <1>1, <1>2

\* A context that gives back one mutex, with its frames as they are.
LEMMA GivesStep ==
    ASSUME AmlIInv, NEW t \in AmlThread, lock = t, NEW c, SameShape(aml[t], c), NEW d, GoodCtx(d),
           d.frames = c.frames, d.wait = c.wait, NEW m \in MutexNames,
           aml' = [aml EXCEPT ![t] = d], lock' = lock, nodes' = nodes, mutexes' \in MutexTable,
           GivenBack(aml[t].held, mutexes, m, d.held, mutexes')
    PROVE  AmlIInv'
<1>1. /\ GoodCtx(c) /\ GoodCtx(aml[t]) /\ c.wait.why = "none" /\ aml[t].wait.why = "none"
      /\ aml \in [AmlThread -> CtxRec] /\ mutexes \in MutexTable /\ MutexesOK(aml, mutexes)
  BY LockedFacts DEF SameShape, AmlIInv, AmlTyped, MutexTable
<1>2. ~d.wait.got /\ ~aml[t].wait.got /\ d.wait.why = "none"
  BY <1>1, GoodCtxFacts
<1> DEFINE B == aml'
           Q == mutexes'
<1>3. B[t] = d /\ \A u \in AmlThread \ {t} : B[u] = aml[u]
  BY <1>1
<1>4. GivenBack(aml[t].held, mutexes, m, B[t].held, Q) /\ ~B[t].wait.got
  BY <1>2, <1>3
<1> HIDE DEF B, Q
<1>5. MutexesOK(B, Q)
  BY <1>1, <1>2, <1>3, <1>4, MutexesGiven
<1>6. \A k \in 1 .. CallDepth, n \in AmlName : ListsIn(d, k, n) <=> ListsIn(aml[t], k, n)
  <2>1. \A k \in 1 .. CallDepth, n \in AmlName : ListsIn(c, k, n) <=> ListsIn(aml[t], k, n)
    BY <1>1, ShapeLists
  <2> QED
    BY <2>1 DEF ListsIn
<1> QED
  BY <1>2, <1>5, <1>6, MutexStep DEF B, Q

LEMMA ContextReleaseStep ==
    ASSUME AmlIInv, NEW t \in AmlThread, execution_context_release(t) PROVE AmlIInv'
<1> DEFINE c == aml[t]
           m == Last(c.held)
           r == remove_and_release([held |-> c.held, mx |-> mutexes], m, TRUE)
           d == WithHeld(c, r.held, c.sync)
<1>1. lock = t /\ c.held # <<>> /\ c.state \in {"run", "failed"} /\ c.frames = <<>>
  BY DEF execution_context_release, Leaves
<1>2. /\ GoodCtx(c) /\ c.wait.why = "none" /\ c \in CtxRec /\ c.held \in Seq(MutexNames) /\ c.sync \in Nat
      /\ Len(c.held) \in Nat /\ \A k \in 1 .. Len(c.held) : c.held[k] \in MutexNames
  BY <1>1, LockedFacts, GoodCtxFacts
<1>3. m \in MutexNames /\ TRUE \in BOOLEAN
  BY <1>1, <1>2, EmptySeq DEF Last
<1>4. mutexes \in MutexTable /\ IsInjective(c.held) /\ aml \in [AmlThread -> CtxRec]
  BY DEF AmlIInv, AmlTyped, MutexTable, MutexesOK
<1> HIDE DEF m
<1>5. /\ r.held \in Seq(MutexNames) /\ r.mx \in MutexTable /\ GivenBack(c.held, mutexes, m, r.held, r.mx)
  BY <1>2, <1>3, <1>4, ReleaseFacts
<1>6. aml' = [aml EXCEPT ![t] = d] /\ lock' = lock /\ mutexes' = r.mx /\ nodes' = nodes
  <2>1. aml' = [aml EXCEPT ![t].held = r.held]
    BY DEF execution_context_release, m
  <2> HIDE DEF r
  <2>2. d = [c EXCEPT !.held = r.held]
    BY <1>2 DEF CtxRec, WithHeld
  <2>3. aml' = [aml EXCEPT ![t] = d]
    BY <1>4, <2>1, <2>2
  <2> QED
    BY <2>3 DEF execution_context_release, m, r
<1> HIDE DEF r
<1>7. GoodCtx(d) /\ d.held = r.held /\ d.frames = c.frames /\ d.wait = c.wait
  BY <1>1, <1>2, <1>5, HeldIsGood
<1>8. SameShape(c, c)
  BY <1>2, SameAsItself
<1> HIDE DEF d
<1> QED
  BY <1>1, <1>3, <1>5, <1>6, <1>7, <1>8, GivesStep

LEMMA FinishStep == ASSUME AmlIInv, NEW t \in AmlThread, Finish(t) PROVE AmlIInv'
<1> DEFINE c == aml[t]
           d == Ctx("done")
<1>1. /\ lock = t /\ c.held = <<>> /\ c.frames = <<>> /\ aml' = [aml EXCEPT ![t] = d] /\ lock' = Nobody
      /\ mutexes' = mutexes /\ nodes' = nodes
  BY DEF Finish, Leaves
<1>2. GoodCtx(c) /\ c.wait.why = "none" /\ SameShape(c, c)
  BY <1>1, LockedFacts, SameAsItself
<1>3. GoodCtx(d) /\ d.frames = <<>> /\ d.held = <<>> /\ d.wait.why = "none" /\ ~d.wait.got
  BY CtxIsGood DEF States
<1> HIDE DEF d
<1>4. \A k \in 1 .. CallDepth, n \in AmlName : ListsIn(d, k, n) <=> ListsIn(c, k, n)
  BY <1>1, <1>3 DEF ListsIn
<1>5. mutexes \in [MutexNames -> [owner : AmlThread \cup {Nobody}, depth : Nat]]
  BY DEF AmlIInv, AmlTyped
<1> QED
  BY <1>1, <1>2, <1>3, <1>4, <1>5, ShapeStep

(***************************************************************************)
(* Nodes, and the mutexes of AML.                                          *)
(***************************************************************************)

\* A node that was listed by nobody is listed by one frame.
LEMMA NodesAdded ==
    ASSUME NEW A, NEW B, NEW N, NEW O, NEW t \in AmlThread, NEW p \in 1 .. CallDepth, NEW x \in AmlName,
           NodesOK(A, N), N[x] = "none", O[x] = "temporary", \A n \in AmlName \ {x} : O[n] = N[n],
           \A u \in AmlThread, k \in 1 .. CallDepth, n \in AmlName :
              ListsIn(B[u], k, n) <=> ListsIn(A[u], k, n) \/ (u = t /\ k = p /\ n = x)
    PROVE  NodesOK(B, O)
<1>1. \A u \in AmlThread, k \in 1 .. CallDepth : ~ListsIn(A[u], k, x)
  BY DEF NodesOK
<1>2. ASSUME NEW n \in AmlName
      PROVE  /\ O[n] = "temporary" <=> \E u \in AmlThread, k \in 1 .. CallDepth : ListsIn(B[u], k, n)
             /\ \A u, v \in AmlThread, k, l \in 1 .. CallDepth :
                   ListsIn(B[u], k, n) /\ ListsIn(B[v], l, n) => u = v /\ k = l
  <2>1. CASE n = x
    BY <1>1, <2>1
  <2>2. CASE n # x
    BY <2>2 DEF NodesOK
  <2> QED
    BY <2>1, <2>2
<1> QED
  BY <1>2 DEF NodesOK

LEMMA CreateNodeStep == ASSUME AmlIInv, NEW t \in AmlThread, CreateNode(t) PROVE AmlIInv'
<1> DEFINE c == aml[t]
           e == Past(c)
           x == Instr(Top(c)).arg
           table == Top(c).method \in AmlTable
<1>1. Fetches(t, "name")
  BY DEF CreateNode
<1>2. /\ SameShape(c, e) /\ lock = t /\ GoodCtx(c) /\ c.wait.why = "none" /\ SameShape(c, c)
      /\ GoodCtx(e) /\ e.wait.why = "none" /\ e.held = c.held
  BY <1>1, FetchedPast, SameAsItself DEF SameShape
<1>3. e.frames # <<>> /\ Top(e) \in GoodFrame
  BY <1>1, <1>2, PastIsGood, FetchedPast DEF Fetches
<1>4. x \in AmlName
  BY <1>1, FetchFacts DEF InstructionOK
<1>5. /\ aml \in [AmlThread -> CtxRec] /\ MutexesOK(aml, mutexes) /\ NodesOK(aml, nodes) /\ AmlTyped
      /\ mutexes \in MutexTable /\ nodes \in [AmlName -> {"none", "temporary", "permanent"}]
  BY DEF AmlIInv, AmlTyped, MutexTable
<1>6. CASE nodes[x] # "none"
  <2>1. Turned(t)
    <3>1. CASE ~table
      <4>1. Abort(t, c)
        BY <1>6, <3>1 DEF CreateNode
      <4> QED
        BY <1>2, <4>1, AbortTurned
    <3>2. CASE table
      <4>1. Turn(t, e)
        BY <1>6, <3>2 DEF CreateNode
      <4> QED
        BY <1>2, <4>1 DEF Turned
    <3> QED
      BY <3>1, <3>2
  <2> QED
    BY <1>2, <2>1, TurnedStep
<1>7. CASE nodes[x] = "none"
  <2> DEFINE g == [Top(e) EXCEPT !.temp = Append(@, x)]
             d == IF table THEN e ELSE WithTop(e, g)
             B == aml'
             p == Len(e.frames)
             new == IF table THEN "permanent" ELSE "temporary"
  <2>1. /\ nodes' = [nodes EXCEPT ![x] = new] /\ aml' = [aml EXCEPT ![t] = d]
        /\ lock' = lock /\ mutexes' = mutexes
    BY <1>7 DEF CreateNode
  <2>2. nodes' \in [AmlName -> {"none", "temporary", "permanent"}]
    BY <1>5, <2>1
  <2>3. nodes'[x] = new /\ \A n \in AmlName \ {x} : nodes'[n] = nodes[n]
    BY <1>4, <1>5, <2>1
  <2>4. /\ p \in 1 .. CallDepth /\ Top(e) = e.frames[p] /\ p = Len(c.frames)
        /\ DOMAIN e.frames = 1 .. p
    BY <1>2, <1>3, TopFacts, GoodCtxFacts DEF SameShape
  <2>5. g \in GoodFrame /\ g.method = Top(e).method /\ g.temp = Append(Top(e).temp, x)
    <3> DEFINE f == Top(e)
               s == Append(f.temp, x)
               h == [f EXCEPT !.temp = s]
    <3>1. /\ f.method \in Methods /\ f \in FrameOf(f.method) /\ Nested(f) /\ Rooted(f) /\ f.temp \in Seq(AmlName)
      BY <1>3, GoodFrameFacts
    <3>2. s \in Seq(AmlName)
      BY <1>4, <3>1, AppendProperties
    <3>3. g = h
      OBVIOUS
    <3> HIDE DEF s, f, g
    <3>4. /\ h \in FrameOf(f.method) /\ h.method = f.method /\ h.temp = s /\ h.pc = f.pc /\ h.blocks = f.blocks
      BY <3>1, <3>2 DEF FrameOf
    <3> HIDE DEF h
    <3>5. Nested(h) /\ Rooted(h)
      BY <3>1, <3>4 DEF Nested, Rooted
    <3> QED
      BY <3>1, <3>3, <3>4, <3>5, IsGoodFrame DEF s, f
  <2>6. \A n \in AmlName : n \in Range(g.temp) <=> n \in Range(Top(e).temp) \/ n = x
    <3> DEFINE f == Top(e)
               s == Append(f.temp, x)
    <3>1. f.temp \in Seq(AmlName)
      BY <1>3, GoodFrameFacts
    <3>2. /\ s \in Seq(AmlName) /\ Len(s) = Len(f.temp) + 1 /\ s[Len(f.temp) + 1] = x
          /\ \A i \in 1 .. Len(f.temp) : s[i] = f.temp[i]
      BY <1>4, <3>1, AppendProperties
    <3>3. Len(f.temp) \in Nat /\ DOMAIN f.temp = 1 .. Len(f.temp) /\ DOMAIN s = 1 .. Len(f.temp) + 1
      BY <3>1, <3>2, LenProperties
    <3> HIDE DEF s, f
    <3>4. \A i \in 1 .. Len(f.temp) + 1 : i \in 1 .. Len(f.temp) \/ i = Len(f.temp) + 1
      BY <3>3
    <3>5. Len(f.temp) + 1 \in 1 .. Len(f.temp) + 1 /\ \A i \in 1 .. Len(f.temp) : i \in 1 .. Len(f.temp) + 1
      BY <3>3
    <3>6. \A n \in AmlName : (\E i \in DOMAIN s : s[i] = n) <=> (\E i \in DOMAIN f.temp : f.temp[i] = n) \/ n = x
      BY <3>2, <3>3, <3>4, <3>5
    <3>7. \A n \in AmlName : n \in Range(s) <=> n \in Range(f.temp) \/ n = x
      BY <3>6 DEF Range
    <3> QED
      BY <2>5, <3>7 DEF s, f
  <2> HIDE DEF g
  <2>7. ASSUME ~table
        PROVE  /\ GoodCtx(WithTop(e, g)) /\ WithTop(e, g).held = e.held /\ WithTop(e, g).wait = e.wait
               /\ Len(WithTop(e, g).frames) = p
               /\ \A k \in 1 .. p : WithTop(e, g).frames[k] = IF k = p THEN g ELSE e.frames[k]
    BY <1>2, <1>3, <2>5, WithTopIsGood
  <2>8. GoodCtx(d) /\ d.held = c.held /\ d.wait = e.wait /\ d.wait.why = "none"
    BY <1>2, <2>7
  <2>9. ~d.wait.got /\ ~c.wait.got
    BY <1>2, <2>8, GoodCtxFacts
  <2>10. \A k \in 1 .. CallDepth, n \in AmlName : ListsIn(e, k, n) <=> ListsIn(c, k, n)
    BY <1>2, ShapeLists
  <2>11. ASSUME NEW k \in 1 .. CallDepth, NEW n \in AmlName
         PROVE  ListsIn(d, k, n) <=> ListsIn(c, k, n) \/ (~table /\ k = p /\ n = x)
    <3>1. CASE table
      BY <2>10, <3>1
    <3>2. CASE ~table
      <4>1. d = WithTop(e, g)
        BY <3>2
      <4> HIDE DEF d, e, x, p
      <4>2. DOMAIN d.frames = 1 .. p /\ \A i \in 1 .. p : d.frames[i] = IF i = p THEN g ELSE e.frames[i]
        BY <2>7, <3>2, <4>1, GoodCtxFacts
      <4>3. p \in 1 .. p
        BY <2>4
      <4>4. ListsIn(d, k, n) <=> ListsIn(e, k, n) \/ (k = p /\ n = x)
        <5>1. CASE k = p
          BY <2>4, <2>6, <4>2, <4>3, <5>1 DEF ListsIn
        <5>2. CASE k # p
          BY <2>4, <4>2, <5>2 DEF ListsIn
        <5> QED
          BY <5>1, <5>2
      <4> QED
        BY <2>10, <3>2, <4>4
    <3> QED
      BY <3>1, <3>2
  <2>12. AmlTyped'
    BY <1>5, <2>1, <2>2, <2>8, TypedStep DEF MutexTable
  <2>13. B[t] = d /\ (\A u \in AmlThread \ {t} : B[u] = aml[u]) /\ B = aml'
    BY <1>5, <2>1
  <2> HIDE DEF B, d
  <2>14. MutexesOK(B, mutexes)
    <3>1. \A u \in AmlThread : /\ B[u].held = aml[u].held /\ (B[u].wait.got <=> aml[u].wait.got)
                               /\ aml[u].wait.got => B[u].wait.m = aml[u].wait.m
      BY <2>8, <2>9, <2>13
    <3> QED
      BY <1>5, <3>1, MutexesSame
  <2> DEFINE O == nodes'
  <2>15. NodesOK(B, O)
    <3>1. \A u \in AmlThread, k \in 1 .. CallDepth, n \in AmlName :
             ListsIn(B[u], k, n) <=> ListsIn(aml[u], k, n) \/ (u = t /\ ~table /\ k = p /\ n = x)
      BY <2>11, <2>13
    <3>2. O[x] = new /\ (\A n \in AmlName \ {x} : O[n] = nodes[n]) /\ (table => O[x] = "permanent")
          /\ (~table => O[x] = "temporary")
      BY <2>3
    <3> HIDE DEF O, x, p
    <3>3. CASE ~table
      <4>1. \A u \in AmlThread, k \in 1 .. CallDepth, n \in AmlName :
               ListsIn(B[u], k, n) <=> ListsIn(aml[u], k, n) \/ (u = t /\ k = p /\ n = x)
        BY <3>1, <3>3
      <4>2. O[x] = "temporary" /\ \A n \in AmlName \ {x} : O[n] = nodes[n]
        BY <3>2, <3>3
      <4>3. p \in 1 .. CallDepth /\ x \in AmlName /\ NodesOK(aml, nodes) /\ nodes[x] = "none"
        BY <1>4, <1>5, <1>7, <2>4
      <4> QED
        BY ONLY t \in AmlThread, <4>1, <4>2, <4>3, NodesAdded
    <3>4. CASE table
      <4>1. \A u \in AmlThread, k \in 1 .. CallDepth, n \in AmlName : ListsIn(B[u], k, n) <=> ListsIn(aml[u], k, n)
        BY <3>1, <3>4
      <4>2. \A n \in AmlName : O[n] = "temporary" <=> nodes[n] = "temporary"
        BY <1>7, <3>2, <3>4
      <4> QED
        BY <1>5, <4>1, <4>2 DEF NodesOK
    <3> QED
      BY <3>3, <3>4
  <2> QED
    BY <2>1, <2>12, <2>13, <2>14, <2>15 DEF AmlIInv
<1> QED
  BY <1>6, <1>7

\* AcquireOp: once more by its owner, or later.
LEMMA AcquireStep == ASSUME AmlIInv, NEW t \in AmlThread, handle_mutex_acquire(t) PROVE AmlIInv'
<1> DEFINE c == Past(aml[t])
           m == Instr(Top(aml[t])).arg
<1>1. SameShape(aml[t], c) /\ lock = t /\ GoodCtx(aml[t]) /\ aml[t].wait.why = "none" /\ c.state = "run"
  BY FetchedPast DEF handle_mutex_acquire
<1>2. m \in MutexNames
  BY FetchFacts DEF handle_mutex_acquire, InstructionOK, MutexNames
<1>3. GoodCtx(c) /\ c.wait.why = "none" /\ ~c.wait.got /\ c.held = aml[t].held
  BY <1>1, GoodCtxFacts DEF SameShape
<1>4. \/ Turn(t, c)
      \/ /\ aml' = [aml EXCEPT ![t] = c] /\ mutexes' = [mutexes EXCEPT ![m].depth = @ + 1]
         /\ lock' = lock /\ nodes' = nodes
      \/ Wait(t, c, m, "acquire")
  BY DEF handle_mutex_acquire
<1>5. mutexes \in MutexTable
  BY DEF AmlIInv, AmlTyped, MutexTable
<1> HIDE DEF c, m
<1>6. CASE Turn(t, c)
  BY <1>1, <1>6, TurnedStep DEF Turned
<1>7. CASE /\ aml' = [aml EXCEPT ![t] = c] /\ mutexes' = [mutexes EXCEPT ![m].depth = @ + 1]
           /\ lock' = lock /\ nodes' = nodes
  <2>1. /\ mutexes' \in [MutexNames -> [owner : AmlThread \cup {Nobody}, depth : Nat]]
        /\ \A x \in MutexNames : mutexes'[x].owner = mutexes[x].owner
    BY <1>2, <1>5, <1>7 DEF MutexTable
  <2> QED
    BY <1>1, <1>3, <1>7, <2>1, ShapeStep
<1>8. CASE Wait(t, c, m, "acquire")
  BY <1>1, <1>2, <1>8, WaitStep DEF MayWaitFor
<1> QED
  BY <1>4, <1>6, <1>7, <1>8

\* What is listed last says at which level a thread synchronizes.
LEMMA LevelIsNat ==
    ASSUME NEW h \in Seq(MutexNames)
    PROVE  (IF h = <<>> THEN 0 ELSE SyncLevel[Last(h)]) \in Nat
<1>1. CASE h # <<>>
  <2>1. Len(h) \in 1 .. Len(h) /\ h[Len(h)] \in MutexNames
    BY <1>1, EmptySeq, LenProperties, ElementOfSeq
  <2>2. Last(h) \in MutexNames
    BY <2>1 DEF Last
  <2> QED
    BY <1>1, <2>2, AmlAssumption DEF MutexNames
<1> QED
  BY <1>1

LEMMA ReleaseShape ==
    ASSUME AmlIInv, NEW t \in AmlThread, handle_mutex_release(t)
    PROVE  /\ lock = t
           /\ \/ Turned(t)
              \/ \E d : /\ GoodCtx(d) /\ d.frames = Past(aml[t]).frames /\ d.wait = Past(aml[t]).wait
                       /\ aml' = [aml EXCEPT ![t] = d] /\ lock' = lock /\ nodes' = nodes /\ mutexes' \in MutexTable
                       /\ Instr(Top(aml[t])).arg \in MutexNames \ Serialized
                       /\ GivenBack(aml[t].held, mutexes, Instr(Top(aml[t])).arg, d.held, mutexes')
<1> DEFINE c == Past(aml[t])
           m == Instr(Top(aml[t])).arg
           s == remove_and_release([held |-> c.held, mx |-> mutexes], m, FALSE)
           l == IF s.held = <<>> THEN 0 ELSE SyncLevel[Last(s.held)]
           d == WithHeld(c, s.held, l)
<1>1. SameShape(aml[t], c) /\ lock = t /\ GoodCtx(aml[t]) /\ aml[t].wait.why = "none" /\ c.state = "run"
  BY FetchedPast DEF handle_mutex_release
<1>2. m \in MutexNames \ Serialized
  BY FetchFacts DEF handle_mutex_release, InstructionOK, MutexNames
<1>3. GoodCtx(c) /\ c.held = aml[t].held /\ c.held \in Seq(MutexNames)
  BY <1>1, GoodCtxFacts DEF SameShape
<1>4. mutexes \in MutexTable /\ IsInjective(c.held)
  BY <1>3 DEF AmlIInv, AmlTyped, MutexTable, MutexesOK
<1>5. CASE mutexes[m].owner # t
  BY <1>1, <1>5 DEF handle_mutex_release, Turned
<1>6. CASE mutexes[m].owner = t
  <2>1. aml' = [aml EXCEPT ![t] = d] /\ mutexes' = s.mx /\ lock' = lock /\ nodes' = nodes
    BY <1>6 DEF handle_mutex_release, WithHeld
  <2>2. s.held \in Seq(MutexNames) /\ s.mx \in MutexTable /\ GivenBack(c.held, mutexes, m, s.held, s.mx)
    <3> HIDE DEF c, m
    <3>1. FALSE \in BOOLEAN /\ m \in MutexNames
      BY <1>2
    <3> QED
      BY <1>3, <1>4, <3>1, ReleaseFacts
  <2> HIDE DEF s
  <2>3. l \in Nat
    BY <2>2, LevelIsNat
  <2> HIDE DEF l, c, m
  <2>4. GoodCtx(d) /\ d.held = s.held /\ d.frames = c.frames /\ d.wait = c.wait
    BY <1>1, <1>3, <2>2, <2>3, HeldIsGood
  <2> HIDE DEF d
  <2>5. GoodCtx(d) /\ d.frames = c.frames /\ d.wait = c.wait
        /\ aml' = [aml EXCEPT ![t] = d] /\ lock' = lock /\ nodes' = nodes /\ mutexes' \in MutexTable
        /\ m \in MutexNames \ Serialized /\ GivenBack(aml[t].held, mutexes, m, d.held, mutexes')
    BY <1>2, <1>3, <2>1, <2>2, <2>4
  <2> QED
    BY <1>1, <2>5 DEF c, m
<1> QED
  BY <1>5, <1>6

LEMMA ReleaseStep == ASSUME AmlIInv, NEW t \in AmlThread, handle_mutex_release(t) PROVE AmlIInv'
<1>1. SameShape(aml[t], Past(aml[t])) /\ lock = t
  BY FetchedPast DEF handle_mutex_release
<1>2. CASE Turned(t)
  BY <1>1, <1>2, TurnedStep
<1>3. CASE ~Turned(t)
  <2> DEFINE c == Past(aml[t])
             m == Instr(Top(aml[t])).arg
  <2>1. PICK d : /\ GoodCtx(d) /\ d.frames = c.frames /\ d.wait = c.wait
                 /\ aml' = [aml EXCEPT ![t] = d] /\ lock' = lock /\ nodes' = nodes /\ mutexes' \in MutexTable
                 /\ m \in MutexNames \ Serialized /\ GivenBack(aml[t].held, mutexes, m, d.held, mutexes')
    BY <1>3, ReleaseShape
  <2> HIDE DEF c, m
  <2>2. SameShape(aml[t], c) /\ m \in MutexNames
    BY <1>1, <2>1 DEF c
  <2> QED
    BY <1>1, <2>1, <2>2, GivesStep
<1> QED
  BY <1>2, <1>3

\* The clock: every frame keeps its method and its nodes.
AgedCtx(c) == [c EXCEPT !.frames = [k \in DOMAIN c.frames |-> Aged(c.frames[k])]]

LEMMA AgedCtxIsGood ==
    ASSUME NEW c, GoodCtx(c)
    PROVE  LET d == AgedCtx(c)
           IN  /\ GoodCtx(d) /\ d.held = c.held /\ d.wait = c.wait /\ d.state = c.state
               /\ Len(d.frames) = Len(c.frames) /\ DOMAIN d.frames = DOMAIN c.frames
               /\ \A k \in 1 .. Len(c.frames) : /\ d.frames[k].method = c.frames[k].method
                                                /\ d.frames[k].temp = c.frames[k].temp
<1> DEFINE s == [k \in DOMAIN c.frames |-> Aged(c.frames[k])]
           d == [c EXCEPT !.frames = s]
           n == Len(c.frames)
<1>1. /\ c \in CtxRec /\ n \in Nat /\ DOMAIN c.frames = 1 .. n /\ n <= CallDepth
      /\ \A k \in 1 .. n : c.frames[k] \in GoodFrame
  <2>1. /\ c \in CtxRec /\ n \in 0 .. CallDepth /\ DOMAIN c.frames = 1 .. n
        /\ \A k \in 1 .. n : c.frames[k] \in GoodFrame
    BY GoodCtxFacts
  <2>2. CallDepth \in Nat
    BY AmlAssumption
  <2> HIDE DEF n
  <2> QED
    BY <2>1, <2>2
<1>2. \A k \in 1 .. n : /\ Aged(c.frames[k]) \in GoodFrame /\ Aged(c.frames[k]).method = c.frames[k].method
                        /\ Aged(c.frames[k]).temp = c.frames[k].temp
  BY <1>1, AgedIsGood
<1>3. s \in [1 .. n -> GoodFrame]
  BY <1>1, <1>2
<1>4. s \in Seq(GoodFrame) /\ Len(s) = n /\ DOMAIN s = 1 .. n
  BY <1>1, <1>3
<1>5. n = 0 => s = <<>>
  BY <1>4, EmptySeq
<1>6. c.frames = <<>> => n = 0
  OBVIOUS
<1>7. \A k \in 1 .. n : s[k] = Aged(c.frames[k])
  BY <1>1
<1> HIDE DEF s, n
<1>8. /\ d \in CtxRec /\ d.frames = s /\ d.held = c.held /\ d.wait = c.wait /\ d.state = c.state
  BY <1>1, <1>4 DEF CtxRec
<1>9. AgedCtx(c) = d
  BY DEF AgedCtx, s
<1> HIDE DEF d
<1>10. GoodCtx(d)
  BY <1>1, <1>4, <1>5, <1>6, <1>8 DEF GoodCtx, n
<1> QED
  BY <1>1, <1>2, <1>4, <1>7, <1>8, <1>9, <1>10 DEF n

LEMMA TickStep == ASSUME AmlIInv, Tick PROVE AmlIInv'
<1> DEFINE B == aml'
<1>1. B = [t \in AmlThread |-> AgedCtx(aml[t])] /\ lock' = lock /\ mutexes' = mutexes /\ nodes' = nodes
  BY DEF Tick, AgedCtx
<1>2. \A t \in AmlThread : B[t] = AgedCtx(aml[t]) /\ GoodCtx(aml[t])
  BY <1>1, LockedFacts
<1>3. DOMAIN B = AmlThread /\ B = [t \in AmlThread |-> B[t]]
  BY <1>1
<1> HIDE DEF B
<1>4. ASSUME NEW t \in AmlThread
      PROVE  /\ GoodCtx(B[t]) /\ B[t] \in CtxRec
             /\ B[t].held = aml[t].held /\ B[t].wait = aml[t].wait /\ DOMAIN B[t].frames = DOMAIN aml[t].frames
             /\ \A k \in DOMAIN aml[t].frames : B[t].frames[k].temp = aml[t].frames[k].temp
  <2> DEFINE c == aml[t]
             d == B[t]
  <2>1. GoodCtx(c) /\ d = AgedCtx(c)
    BY <1>2
  <2> HIDE DEF c, d
  <2>2. /\ GoodCtx(d) /\ d.held = c.held /\ d.wait = c.wait /\ DOMAIN d.frames = DOMAIN c.frames
        /\ \A k \in 1 .. Len(c.frames) : d.frames[k].temp = c.frames[k].temp
    BY <2>1, AgedCtxIsGood
  <2>3. DOMAIN c.frames = 1 .. Len(c.frames) /\ d \in CtxRec
    BY <2>1, <2>2, GoodCtxFacts
  <2> QED
    BY <2>2, <2>3 DEF c, d
<1>5. B \in [AmlThread -> CtxRec]
  BY <1>3, <1>4
<1>6. MutexesOK(B, mutexes)
  BY <1>4, MutexesSame DEF AmlIInv
<1>7. \A u \in AmlThread, k \in 1 .. CallDepth, n \in AmlName : ListsIn(B[u], k, n) <=> ListsIn(aml[u], k, n)
  BY <1>4 DEF ListsIn
<1>8. NodesOK(B, nodes)
  BY <1>7, NodesSame DEF AmlIInv
<1>9. \A t \in AmlThread : lock = t => B[t].wait.why = "none"
  BY <1>4 DEF AmlIInv, AmlTyped
<1> QED
  BY <1>1, <1>4, <1>5, <1>6, <1>8, <1>9 DEF AmlIInv, AmlTyped, B

LEMMA AmlStarts == AmlInit => AmlIInv
<1> SUFFICES ASSUME AmlInit PROVE AmlIInv
  OBVIOUS
<1>1. "idle" \in States /\ "idle" # "start"
  BY DEF States
<1>2. /\ GoodCtx(Ctx("idle")) /\ Ctx("idle").frames = <<>> /\ Ctx("idle").held = <<>>
      /\ Ctx("idle").wait.why = "none" /\ ~Ctx("idle").wait.got
  BY <1>1, CtxIsGood
<1> DEFINE c == Ctx("idle")
<1>3. \A t \in AmlThread : aml[t] = c
  BY DEF AmlInit
<1>4. aml \in [AmlThread -> CtxRec]
  BY <1>2, GoodCtxFacts DEF AmlInit
<1>5. /\ lock = Nobody /\ mutexes = [m \in MutexNames |-> [owner |-> Nobody, depth |-> 0]]
      /\ nodes = [n \in AmlName |-> "none"]
  BY DEF AmlInit, MutexNames
<1>6. mutexes \in MutexTable /\ \A m \in MutexNames : mutexes[m].owner = Nobody
  BY <1>5 DEF MutexTable
<1>7. Nobody \notin AmlThread
  BY AmlAssumption
<1>8. AmlTyped
  BY <1>2, <1>3, <1>4, <1>5, <1>6 DEF AmlTyped, MutexTable
<1>9. DOMAIN c.held = {} /\ DOMAIN c.frames = {} /\ ~c.wait.got
  BY <1>2
<1> HIDE DEF c
<1>10. MutexesOK(aml, mutexes)
  <2>1. \A m : ~Owns(c, m)
    BY <1>9 DEF Owns
  <2>2. IsInjective(c.held)
    BY <1>9 DEF IsInjective
  <2> QED
    BY <1>3, <1>6, <1>7, <1>9, <2>1, <2>2 DEF MutexesOK
<1>11. NodesOK(aml, nodes)
  <2>1. \A k, n : ~ListsIn(c, k, n)
    BY <1>9 DEF ListsIn
  <2> QED
    BY <1>3, <1>5, <2>1 DEF NodesOK
<1> QED
  BY <1>8, <1>10, <1>11 DEF AmlIInv

LEMMA AmlThreadStep == ASSUME AmlIInv, NEW t \in AmlThread, Step(t) \/ TimesOut(t) PROVE AmlIInv'
<1>1. CASE \E m \in AmlEntry[t] : Evaluate(t, m)
  BY <1>1, EvaluateStep
<1>2. CASE PrepareFirst(t)
  BY <1>2, PrepareFirstStep
<1>3. CASE GetsMutex(t)
  BY <1>3, GetsMutexStep
<1>4. CASE Resumes(t)
  BY <1>4, ResumesStep
<1>5. CASE ctx_reload_post_ret(t) \/ stack_unwind(t)
  BY <1>5, LeaveStep
<1>6. CASE execution_context_release(t)
  BY <1>6, ContextReleaseStep
<1>7. CASE Finish(t)
  BY <1>7, FinishStep
<1>8. CASE \/ maybe_end_block(t) \/ Else(t) \/ handle_return(t) \/ LoadDenied(t) \/ Fails(t)
           \/ \E holds \in BOOLEAN : If(t, holds) \/ While(t, holds)
           \/ \E op \in {"break", "continue"} : handle_control_flow(t, op)
  BY <1>8, PlainTurns, TurnedStep
<1>9. CASE Call(t)
  BY <1>9, CallStep
<1>10. CASE Sleep(t)
  BY <1>10, SleepStep
<1>11. CASE CreateNode(t)
  BY <1>11, CreateNodeStep
<1>12. CASE handle_mutex_acquire(t)
  BY <1>12, AcquireStep
<1>13. CASE handle_mutex_release(t)
  BY <1>13, ReleaseStep
<1>14. CASE TimesOut(t)
  BY <1>14, TimesOutStep
<1> QED
  BY <1>1, <1>2, <1>3, <1>4, <1>5, <1>6, <1>7, <1>8, <1>9, <1>10, <1>11, <1>12, <1>13, <1>14 DEF Step

LEMMA AmlStep == AmlIInv /\ [AmlNext]_amlVars => AmlIInv'
<1> SUFFICES ASSUME AmlIInv, [AmlNext]_amlVars PROVE AmlIInv'
  OBVIOUS
<1>1. CASE Tick
  BY <1>1, TickStep
<1>2. CASE \E t \in AmlThread : Step(t) \/ TimesOut(t)
  BY <1>2, AmlThreadStep
<1>3. CASE UNCHANGED amlVars
  BY <1>3 DEF amlVars, AmlIInv, AmlTyped
<1> QED
  BY <1>1, <1>2, <1>3 DEF AmlNext

LEMMA AmlIsComplete == AmlIInv => UnwindingIsComplete
<1> SUFFICES ASSUME AmlIInv PROVE UnwindingIsComplete
  OBVIOUS
<1>1. \A t \in AmlThread : GoodCtx(aml[t])
  BY LockedFacts
<1>2. AmlTypeOK
  <2>1. ASSUME NEW t \in AmlThread, NEW k \in DOMAIN aml[t].frames
        PROVE  LET f == aml[t].frames[k] IN f.pc \in 0 .. Size(f.method) /\ Len(f.blocks) <= Size(f.method) + 1
    <3>1. aml[t].frames[k] \in GoodFrame
      BY <1>1, GoodCtxFacts
    <3> QED
      BY <3>1, GoodFrameFacts
  <2>2. \A t \in AmlThread : aml[t].state \in States /\ Len(aml[t].frames) <= CallDepth
    BY <1>1, GoodCtxFacts DEF GoodCtx
  <2> QED
    BY <2>1, <2>2 DEF AmlTypeOK, AmlIInv, AmlTyped, States
<1>3. MutexesAreListed
  <2>1. DOMAIN mutexes = MutexNames
    BY DEF AmlIInv, AmlTyped
  <2>2. \A t \in AmlThread : aml[t].state \in {"idle", "done"} => aml[t].held = <<>>
    BY <1>1 DEF GoodCtx
  <2> QED
    BY <2>1, <2>2 DEF MutexesAreListed, AmlIInv, MutexesOK, Owns
<1>4. NodesAreListed
  BY DEF AmlIInv, NodesOK, ListsIn, NodesAreListed, Lists
<1> QED
  BY <1>2, <1>3, <1>4 DEF UnwindingIsComplete

\* However a method is left - by its end, by Return, by an error in it or in what it called,
\* with mutexes taken at any depth and in any order - a thread owns exactly the mutexes its
\* context lists, each listed once, every temporary node is listed by exactly one frame, and
\* a thread that has finished owns nothing.
THEOREM UnwindingWorks == AmlInit /\ [][AmlNext]_amlVars => []UnwindingIsComplete
  BY AmlStarts, AmlStep, AmlIsComplete, PTL

(***************************************************************************)
(* Serialized methods.                                                     *)
(***************************************************************************)

\* The methods on the stack of a context follow each other in R, and so would the one that
\* is waited for.
Ordered(c, R) ==
    /\ \A i, k \in 1 .. Len(c.frames) : i < k => <<c.frames[i].method, c.frames[k].method>> \in R
    /\ c.wait.why = "enter" => \A i \in 1 .. Len(c.frames) : <<c.frames[i].method, c.wait.m>> \in R

\* Thread t owns the mutexes of the serialized methods on its stack.
FramesOwned(c, M, t) ==
    \A k \in 1 .. Len(c.frames) : c.frames[k].method \in Serialized => M[c.frames[k].method].owner = t

SerialOK(A, M, R) == \A t \in AmlThread : Ordered(A[t], R) /\ FramesOwned(A[t], M, t)

SameMethods(c, d) ==
    /\ Len(d.frames) = Len(c.frames)
    /\ \A k \in 1 .. Len(c.frames) : d.frames[k].method = c.frames[k].method

\* No owner of a serialized method's mutex but t loses it.
OthersKeep(M, Q, t) ==
    \A m \in Serialized, u \in AmlThread \ {t} : M[m].owner = u => Q[m].owner = u

LEMMA SerialChanged ==
    ASSUME NEW A, NEW B, NEW M, NEW Q, NEW R, NEW t \in AmlThread, SerialOK(A, M, R),
           Ordered(B[t], R), FramesOwned(B[t], Q, t), OthersKeep(M, Q, t),
           \A u \in AmlThread \ {t} : B[u] = A[u]
    PROVE  SerialOK(B, Q, R)
<1>1. ASSUME NEW u \in AmlThread, u # t PROVE Ordered(B[u], R) /\ FramesOwned(B[u], Q, u)
  BY <1>1 DEF SerialOK, FramesOwned, OthersKeep
<1> QED
  BY <1>1 DEF SerialOK

\* A step of t that keeps its stack of methods and the owners of their mutexes.
LEMMA SerialKept ==
    ASSUME AmlIInv, NEW t \in AmlThread, NEW R, SerialOK(aml, mutexes, R), NEW d,
           aml' = [aml EXCEPT ![t] = d], SameMethods(aml[t], d),
           d.wait.why = "enter" => aml[t].wait.why = "enter" /\ d.wait.m = aml[t].wait.m,
           \A m \in Serialized, u \in AmlThread : mutexes[m].owner = u => mutexes'[m].owner = u
    PROVE  SerialOK(aml, mutexes, R)'
<1> DEFINE B == aml'
           Q == mutexes'
           c == aml[t]
<1>1. B[t] = d /\ \A u \in AmlThread \ {t} : B[u] = aml[u]
  BY DEF AmlIInv, AmlTyped
<1>2. Ordered(c, R) /\ FramesOwned(c, mutexes, t)
  BY DEF SerialOK
<1>3. \A m \in Serialized, u \in AmlThread : mutexes[m].owner = u => Q[m].owner = u
  OBVIOUS
<1>4. /\ SameMethods(c, d)
      /\ d.wait.why = "enter" => c.wait.why = "enter" /\ d.wait.m = c.wait.m
  OBVIOUS
<1> HIDE DEF B, Q, c
<1>5. Ordered(d, R)
  BY <1>2, <1>4 DEF Ordered, SameMethods
<1>6. FramesOwned(d, Q, t)
  BY <1>2, <1>3, <1>4 DEF FramesOwned, SameMethods
<1>7. OthersKeep(mutexes, Q, t)
  BY <1>3 DEF OthersKeep
<1>8. SerialOK(B, Q, R)
  BY <1>1, <1>5, <1>6, <1>7, SerialChanged
<1> QED
  BY <1>8 DEF B, Q

LEMMA SerialShape ==
    ASSUME AmlIInv, NEW t \in AmlThread, NEW R, SerialOK(aml, mutexes, R), NEW c, SameShape(aml[t], c), NEW d,
           d.frames = c.frames, d.wait.why # "enter", aml' = [aml EXCEPT ![t] = d],
           \A m \in Serialized, u \in AmlThread : mutexes[m].owner = u => mutexes'[m].owner = u
    PROVE  SerialOK(aml, mutexes, R)'
<1>1. SameMethods(aml[t], d)
  BY DEF SameShape, SameMethods
<1> QED
  BY <1>1, SerialKept

LEMMA SerialTurned ==
    ASSUME AmlIInv, NEW t \in AmlThread, NEW R, SerialOK(aml, mutexes, R), Turned(t)
    PROVE  SerialOK(aml, mutexes, R)'
<1>1. PICK d : SameShape(aml[t], d) /\ aml' = [aml EXCEPT ![t] = d] /\ mutexes' = mutexes
  BY DEF Turned, Turn
<1>2. d.wait.why # "enter"
  BY <1>1 DEF SameShape
<1> QED
  BY <1>1, <1>2, SerialShape

LEMMA SerialWait ==
    ASSUME AmlIInv, NEW t \in AmlThread, NEW R, SerialOK(aml, mutexes, R), NEW c, SameShape(aml[t], c),
           NEW m, NEW why \in {"acquire", "sleep"}, Wait(t, c, m, why)
    PROVE  SerialOK(aml, mutexes, R)'
<1> DEFINE d == [c EXCEPT !.wait = [m |-> m, why |-> why, got |-> FALSE]]
<1>1. c \in CtxRec
  BY GoodCtxFacts DEF SameShape
<1>2. d.frames = c.frames /\ d.wait.why # "enter"
  BY <1>1 DEF CtxRec
<1>3. aml' = [aml EXCEPT ![t] = d] /\ mutexes' = mutexes
  BY DEF Wait
<1> HIDE DEF d
<1> QED
  BY <1>2, <1>3, SerialShape

\* A method that follows all of the stack is entered, with its mutex.
LEMMA SerialEntered ==
    ASSUME AmlIInv, NEW t \in AmlThread, NEW R, SerialOK(aml, mutexes, R), NEW m, NEW d,
           aml' = [aml EXCEPT ![t] = d], mutexes' = mutexes, d.wait.why = "none", GoodCtx(d),
           Len(aml[t].frames) \in Nat, Len(d.frames) = Len(aml[t].frames) + 1,
           \A k \in 1 .. Len(aml[t].frames) : d.frames[k].method = aml[t].frames[k].method,
           d.frames[Len(aml[t].frames) + 1].method = m,
           \A k \in 1 .. Len(aml[t].frames) : <<aml[t].frames[k].method, m>> \in R,
           m \in Serialized => mutexes[m].owner = t
    PROVE  SerialOK(aml, mutexes, R)'
<1> DEFINE B == aml'
           c == aml[t]
           n == Len(c.frames)
<1>1. B[t] = d /\ \A u \in AmlThread \ {t} : B[u] = aml[u]
  BY DEF AmlIInv, AmlTyped
<1>2. Ordered(c, R) /\ FramesOwned(c, mutexes, t)
  BY DEF SerialOK
<1>3. /\ n \in Nat /\ Len(d.frames) = n + 1 /\ d.frames[n + 1].method = m /\ d.wait.why # "enter"
      /\ \A k \in 1 .. n : d.frames[k].method = c.frames[k].method /\ <<c.frames[k].method, m>> \in R
  OBVIOUS
<1> HIDE DEF B, c, n
<1>4. \A k \in 1 .. n + 1 : k \in 1 .. n \/ k = n + 1
  BY <1>3
<1>5. Ordered(d, R)
  <2>1. ASSUME NEW i \in 1 .. n + 1, NEW k \in 1 .. n + 1, i < k
        PROVE  <<d.frames[i].method, d.frames[k].method>> \in R
    <3>1. i \in 1 .. n
      BY <1>3, <2>1
    <3>2. CASE k \in 1 .. n
      BY <1>2, <1>3, <2>1, <3>1, <3>2 DEF Ordered, n
    <3>3. CASE k = n + 1
      BY <1>3, <3>1, <3>3
    <3> QED
      BY <1>4, <3>2, <3>3
  <2> QED
    BY <1>3, <2>1 DEF Ordered
<1>6. FramesOwned(d, mutexes, t)
  BY <1>2, <1>3, <1>4 DEF FramesOwned, n
<1>7. OthersKeep(mutexes, mutexes, t)
  BY DEF OthersKeep
<1>8. SerialOK(B, mutexes, R)
  BY <1>1, <1>5, <1>6, <1>7, SerialChanged
<1> QED
  BY <1>8 DEF B

LEMMA SerialInvoke ==
    ASSUME AmlIInv, NEW t \in AmlThread, NEW R, SerialOK(aml, mutexes, R), lock = t, NEW c,
           SameShape(aml[t], c), c.state = "run", NEW m \in Methods, Invoke(t, c, m),
           \A k \in 1 .. Len(aml[t].frames) : <<aml[t].frames[k].method, m>> \in R
    PROVE  SerialOK(aml, mutexes, R)'
<1>1. /\ GoodCtx(c) /\ c.wait.why = "none" /\ c \in CtxRec /\ GoodCtx(aml[t])
      /\ Len(c.frames) = Len(aml[t].frames) /\ Len(aml[t].frames) \in Nat
      /\ \A k \in 1 .. Len(aml[t].frames) : c.frames[k].method = aml[t].frames[k].method
  <2>1. GoodCtx(c) /\ GoodCtx(aml[t])
    BY LockedFacts DEF SameShape
  <2> QED
    BY <2>1, GoodCtxFacts, FramesAreCounted DEF SameShape
<1>2. CASE Abort(t, c)
  BY <1>2, AbortTurned, SerialTurned
<1>3. CASE /\ Len(c.frames) < CallDepth
           /\ m \in Serialized => mutexes[m].owner = t
           /\ Turn(t, EnteredFrame(c, m))
  <2> DEFINE d == EnteredFrame(c, m)
  <2>1. /\ GoodCtx(d) /\ d.wait = c.wait /\ Len(d.frames) = Len(c.frames) + 1
        /\ \A k \in 1 .. Len(c.frames) : d.frames[k] = c.frames[k]
        /\ d.frames[Len(c.frames) + 1].method = m
    BY <1>1, <1>3, EnteredIsGood
  <2>2. aml' = [aml EXCEPT ![t] = d] /\ mutexes' = mutexes
    BY <1>3 DEF Turn
  <2> HIDE DEF d
  <2>3. /\ d.wait.why = "none" /\ Len(d.frames) = Len(aml[t].frames) + 1
        /\ \A k \in 1 .. Len(aml[t].frames) : d.frames[k].method = aml[t].frames[k].method
        /\ d.frames[Len(aml[t].frames) + 1].method = m
    BY <1>1, <2>1
  <2> QED
    BY <1>1, <1>3, <2>1, <2>2, <2>3, SerialEntered
<1>4. CASE m \in Serialized /\ Wait(t, c, m, "enter")
  <2> DEFINE d == [c EXCEPT !.wait = [m |-> m, why |-> "enter", got |-> FALSE]]
             B == aml'
  <2>1. d.frames = c.frames /\ d.wait.m = m
    BY <1>1 DEF CtxRec
  <2>2. B = [aml EXCEPT ![t] = d] /\ mutexes' = mutexes
    BY <1>4 DEF Wait
  <2>3. B[t] = d /\ \A u \in AmlThread \ {t} : B[u] = aml[u]
    BY <2>2 DEF AmlIInv, AmlTyped
  <2>4. Ordered(aml[t], R) /\ FramesOwned(aml[t], mutexes, t)
    BY DEF SerialOK
  <2> HIDE DEF d, B
  <2>5. Ordered(d, R)
    BY <1>1, <2>1, <2>4 DEF Ordered
  <2>6. FramesOwned(d, mutexes, t)
    BY <1>1, <2>1, <2>4 DEF FramesOwned
  <2>7. OthersKeep(mutexes, mutexes, t)
    BY DEF OthersKeep
  <2>8. SerialOK(B, mutexes, R)
    BY <2>3, <2>5, <2>6, <2>7, SerialChanged
  <2> QED
    BY <2>2, <2>8 DEF B
<1> QED
  BY <1>2, <1>3, <1>4 DEF Invoke, Turn

\* The methods on the stack of t follow each other, and so does what the top one calls.
LEMMA CallFollows ==
    ASSUME AmlIInv, NEW t \in AmlThread, NEW R, IsCallOrder(R), SerialOK(aml, mutexes, R), Call(t)
    PROVE  \A k \in 1 .. Len(aml[t].frames) : <<aml[t].frames[k].method, Instr(Top(aml[t])).arg>> \in R
<1> DEFINE c == aml[t]
           n == Len(c.frames)
           f == Top(c)
           m == Instr(f).arg
<1>1. PICK op \in {"call", "load"} : Fetches(t, op)
  BY DEF Call
<1>2. Runs(t) /\ InCode(f) /\ f.pc + 1 \in 1 .. Size(f.method) /\ Instr(f).op = op /\ m \in Methods
  BY <1>1, FetchFacts, CallShape
<1>3. /\ GoodCtx(c) /\ f \in GoodFrame /\ n \in Nat /\ n \in 1 .. n /\ f = c.frames[n]
      /\ f.method \in Methods /\ \A k \in 1 .. n : c.frames[k] \in GoodFrame
  <2>1. GoodCtx(c) /\ f \in GoodFrame /\ c.frames # <<>>
    BY <1>2, RunsFacts
  <2>2. n \in 1 .. CallDepth /\ f = c.frames[n] /\ n \in Nat /\ \A k \in 1 .. n : c.frames[k] \in GoodFrame
    BY <2>1, TopFacts, GoodCtxFacts, FramesAreCounted
  <2>3. f.method \in Methods
    BY <2>1, GoodFrameFacts
  <2>4. n \in 1 .. n
    BY <2>2
  <2> QED
    BY <2>1, <2>2, <2>3, <2>4
<1>4. <<f.method, m>> \in R
  BY <1>1, <1>2, <1>3 DEF IsCallOrder, Instr, Methods
<1>5. ASSUME NEW k \in 1 .. n PROVE <<c.frames[k].method, m>> \in R
  <2>1. CASE k = n
    BY <1>3, <1>4, <2>1
  <2>2. CASE k # n
    <3>1. k < n
      BY <1>3, <2>2
    <3>2. <<c.frames[k].method, f.method>> \in R
      BY <1>3, <3>1 DEF SerialOK, Ordered
    <3>3. c.frames[k].method \in Methods
      BY <1>3, GoodFrameFacts
    <3> QED
      BY <1>2, <1>3, <1>4, <3>2, <3>3 DEF IsCallOrder, Methods
  <2> QED
    BY <2>1, <2>2
<1> QED
  BY <1>5

LEMMA SerialCalls ==
    ASSUME AmlIInv, NEW t \in AmlThread, NEW R, IsCallOrder(R), SerialOK(aml, mutexes, R),
           PrepareFirst(t) \/ Call(t)
    PROVE  SerialOK(aml, mutexes, R)'
<1>1. CASE Call(t)
  BY <1>1, CallShape, CallFollows, SerialInvoke
<1>2. CASE PrepareFirst(t)
  <2>1. /\ SameShape(aml[t], Ctx("run")) /\ Ctx("run").state = "run" /\ aml[t].wait.m \in Methods
        /\ lock = t /\ Invoke(t, Ctx("run"), aml[t].wait.m)
    BY <1>2, FirstShape
  <2>2. aml[t].frames = <<>>
    BY <1>2, LockedFacts DEF PrepareFirst, GoodCtx
  <2> QED
    BY <2>1, <2>2, SerialInvoke
<1> QED
  BY <1>1, <1>2

LEMMA SerialEnds ==
    ASSUME AmlIInv, NEW t \in AmlThread, NEW R, SerialOK(aml, mutexes, R),
           (\E m \in AmlEntry[t] : Evaluate(t, m)) \/ Finish(t)
    PROVE  SerialOK(aml, mutexes, R)'
<1>1. PICK d : aml' = [aml EXCEPT ![t] = d] /\ mutexes' = mutexes /\ d.frames = <<>> /\ d.wait.why = "none"
  <2>1. CASE Finish(t)
    <3> DEFINE d == Ctx("done")
    <3>1. d.frames = <<>> /\ d.wait.why = "none"
      BY DEF Ctx, NoWait
    <3>2. aml' = [aml EXCEPT ![t] = d] /\ mutexes' = mutexes
      BY <2>1 DEF Finish
    <3> HIDE DEF d
    <3> QED
      BY <3>1, <3>2
  <2>2. CASE \E m \in AmlEntry[t] : Evaluate(t, m)
    <3>1. PICK m \in AmlEntry[t] : Evaluate(t, m)
      BY <2>2
    <3> DEFINE d == [Ctx("start") EXCEPT !.wait.m = m]
    <3>2. d.frames = <<>> /\ d.wait.why = "none"
      BY DEF Ctx, NoWait
    <3>3. aml' = [aml EXCEPT ![t] = d] /\ mutexes' = mutexes
      BY <3>1 DEF Evaluate
    <3> HIDE DEF d
    <3> QED
      BY <3>2, <3>3
  <2> QED
    BY <2>1, <2>2
<1>2. aml[t].frames = <<>>
  BY LockedFacts DEF Finish, Leaves, Evaluate, GoodCtx
<1>3. SameMethods(aml[t], d)
  BY <1>1, <1>2 DEF SameMethods
<1> QED
  BY <1>1, <1>3, SerialKept

LEMMA SerialWaits ==
    ASSUME AmlIInv, NEW t \in AmlThread, NEW R, SerialOK(aml, mutexes, R), GetsMutex(t) \/ TimesOut(t)
    PROVE  SerialOK(aml, mutexes, R)'
<1> DEFINE c == aml[t]
<1>1. /\ GoodCtx(c) /\ c \in CtxRec /\ c.wait \in WaitRec /\ aml \in [AmlThread -> CtxRec]
      /\ mutexes \in MutexTable
  BY LockedFacts, GoodCtxFacts DEF AmlIInv, AmlTyped, MutexTable
<1>2. CASE GetsMutex(t)
  <2> DEFINE d == [c EXCEPT !.wait = [c.wait EXCEPT !.got = TRUE]]
             m == c.wait.m
  <2>1. /\ c.wait.why \in {"enter", "acquire"} /\ aml' = [aml EXCEPT ![t].wait.got = TRUE]
        /\ mutexes' = [mutexes EXCEPT ![m] = [owner |-> t, depth |-> 1]] /\ mutexes[m].owner = Nobody
    BY <1>2 DEF GetsMutex
  <2>2. aml' = [aml EXCEPT ![t] = d] /\ d.frames = c.frames /\ d.wait.why = c.wait.why /\ d.wait.m = c.wait.m
    BY <1>1, <2>1 DEF CtxRec, WaitRec
  <2>3. SameMethods(c, d)
    BY <2>2 DEF SameMethods
  <2> HIDE DEF d, m
  <2>4. \A x \in Serialized : x # m => mutexes'[x] = mutexes[x]
    BY <1>1, <2>1, SerializedNames DEF MutexTable
  <2>5. \A x \in Serialized, u \in AmlThread : mutexes[x].owner = u => mutexes'[x].owner = u
    BY <2>1, <2>4, AmlAssumption
  <2> QED
    BY <2>2, <2>3, <2>5, SerialKept
<1>3. CASE TimesOut(t)
  <2> DEFINE d == [c EXCEPT !.wait = [c.wait EXCEPT !.why = "sleep"]]
  <2>1. aml' = [aml EXCEPT ![t].wait.why = "sleep"] /\ mutexes' = mutexes
    BY <1>3 DEF TimesOut
  <2>2. aml' = [aml EXCEPT ![t] = d] /\ d.frames = c.frames /\ d.wait.why = "sleep"
    BY <1>1, <2>1 DEF CtxRec, WaitRec
  <2>3. SameMethods(c, d)
    BY <2>2 DEF SameMethods
  <2> HIDE DEF d
  <2> QED
    BY <2>1, <2>2, <2>3, SerialKept
<1> QED
  BY <1>2, <1>3

LEMMA SerialResumes ==
    ASSUME AmlIInv, NEW t \in AmlThread, NEW R, SerialOK(aml, mutexes, R), Resumes(t)
    PROVE  SerialOK(aml, mutexes, R)'
<1> DEFINE c == aml[t]
<1>1. mutexes' = mutexes
  BY DEF Resumes
<1>2. PICK d : /\ GoodCtx(d) /\ aml' = [aml EXCEPT ![t] = d] /\ d.wait.why = "none"
               /\ \/ d.frames = c.frames
                  \/ /\ c.wait.why = "enter" /\ c.wait.got /\ c.wait.m \in MutexNames
                     /\ Len(d.frames) = Len(c.frames) + 1
                     /\ \A k \in 1 .. Len(c.frames) : d.frames[k] = c.frames[k]
                     /\ d.frames[Len(c.frames) + 1].method = c.wait.m
  <2> HIDE DEF c
  <2> QED
    BY ResumedShape DEF c
<1>3. CASE d.frames = c.frames
  <2>1. SameMethods(c, d)
    BY <1>3 DEF SameMethods
  <2> QED
    BY <1>1, <1>2, <2>1, SerialKept
<1>4. CASE d.frames # c.frames
  <2>1. mutexes[c.wait.m].owner = t
    BY <1>2, <1>4 DEF AmlIInv, MutexesOK, Owns
  <2>2. \A k \in 1 .. Len(c.frames) : <<c.frames[k].method, c.wait.m>> \in R
    BY <1>2, <1>4 DEF SerialOK, Ordered
  <2>3. Len(c.frames) \in Nat
    BY LockedFacts, FramesAreCounted
  <2>4. /\ Len(d.frames) = Len(c.frames) + 1
        /\ \A k \in 1 .. Len(c.frames) : d.frames[k].method = c.frames[k].method
        /\ d.frames[Len(c.frames) + 1].method = c.wait.m
    BY <1>2, <1>4
  <2> QED
    BY <1>1, <1>2, <2>1, <2>2, <2>3, <2>4, SerialEntered
<1> QED
  BY <1>3, <1>4

\* The frame that is left gives the mutex of its method back; no frame below it needs it.
LEMMA SerialDrop ==
    ASSUME AmlIInv, NEW t \in AmlThread, NEW R, IsCallOrder(R), SerialOK(aml, mutexes, R), lock = t, NEW c,
           SameShape(aml[t], c), c.frames # <<>>, DropFrame(t, c)
    PROVE  SerialOK(aml, mutexes, R)'
<1> DEFINE a == aml[t]
           n == Len(a.frames)
           m == a.frames[n].method
           B == aml'
           Q == mutexes'
<1>1. PICK d : /\ B = [aml EXCEPT ![t] = d] /\ d.wait.why = "none"
               /\ Len(d.frames) = n - 1 /\ n \in 1 .. CallDepth
               /\ \A k \in 1 .. n - 1 : d.frames[k].method = a.frames[k].method
               /\ Q \in MutexTable
               /\ \/ d.held = a.held /\ Q = mutexes
                  \/ m \in Serialized /\ GivenBack(a.held, mutexes, m, d.held, Q)
  BY DropShape
<1>2. B[t] = d /\ \A u \in AmlThread \ {t} : B[u] = aml[u]
  BY <1>1 DEF AmlIInv, AmlTyped
<1>3. Ordered(a, R) /\ FramesOwned(a, mutexes, t)
  BY DEF SerialOK
<1>4. n \in Nat /\ n >= 1 /\ n \in 1 .. n
  BY <1>1, LockedFacts, FramesAreCounted
<1>5. \A x \in MutexNames : Holds(a.held, x) => mutexes[x].owner = t
  BY DEF AmlIInv, MutexesOK, Owns, Holds
<1> HIDE DEF a, n, m, B, Q
<1>6. \A k \in 1 .. n - 1 : k \in 1 .. n /\ k < n
  BY <1>4
<1>7. Ordered(d, R)
  BY <1>1, <1>3, <1>6 DEF Ordered, n
<1>8. \A x \in Serialized : Q[x].owner # mutexes[x].owner => x = m /\ mutexes[x].owner = t
  BY <1>1, <1>5, SerializedNames DEF GivenBack
<1>9. ASSUME NEW k \in 1 .. n - 1, a.frames[k].method \in Serialized
      PROVE  a.frames[k].method # m
  <2>1. <<a.frames[k].method, m>> \in R
    BY <1>3, <1>4, <1>6 DEF Ordered, n, m
  <2> QED
    BY <1>9, <2>1 DEF IsCallOrder
<1>10. FramesOwned(d, Q, t)
  BY <1>1, <1>3, <1>6, <1>8, <1>9 DEF FramesOwned, n
<1>11. OthersKeep(mutexes, Q, t)
  BY <1>8 DEF OthersKeep
<1>12. SerialOK(B, Q, R)
  BY <1>2, <1>7, <1>10, <1>11, SerialChanged
<1> QED
  BY <1>12 DEF B, Q

LEMMA SerialLeaves ==
    ASSUME AmlIInv, NEW t \in AmlThread, NEW R, IsCallOrder(R), SerialOK(aml, mutexes, R),
           ctx_reload_post_ret(t) \/ stack_unwind(t)
    PROVE  SerialOK(aml, mutexes, R)'
<1>1. CASE ctx_reload_post_ret(t)
  BY <1>1, ReturnShape, SerialDrop
<1>2. CASE stack_unwind(t) /\ Turned(t)
  BY <1>2, SerialTurned
<1>3. CASE stack_unwind(t) /\ ~Turned(t)
  BY <1>3, UnwindShape, SerialDrop
<1> QED
  BY <1>1, <1>2, <1>3

LEMMA SerialReleases ==
    ASSUME AmlIInv, NEW t \in AmlThread, NEW R, SerialOK(aml, mutexes, R), handle_mutex_release(t)
    PROVE  SerialOK(aml, mutexes, R)'
<1>1. SameShape(aml[t], Past(aml[t]))
  BY FetchedPast DEF handle_mutex_release
<1>2. CASE Turned(t)
  BY <1>2, SerialTurned
<1>3. CASE ~Turned(t)
  <2> DEFINE c == Past(aml[t])
             m == Instr(Top(aml[t])).arg
  <2>1. PICK d : /\ d.frames = c.frames /\ d.wait = c.wait /\ aml' = [aml EXCEPT ![t] = d]
                 /\ m \in MutexNames \ Serialized /\ GivenBack(aml[t].held, mutexes, m, d.held, mutexes')
    BY <1>3, ReleaseShape
  <2> HIDE DEF c, m
  <2>2. SameShape(aml[t], c) /\ d.wait.why # "enter"
    BY <1>1, <2>1 DEF c, SameShape
  <2>3. \A x \in Serialized, u \in AmlThread : mutexes[x].owner = u => mutexes'[x].owner = u
    BY <2>1, SerializedNames DEF GivenBack
  <2> QED
    BY <2>1, <2>2, <2>3, SerialShape
<1> QED
  BY <1>2, <1>3

LEMMA SerialAcquires ==
    ASSUME AmlIInv, NEW t \in AmlThread, NEW R, SerialOK(aml, mutexes, R), handle_mutex_acquire(t)
    PROVE  SerialOK(aml, mutexes, R)'
<1> DEFINE c == Past(aml[t])
           m == Instr(Top(aml[t])).arg
<1>1. SameShape(aml[t], c)
  BY FetchedPast DEF handle_mutex_acquire
<1>2. m \in MutexNames /\ mutexes \in MutexTable
  BY FetchFacts DEF handle_mutex_acquire, InstructionOK, MutexNames, AmlIInv, AmlTyped, MutexTable
<1>3. \/ Turn(t, c)
      \/ aml' = [aml EXCEPT ![t] = c] /\ mutexes' = [mutexes EXCEPT ![m].depth = @ + 1]
      \/ Wait(t, c, m, "acquire")
  BY DEF handle_mutex_acquire
<1> HIDE DEF c, m
<1>4. CASE Turn(t, c)
  BY <1>1, <1>4, SerialTurned DEF Turned
<1>5. CASE aml' = [aml EXCEPT ![t] = c] /\ mutexes' = [mutexes EXCEPT ![m].depth = @ + 1]
  <2>1. \A x \in Serialized, u \in AmlThread : mutexes[x].owner = u => mutexes'[x].owner = u
    BY <1>2, <1>5, SerializedNames DEF MutexTable
  <2>2. c.wait.why # "enter"
    BY <1>1 DEF SameShape
  <2> QED
    BY <1>1, <1>5, <2>1, <2>2, SerialShape
<1>6. CASE Wait(t, c, m, "acquire")
  BY <1>1, <1>6, SerialWait
<1> QED
  BY <1>3, <1>4, <1>5, <1>6

LEMMA SerialSleeps ==
    ASSUME AmlIInv, NEW t \in AmlThread, NEW R, SerialOK(aml, mutexes, R), Sleep(t)
    PROVE  SerialOK(aml, mutexes, R)'
<1>1. Fetches(t, "sleep") /\ Wait(t, Past(aml[t]), Nobody, "sleep")
  BY DEF Sleep
<1>2. SameShape(aml[t], Past(aml[t]))
  BY <1>1, FetchedPast
<1> QED
  BY <1>1, <1>2, SerialWait

LEMMA SerialContextRelease ==
    ASSUME AmlIInv, NEW t \in AmlThread, NEW R, SerialOK(aml, mutexes, R), execution_context_release(t)
    PROVE  SerialOK(aml, mutexes, R)'
<1> DEFINE c == aml[t]
           m == Last(c.held)
           r == remove_and_release([held |-> c.held, mx |-> mutexes], m, TRUE)
           d == [c EXCEPT !.held = r.held]
           B == aml'
<1>1. lock = t /\ c.held # <<>> /\ c.frames = <<>> /\ mutexes' = r.mx /\ B = [aml EXCEPT ![t].held = r.held]
  BY DEF execution_context_release, Leaves
<1>2. /\ GoodCtx(c) /\ c.wait.why = "none" /\ c \in CtxRec /\ c.held \in Seq(MutexNames)
      /\ Len(c.held) \in Nat /\ \A k \in 1 .. Len(c.held) : c.held[k] \in MutexNames
  BY <1>1, LockedFacts, GoodCtxFacts
<1>3. m \in MutexNames /\ TRUE \in BOOLEAN
  BY <1>1, <1>2, EmptySeq DEF Last
<1>4. mutexes \in MutexTable /\ IsInjective(c.held) /\ aml \in [AmlThread -> CtxRec]
  BY DEF AmlIInv, AmlTyped, MutexTable, MutexesOK
<1>5. \A x \in MutexNames : Holds(c.held, x) => mutexes[x].owner = t
  BY DEF AmlIInv, MutexesOK, Owns, Holds
<1> HIDE DEF m
<1>6. GivenBack(c.held, mutexes, m, r.held, r.mx)
  BY <1>2, <1>3, <1>4, ReleaseFacts
<1> HIDE DEF r
<1>7. d.frames = <<>> /\ d.wait.why = "none" /\ B[t] = d /\ \A u \in AmlThread \ {t} : B[u] = aml[u]
  BY <1>1, <1>2, <1>4 DEF CtxRec
<1> HIDE DEF c, d, B
<1>8. Ordered(d, R) /\ FramesOwned(d, r.mx, t)
  <2>1. 1 .. Len(d.frames) = {}
    BY <1>7
  <2> QED
    BY <1>7, <2>1 DEF Ordered, FramesOwned
<1>9. OthersKeep(mutexes, r.mx, t)
  BY <1>5, <1>6, SerializedNames DEF GivenBack, OthersKeep
<1>10. SerialOK(B, r.mx, R)
  BY <1>7, <1>8, <1>9, SerialChanged
<1> QED
  BY <1>1, <1>10 DEF B

LEMMA SerialCreates ==
    ASSUME AmlIInv, NEW t \in AmlThread, NEW R, SerialOK(aml, mutexes, R), CreateNode(t)
    PROVE  SerialOK(aml, mutexes, R)'
<1> DEFINE c == aml[t]
           e == Past(c)
           x == Instr(Top(c)).arg
           g == [Top(e) EXCEPT !.temp = Append(@, x)]
<1>1. Fetches(t, "name")
  BY DEF CreateNode
<1>2. /\ SameShape(c, e) /\ lock = t /\ GoodCtx(c) /\ c.wait.why = "none" /\ SameShape(c, c)
      /\ GoodCtx(e) /\ e.wait.why = "none"
  BY <1>1, FetchedPast, SameAsItself DEF SameShape
<1>3. e.frames # <<>> /\ Top(e) \in GoodFrame
  BY <1>1, <1>2, PastIsGood, FetchedPast DEF Fetches
<1>4. /\ mutexes' = mutexes
      /\ \E d \in {[c EXCEPT !.unwind = 1], e, WithTop(e, g)} : aml' = [aml EXCEPT ![t] = d]
  BY DEF CreateNode, Abort, Turn
<1>5. CASE aml' = [aml EXCEPT ![t] = [c EXCEPT !.unwind = 1]]
  <2> DEFINE d == [c EXCEPT !.unwind = 1]
  <2>1. d.frames = c.frames /\ d.wait = c.wait
    BY <1>2, GoodCtxFacts DEF CtxRec
  <2>2. aml' = [aml EXCEPT ![t] = d]
    BY <1>5
  <2> HIDE DEF d
  <2> QED
    BY <1>2, <1>4, <2>1, <2>2, SerialShape
<1>6. CASE aml' = [aml EXCEPT ![t] = e]
  BY <1>2, <1>4, <1>6, SerialShape
<1>7. CASE aml' = [aml EXCEPT ![t] = WithTop(e, g)]
  <2> DEFINE d == WithTop(e, g)
             p == Len(e.frames)
  <2>1. e \in CtxRec /\ p \in Nat /\ DOMAIN e.frames = 1 .. p /\ Top(e) = e.frames[p]
    BY <1>2, <1>3, GoodCtxFacts, FramesAreCounted, TopFacts
  <2>2. g.method = Top(e).method
    <3>1. Top(e) \in FrameOf(Top(e).method)
      BY <1>3, GoodFrameFacts
    <3> QED
      BY <3>1 DEF FrameOf
  <2> HIDE DEF g
  <2>3. d.frames = [e.frames EXCEPT ![p] = g] /\ d.wait = e.wait
    BY <2>1 DEF WithTop, CtxRec
  <2>4. e.frames \in Seq(GoodFrame)
    BY <1>2, GoodCtxFacts
  <2>5. Len(d.frames) = p /\ \A k \in 1 .. p : d.frames[k].method = e.frames[k].method
    BY <2>1, <2>2, <2>3, <2>4
  <2>6. aml' = [aml EXCEPT ![t] = d]
    BY <1>7
  <2> HIDE DEF d, e
  <2>7. SameMethods(c, d) /\ d.wait.why # "enter"
    BY <1>2, <2>3, <2>5 DEF SameShape, SameMethods
  <2> QED
    BY <1>4, <2>6, <2>7, SerialKept
<1> QED
  BY <1>4, <1>5, <1>6, <1>7

LEMMA SerialTick ==
    ASSUME AmlIInv, NEW R, SerialOK(aml, mutexes, R), Tick PROVE SerialOK(aml, mutexes, R)'
<1> DEFINE B == aml'
<1>1. B = [t \in AmlThread |-> AgedCtx(aml[t])] /\ mutexes' = mutexes
  BY DEF Tick, AgedCtx
<1>2. \A t \in AmlThread : B[t] = AgedCtx(aml[t]) /\ GoodCtx(aml[t])
  BY <1>1, LockedFacts
<1> HIDE DEF B
<1>3. ASSUME NEW t \in AmlThread PROVE Ordered(B[t], R) /\ FramesOwned(B[t], mutexes, t)
  <2> DEFINE c == aml[t]
             d == B[t]
  <2>1. GoodCtx(c) /\ d = AgedCtx(c) /\ Ordered(c, R) /\ FramesOwned(c, mutexes, t)
    BY <1>2 DEF SerialOK
  <2> HIDE DEF c, d
  <2>2. /\ d.wait = c.wait /\ Len(d.frames) = Len(c.frames)
        /\ \A k \in 1 .. Len(c.frames) : d.frames[k].method = c.frames[k].method
    BY <2>1, AgedCtxIsGood
  <2>3. Ordered(d, R) /\ FramesOwned(d, mutexes, t)
    BY <2>1, <2>2 DEF Ordered, FramesOwned
  <2> QED
    BY <2>3 DEF d
<1>4. SerialOK(B, mutexes, R)
  BY <1>3 DEF SerialOK
<1> QED
  BY <1>1, <1>4 DEF B

LEMMA SerialThreadStep ==
    ASSUME AmlIInv, NEW t \in AmlThread, NEW R, IsCallOrder(R), SerialOK(aml, mutexes, R), Step(t) \/ TimesOut(t)
    PROVE  SerialOK(aml, mutexes, R)'
<1>1. CASE (\E m \in AmlEntry[t] : Evaluate(t, m)) \/ Finish(t)
  BY <1>1, SerialEnds
<1>2. CASE PrepareFirst(t) \/ Call(t)
  BY <1>2, SerialCalls
<1>3. CASE GetsMutex(t) \/ TimesOut(t)
  BY <1>3, SerialWaits
<1>4. CASE Resumes(t)
  BY <1>4, SerialResumes
<1>5. CASE ctx_reload_post_ret(t) \/ stack_unwind(t)
  BY <1>5, SerialLeaves
<1>6. CASE execution_context_release(t)
  BY <1>6, SerialContextRelease
<1>7. CASE \/ maybe_end_block(t) \/ Else(t) \/ handle_return(t) \/ LoadDenied(t) \/ Fails(t)
           \/ \E holds \in BOOLEAN : If(t, holds) \/ While(t, holds)
           \/ \E op \in {"break", "continue"} : handle_control_flow(t, op)
  BY <1>7, PlainTurns, SerialTurned
<1>8. CASE Sleep(t)
  BY <1>8, SerialSleeps
<1>9. CASE CreateNode(t)
  BY <1>9, SerialCreates
<1>10. CASE handle_mutex_acquire(t)
  BY <1>10, SerialAcquires
<1>11. CASE handle_mutex_release(t)
  BY <1>11, SerialReleases
<1> QED
  BY <1>1, <1>2, <1>3, <1>4, <1>5, <1>6, <1>7, <1>8, <1>9, <1>10, <1>11 DEF Step

\* Where no serialized method calls itself, a serialized method is run by one thread at a
\* time, also while it sleeps or waits with the namespace lock released.
THEOREM SerializedApart ==
    ASSUME NEW R, IsCallOrder(R)
    PROVE  AmlInit /\ [][AmlNext]_amlVars => []SerializedIsExclusive
<1> DEFINE Inv == AmlIInv /\ SerialOK(aml, mutexes, R)
<1>1. AmlInit => Inv
  <2> SUFFICES ASSUME AmlInit PROVE SerialOK(aml, mutexes, R)
    BY AmlStarts
  <2>1. \A t \in AmlThread : aml[t].frames = <<>> /\ aml[t].wait.why = "none"
    BY DEF AmlInit, Ctx, NoWait
  <2>2. 1 .. Len(<<>>) = {}
    OBVIOUS
  <2> QED
    BY <2>1, <2>2 DEF SerialOK, Ordered, FramesOwned
<1>2. Inv /\ [AmlNext]_amlVars => Inv'
  <2> SUFFICES ASSUME AmlIInv, SerialOK(aml, mutexes, R), [AmlNext]_amlVars PROVE SerialOK(aml, mutexes, R)'
    BY AmlStep
  <2>1. CASE Tick
    BY <2>1, SerialTick
  <2>2. CASE \E t \in AmlThread : Step(t) \/ TimesOut(t)
    BY <2>2, SerialThreadStep
  <2>3. CASE UNCHANGED amlVars
    BY <2>3 DEF amlVars
  <2> QED
    BY <2>1, <2>2, <2>3 DEF AmlNext
<1>3. Inv => SerializedIsExclusive
  <2> SUFFICES ASSUME AmlIInv, SerialOK(aml, mutexes, R) PROVE SerializedIsExclusive
    OBVIOUS
  <2>1. \A t \in AmlThread : DOMAIN aml[t].frames = 1 .. Len(aml[t].frames)
    BY LockedFacts, GoodCtxFacts
  <2>2. ASSUME NEW t \in AmlThread, NEW u \in AmlThread, t # u,
               NEW i \in DOMAIN aml[t].frames, NEW j \in DOMAIN aml[u].frames,
               aml[t].frames[i].method = aml[u].frames[j].method, aml[t].frames[i].method \in Serialized
        PROVE  FALSE
    <3>1. mutexes[aml[t].frames[i].method].owner = t
      BY <2>1, <2>2 DEF SerialOK, FramesOwned
    <3>2. mutexes[aml[u].frames[j].method].owner = u
      BY <2>1, <2>2 DEF SerialOK, FramesOwned
    <3> QED
      BY <2>2, <3>1, <3>2
  <2> QED
    BY <2>2 DEF SerializedIsExclusive
<1> QED
  BY <1>1, <1>2, <1>3, PTL
=============================================================================
