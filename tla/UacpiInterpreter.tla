-------------------------- MODULE UacpiInterpreter --------------------------
(***************************************************************************)
(* How extra/uacpi/interpreter.c runs AML: call frames, code blocks, loops *)
(* and their time limit, mutexes, serialized methods, temporary nodes,     *)
(* table loads, and the unwinding after an error.  The namespace lock is   *)
(* held while AML runs and dropped wherever a method waits.                *)
(***************************************************************************)
EXTENDS Integers, Sequences, FiniteSets, SequencesExt

CONSTANTS AmlThread,
          AmlName,      \* names AML creates objects under
          AmlCode,      \* method -> sequence of [op, arg, end]; an instruction is one unit long
          AmlEntry,     \* thread -> the methods it may evaluate
          AmlTable,     \* the methods that are tables (named_objects_persist)
          Serialized,   \* the methods that are serialized
          SyncLevel,    \* serialized method or mutex -> its level
          CallDepth,    \* max_call_stack_depth
          LoopTimeout,  \* loop_timeout_seconds, in ticks
          AmlClock      \* does uacpi_kernel_get_nanoseconds_since_boot move?

Nobody == "nobody"
Size(m) == Len(AmlCode[m])

\* AML as a compiler emits it: names are resolved to objects of the right type, which exec_op
\* checks too, and a package ends behind its own opcode and inside the method, of which
\* parse_package_length only checks that it does not wrap around.
InstructionOK(i, k, size) ==
    /\ i.op \in {"call", "load"} => i.arg \in DOMAIN AmlCode
    /\ i.op \in {"acquire", "release"} => i.arg \in DOMAIN SyncLevel \ Serialized
    /\ i.op = "name" => i.arg \in AmlName
    /\ i.op \in {"if", "else", "while"} => i.end \in k .. size

ASSUME AmlAssumption ==
    /\ Nobody \notin AmlThread
    /\ AmlTable \subseteq DOMAIN AmlCode /\ Serialized \subseteq DOMAIN AmlCode \cap DOMAIN SyncLevel
    /\ \A t \in AmlThread : AmlEntry[t] \subseteq DOMAIN AmlCode
    /\ \A m \in DOMAIN SyncLevel : SyncLevel[m] \in Nat
    /\ \A m \in DOMAIN AmlCode :
         Size(m) \in Nat /\ \A k \in 1 .. Size(m) : InstructionOK(AmlCode[m][k], k, Size(m))
    /\ CallDepth \in Nat \ {0} /\ LoopTimeout \in Nat

VARIABLES aml,    \* thread -> [state, frames, held, sync, unwind, wait]
          lock,   \* the thread that holds the namespace lock, or Nobody
          mutexes,\* mutex -> [owner, depth]
          nodes   \* name -> "none", "temporary" or "permanent"

amlVars == <<aml, lock, mutexes, nodes>>

NoWait == [m |-> Nobody, why |-> "none", got |-> FALSE]
Ctx(state) == [state |-> state, frames |-> <<>>, held |-> <<>>, sync |-> 0, unwind |-> 0,
               wait |-> NoWait]

AmlInit ==
    /\ aml = [t \in AmlThread |-> Ctx("idle")] /\ lock = Nobody
    /\ mutexes = [m \in DOMAIN SyncLevel |-> [owner |-> Nobody, depth |-> 0]]
    /\ nodes = [n \in AmlName |-> "none"]

(***************************************************************************)
(* Frames and blocks.                                                      *)
(***************************************************************************)
\* slot[i] is the age of the loop that was put last in the i-th place of the block array,
\* -1 if none was: popping a block leaves it there.  prevWhile is the place of the loop
\* whose turn ended last, or -1.
NewFrame(m, sync) ==
    [method |-> m, pc |-> 0, blocks |-> <<[type |-> "scope", begin |-> 0, end |-> Size(m)]>>,
     slot |-> [i \in 1 .. Size(m) + 1 |-> -1], prevWhile |-> -1, prevAge |-> -1,
     prevSync |-> sync, temp |-> <<>>]

Top(c) == c.frames[Len(c.frames)]
WithTop(c, f) == [c EXCEPT !.frames[Len(c.frames)] = f]
Instr(f) == AmlCode[f.method][f.pc + 1]
InCode(f) == f.pc < Size(f.method)
Block(f) == f.blocks[Len(f.blocks)]

\* frame_reset_post_end_block
EndBlockOf(f) ==
    LET g == IF Block(f).type # "while" THEN f
             ELSE [f EXCEPT !.prevWhile = Block(f).begin, !.prevAge = f.slot[Len(f.blocks)]]
    IN  [g EXCEPT !.blocks = Front(@)]

\* A slip: the expiration point is taken anew every time around.
BeginBlockAfresh(f, type, begin, end) ==
    LET n == Len(f.blocks) + 1
    IN  [f EXCEPT !.blocks = Append(@, [type |-> type, begin |-> begin, end |-> end]),
                  !.slot[n] = IF type = "while" THEN 0 ELSE @,
                  !.pc = begin + 1]

\* begin_block_execution, once a loop's time is not up.
BeginBlock(f, type, begin, end) ==
    LET n == Len(f.blocks) + 1
        age == IF begin = f.prevWhile THEN f.prevAge ELSE 0
    IN  [f EXCEPT !.blocks = Append(@, [type |-> type, begin |-> begin, end |-> end]),
                  !.slot[n] = IF type = "while" THEN age ELSE @,
                  !.pc = begin + 1]

\* The place the new block is put in is read before it is written: it holds the block of
\* the loop's last turn.
LoopIsOver(f) == f.pc = f.prevWhile /\ f.slot[Len(f.blocks) + 1] > LoopTimeout

LastWhile(f) == {k \in DOMAIN f.blocks : f.blocks[k].type = "while"}

(***************************************************************************)
(* Mutexes.  s: [held, mx] of thread t.                                    *)
(***************************************************************************)
Held(s, m) == {i \in DOMAIN s.held : s.held[i] = m}
Last_(S) == CHOOSE i \in S : \A j \in S : j <= i

uacpi_release_aml_mutex(mx, m) ==
    IF mx[m].depth > 1 THEN [mx EXCEPT ![m].depth = @ - 1]
    ELSE [mx EXCEPT ![m] = [owner |-> Nobody, depth |-> 0]]

\* A slip: a forced release gives back one level of the mutex, as a plain one does.
remove_and_release_one(s, m, force) ==
    IF \/ s.held = <<>> \/ (~force /\ SyncLevel[Last(s.held)] # SyncLevel[m]) THEN s
    ELSE IF Held(s, m) = {} THEN s
    ELSE [held |-> RemoveAt(s.held, Last_(Held(s, m))),
          mx |-> uacpi_release_aml_mutex(s.mx, m)]

\* held_mutexes_array_remove_and_release: a mutex of another level than the last one is
\* only released by force.
remove_and_release(s, m, force) ==
    IF \/ s.held = <<>> \/ (~force /\ SyncLevel[Last(s.held)] # SyncLevel[m]) THEN s
    ELSE IF ~force /\ s.mx[m].depth > 1 THEN [s EXCEPT !.mx = uacpi_release_aml_mutex(@, m)]
    ELSE IF Held(s, m) = {} THEN s
    ELSE [held |-> RemoveAt(s.held, Last_(Held(s, m))),
          mx |-> [s.mx EXCEPT ![m] = [owner |-> Nobody, depth |-> 0]]]

(***************************************************************************)
(* Calls.                                                                  *)
(***************************************************************************)

\* prepare_method_call of m by t, whose context is c.
Abort(t, c) ==
    /\ aml' = [aml EXCEPT ![t] = [c EXCEPT !.unwind = 1]]
    /\ UNCHANGED <<lock, mutexes, nodes>>

Wait(t, c, m, why) ==
    /\ aml' = [aml EXCEPT ![t] = [c EXCEPT !.wait = [m |-> m, why |-> why, got |-> FALSE]]]
    /\ lock' = Nobody /\ UNCHANGED <<mutexes, nodes>>

EnteredFrame(c, m) ==
    [c EXCEPT !.frames = Append(@, NewFrame(m, c.sync)),
              !.sync = IF m \in Serialized THEN SyncLevel[m] ELSE @]

Invoke(t, c, m) ==
    \/ /\ \/ Len(c.frames) >= CallDepth
          \/ m \in Serialized /\ c.sync > SyncLevel[m]
       /\ Abort(t, c)
    \/ /\ Len(c.frames) < CallDepth
       /\ m \in Serialized => c.sync <= SyncLevel[m] /\ mutexes[m].owner = t
       /\ aml' = [aml EXCEPT ![t] = EnteredFrame(c, m)]
       /\ UNCHANGED <<lock, mutexes, nodes>>
    \/ /\ Len(c.frames) < CallDepth
       /\ m \in Serialized /\ c.sync <= SyncLevel[m] /\ mutexes[m].owner # t
       /\ Wait(t, c, m, "enter")

\* uacpi_execute_control_method, with the namespace lock that uacpi_eval takes.
Evaluate(t, m) ==
    /\ aml[t].state = "idle" /\ lock = Nobody
    /\ aml' = [aml EXCEPT ![t] = [Ctx("start") EXCEPT !.wait.m = m]]
    /\ lock' = t /\ UNCHANGED <<mutexes, nodes>>

PrepareFirst(t) ==
    /\ aml[t].state = "start" /\ lock = t
    /\ Invoke(t, Ctx("run"), aml[t].wait.m)

(***************************************************************************)
(* Waiting for a mutex.                                                    *)
(***************************************************************************)
Waits(t) == aml[t].wait.why # "none" /\ lock # t

GetsMutex(t) ==
    LET m == aml[t].wait.m
    IN  /\ Waits(t) /\ aml[t].wait.why \in {"enter", "acquire"} /\ ~aml[t].wait.got
        /\ mutexes[m].owner = Nobody
        /\ mutexes' = [mutexes EXCEPT ![m] = [owner |-> t, depth |-> 1]]
        /\ aml' = [aml EXCEPT ![t].wait.got = TRUE]
        /\ UNCHANGED <<lock, nodes>>

\* A slip: entering a method does not look at whether its mutex was acquired.
TimesOutUnseen(t) ==
    /\ Waits(t) /\ aml[t].wait.why \in {"enter", "acquire"} /\ ~aml[t].wait.got
    /\ aml' = [aml EXCEPT ![t].wait.why = IF @ = "enter" THEN @ ELSE "sleep",
                          ![t].wait.got = aml[t].wait.why = "enter"]
    /\ UNCHANGED <<lock, mutexes, nodes>>

TimesOut(t) ==
    /\ Waits(t) /\ aml[t].wait.why = "acquire" /\ ~aml[t].wait.got
    /\ aml' = [aml EXCEPT ![t].wait.why = "sleep"]
    /\ UNCHANGED <<lock, mutexes, nodes>>

\* The namespace lock is taken again, and the operation goes on.
Resumes(t) ==
    LET c == [aml[t] EXCEPT !.wait = NoWait]
        m == aml[t].wait.m
    IN  /\ Waits(t) /\ lock = Nobody
        /\ aml[t].wait.why = "sleep" \/ aml[t].wait.got
        /\ aml' = [aml EXCEPT ![t] =
               CASE aml[t].wait.why = "sleep"   -> c
                 [] aml[t].wait.why = "acquire" -> [c EXCEPT !.held = Append(@, m), !.sync = SyncLevel[m]]
                 [] aml[t].wait.why = "enter"   -> EnteredFrame([c EXCEPT !.held = Append(@, m)], m)]
        /\ lock' = t /\ UNCHANGED <<mutexes, nodes>>

(***************************************************************************)
(* One turn of the loop of uacpi_execute_control_method.                   *)
(***************************************************************************)
Runs(t) == lock = t /\ aml[t].state = "run" /\ aml[t].unwind = 0 /\ aml[t].frames # <<>>

\* A method that is still inside a block has come to the end of that block.
AtBlockEnd(f) == f.blocks # <<>> /\ f.pc = Block(f).end

Turn(t, c) == aml' = [aml EXCEPT ![t] = c] /\ UNCHANGED <<lock, mutexes, nodes>>

maybe_end_block(t) ==
    LET f == Top(aml[t])
    IN  /\ Runs(t) /\ AtBlockEnd(f)
        /\ Turn(t, WithTop(aml[t], [EndBlockOf(f) EXCEPT !.pc = IF Block(f).type = "while"
                                                                THEN Block(f).begin ELSE @]))

\* call_frame_clear and ctx_reload_post_ret: the frame's nodes go, and the mutex of a
\* serialized method is given back.
DropFrame(t, c) ==
    LET f == Top(c)
        s == [held |-> c.held, mx |-> mutexes]
        r == IF f.method \in Serialized THEN remove_and_release(s, f.method, TRUE) ELSE s
    IN  /\ aml' = [aml EXCEPT ![t] = [c EXCEPT !.frames = Front(@), !.held = r.held,
                                     !.sync = IF f.method \in Serialized THEN f.prevSync ELSE @]]
        /\ mutexes' = r.mx
        /\ nodes' = [n \in AmlName |-> IF n \in Range(f.temp) THEN "none" ELSE nodes[n]]
        /\ UNCHANGED lock

ctx_reload_post_ret(t) ==
    LET f == Top(aml[t])
    IN  Runs(t) /\ ~AtBlockEnd(f) /\ ~InCode(f) /\ DropFrame(t, aml[t])

\* stack_unwind, one frame at a time.  Table-level code is not aborted by what it called.
stack_unwind(t) ==
    LET c == aml[t]
        table == c.frames # <<>> /\ Top(c).method \in AmlTable
    IN  /\ lock = t /\ c.unwind > 0
        /\ IF c.frames = <<>> THEN Turn(t, [c EXCEPT !.unwind = 0, !.state = "failed"])
           ELSE IF c.unwind = 2 /\ table THEN Turn(t, [c EXCEPT !.unwind = 0])
           ELSE DropFrame(t, [c EXCEPT !.unwind = IF table /\ Len(c.frames) > 1 THEN 0 ELSE 2])

\* execution_context_release: whatever is still held is released, the last one first.
Leaves(t) ==
    /\ lock = t /\ aml[t].state \in {"run", "failed"}
    /\ aml[t].frames = <<>> /\ aml[t].unwind = 0

execution_context_release(t) ==
    LET s == remove_and_release([held |-> aml[t].held, mx |-> mutexes], Last(aml[t].held), TRUE)
    IN  /\ Leaves(t) /\ aml[t].held # <<>>
        /\ aml' = [aml EXCEPT ![t].held = s.held]
        /\ mutexes' = s.mx
        /\ UNCHANGED <<lock, nodes>>

Finish(t) ==
    /\ Leaves(t) /\ aml[t].held = <<>>
    /\ aml' = [aml EXCEPT ![t] = Ctx("done")]
    /\ lock' = Nobody /\ UNCHANGED <<mutexes, nodes>>

(***************************************************************************)
(* Instructions.                                                           *)
(***************************************************************************)
Fetches(t, op) ==
    /\ Runs(t) /\ ~AtBlockEnd(Top(aml[t])) /\ InCode(Top(aml[t]))
    /\ Instr(Top(aml[t])).op = op

\* The context with the top frame behind this instruction.
Past(c) == WithTop(c, [Top(c) EXCEPT !.pc = @ + 1])
Skipped(c) == WithTop(c, [Top(c) EXCEPT !.pc = Instr(Top(c)).end])

\* IfOp with a false predicate goes over to the ElseOp behind it, if one is there.
HasElse(f) ==
    LET e == Instr(f).end
    IN  e < Block(f).end /\ AmlCode[f.method][e + 1].op = "else"

If(t, holds) ==
    LET f == Top(aml[t])
        e == Instr(f).end
    IN  /\ Fetches(t, "if")
        /\ Turn(t, CASE holds -> WithTop(aml[t], BeginBlock(f, "if", f.pc, e))
                     [] ~holds /\ HasElse(f) ->
                          WithTop(aml[t], BeginBlock(f, "else", e, AmlCode[f.method][e + 1].end))
                     [] OTHER -> Skipped(aml[t]))

Else(t) == Fetches(t, "else") /\ Turn(t, Skipped(aml[t]))

While(t, holds) ==
    LET f == Top(aml[t])
    IN  /\ Fetches(t, "while")
        /\ IF ~holds THEN Turn(t, Skipped(aml[t]))
           ELSE IF LoopIsOver(f) THEN Abort(t, aml[t])
           ELSE Turn(t, WithTop(aml[t], BeginBlock(f, "while", f.pc, Instr(f).end)))

handle_control_flow(t, op) ==
    LET f == Top(aml[t])
        k == Last_(LastWhile(f))
        g == EndBlockOf([f EXCEPT !.blocks = SubSeq(@, 1, k)])
    IN  /\ Fetches(t, op)
        /\ IF LastWhile(f) = {} THEN Abort(t, aml[t])
           ELSE Turn(t, WithTop(aml[t], [g EXCEPT !.pc = IF op = "break" THEN f.blocks[k].end
                                                         ELSE f.blocks[k].begin]))

\* The rest of the code is skipped; the blocks are left where they are.
handle_return(t) ==
    /\ Fetches(t, "return")
    /\ Turn(t, WithTop(aml[t], [Top(aml[t]) EXCEPT !.pc = Size(Top(aml[t]).method)]))

Call(t) ==
    \E op \in {"call", "load"} :
        /\ Fetches(t, op)
        /\ Invoke(t, Past(aml[t]), Instr(Top(aml[t])).arg)

\* A table that is not accepted: Load answers false and the method goes on.
LoadDenied(t) == Fetches(t, "load") /\ Turn(t, Past(aml[t]))

Sleep(t) == Fetches(t, "sleep") /\ Wait(t, Past(aml[t]), Nobody, "sleep")

Fails(t) == Fetches(t, "fail") /\ Abort(t, aml[t])

\* A node that exists already aborts a method; table-level code skips the definition.
CreateNode(t) ==
    LET c == aml[t]
        n == Instr(Top(c)).arg
        table == Top(c).method \in AmlTable
    IN  /\ Fetches(t, "name")
        /\ \/ /\ nodes[n] # "none" /\ ~table /\ Abort(t, c)
           \/ /\ nodes[n] # "none" /\ table /\ Turn(t, Past(c))
           \/ /\ nodes[n] = "none"
              /\ nodes' = [nodes EXCEPT ![n] = IF table THEN "permanent" ELSE "temporary"]
              /\ aml' = [aml EXCEPT ![t] = IF table THEN Past(c)
                                           ELSE WithTop(Past(c), [Top(Past(c)) EXCEPT !.temp = Append(@, n)])]
              /\ UNCHANGED <<lock, mutexes>>

handle_mutex_acquire(t) ==
    LET c == Past(aml[t])
        m == Instr(Top(aml[t])).arg
    IN  /\ Fetches(t, "acquire")
        /\ CASE c.sync > SyncLevel[m] -> Turn(t, c)
             [] c.sync <= SyncLevel[m] /\ mutexes[m].owner = t ->
                    /\ aml' = [aml EXCEPT ![t] = c]
                    /\ mutexes' = [mutexes EXCEPT ![m].depth = @ + 1]
                    /\ UNCHANGED <<lock, nodes>>
             [] OTHER -> Wait(t, c, m, "acquire")

handle_mutex_release(t) ==
    LET c == Past(aml[t])
        m == Instr(Top(aml[t])).arg
        s == remove_and_release([held |-> c.held, mx |-> mutexes], m, FALSE)
    IN  /\ Fetches(t, "release")
        /\ IF mutexes[m].owner # t THEN Turn(t, c)
           ELSE /\ aml' = [aml EXCEPT ![t] = [c EXCEPT !.held = s.held,
                                                !.sync = IF s.held = <<>> THEN 0
                                                         ELSE SyncLevel[Last(s.held)]]]
                /\ mutexes' = s.mx
                /\ UNCHANGED <<lock, nodes>>

\* Time passes: every loop grows older, up to the age at which it is over.
Older(age) == IF age = -1 \/ age > LoopTimeout THEN age ELSE age + 1

Aged(f) == [f EXCEPT !.prevAge = Older(@), !.slot = [i \in DOMAIN f.slot |-> Older(f.slot[i])]]

Tick ==
    /\ AmlClock
    /\ aml' = [t \in AmlThread |->
                  [aml[t] EXCEPT !.frames = [k \in DOMAIN aml[t].frames |-> Aged(aml[t].frames[k])]]]
    /\ aml' # aml
    /\ UNCHANGED <<lock, mutexes, nodes>>

Step(t) ==
    \/ \E m \in AmlEntry[t] : Evaluate(t, m)
    \/ PrepareFirst(t) \/ GetsMutex(t) \/ Resumes(t)
    \/ maybe_end_block(t) \/ ctx_reload_post_ret(t) \/ stack_unwind(t)
    \/ execution_context_release(t) \/ Finish(t)
    \/ \E holds \in BOOLEAN : If(t, holds) \/ While(t, holds)
    \/ Else(t) \/ handle_return(t) \/ Call(t) \/ LoadDenied(t) \/ Sleep(t) \/ Fails(t)
    \/ \E op \in {"break", "continue"} : handle_control_flow(t, op)
    \/ CreateNode(t) \/ handle_mutex_acquire(t) \/ handle_mutex_release(t)

AmlNext == Tick \/ \E t \in AmlThread : Step(t) \/ TimesOut(t)

\* The host schedules every thread, and its clock moves; no mutex is waited for in vain by
\* itself.  Nothing is assumed of what a predicate evaluates to.
AmlFairness == WF_amlVars(Tick) /\ \A t \in AmlThread : WF_amlVars(Step(t))

(***************************************************************************)
(* Properties.                                                             *)
(***************************************************************************)
AmlTypeOK ==
    /\ lock \in AmlThread \cup {Nobody}
    /\ \A t \in AmlThread :
         /\ aml[t].state \in {"idle", "start", "run", "failed", "done"}
         /\ Len(aml[t].frames) <= CallDepth
         /\ \A k \in DOMAIN aml[t].frames :
              LET f == aml[t].frames[k]
              IN  f.pc \in 0 .. Size(f.method) /\ Len(f.blocks) <= Size(f.method) + 1

\* A thread owns exactly the mutexes its context lists, and the one it has just got; each is
\* listed once, and a thread that has finished owns nothing.
MutexesAreListed ==
    /\ \A m \in DOMAIN mutexes, t \in AmlThread :
         mutexes[m].owner = t <=>
            \/ \E i \in DOMAIN aml[t].held : aml[t].held[i] = m
            \/ aml[t].wait.m = m /\ aml[t].wait.got
    /\ \A t \in AmlThread : IsInjective(aml[t].held)
    /\ \A t \in AmlThread : aml[t].state \in {"idle", "done"} => aml[t].held = <<>>

\* The k-th frame of t lists the node n among those to be removed when it is left.
Lists(t, k, n) == k \in DOMAIN aml[t].frames /\ n \in Range(aml[t].frames[k].temp)

\* The temporary nodes are those that a frame lists, and no two frames list the same one.
NodesAreListed ==
    \A n \in AmlName :
        /\ nodes[n] = "temporary" <=> \E t \in AmlThread, k \in 1 .. CallDepth : Lists(t, k, n)
        /\ \A t, u \in AmlThread, k, l \in 1 .. CallDepth :
              Lists(t, k, n) /\ Lists(u, l, n) => t = u /\ k = l

\* However frames are left, by a return or by an error, at whatever depth mutexes were taken:
\* a thread owns exactly the mutexes its context lists, each listed once; every temporary
\* node is listed by exactly one frame; and a thread that has finished owns nothing.
UnwindingIsComplete == AmlTypeOK /\ MutexesAreListed /\ NodesAreListed

\* R is an order of the calls that AmlCode makes in which no serialized method calls itself,
\* be it through others: enter_method lets a thread that owns the mutex in again, and the
\* inner return gives the mutex back while the outer frame still runs.
IsCallOrder(R) ==
    /\ \A m \in DOMAIN AmlCode : \A k \in 1 .. Size(m) :
         AmlCode[m][k].op \in {"call", "load"} => <<m, AmlCode[m][k].arg>> \in R
    /\ \A a, b, c \in DOMAIN AmlCode : <<a, b>> \in R /\ <<b, c>> \in R => <<a, c>> \in R
    /\ \A m \in Serialized : <<m, m>> \notin R

\* A serialized method is run by one thread at a time, even where it sleeps or waits.
SerializedIsExclusive ==
    \A t, u \in AmlThread : t # u =>
        \A i \in DOMAIN aml[t].frames, j \in DOMAIN aml[u].frames :
            aml[t].frames[i].method = aml[u].frames[j].method =>
                aml[t].frames[i].method \notin Serialized

\* An evaluation ends, whatever its predicates say: a loop that goes on is aborted when its
\* time is up, a recursion when the stack is full, and no mutex is kept from the others.
EvaluationsEnd == \A t \in AmlThread : aml[t].state = "start" ~> aml[t].state = "done"
=============================================================================
