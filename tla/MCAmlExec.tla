------------------------------ MODULE MCAmlExec ------------------------------
(***************************************************************************)
(* Execution of AML: two threads that evaluate methods, or one access of a *)
(* field, or two threads that access indexed fields.                       *)
(***************************************************************************)
EXTENDS UacpiInterpreter, UacpiFields

VARIABLE part
execVars == <<amlVars, fieldVars, part>>

I(op, arg, end) == [op |-> op, arg |-> arg, end |-> end]

\* loop: a While with an If and an Else that calls a serialized method or breaks, a name,
\* a table that is loaded and fails half way, and a Return before more code.  nest: an inner
\* While that continues.  rec: a recursion that holds a mutex until the depth limit.
Code ==
  [loop |-> <<I("while", "", 5), I("if", "", 3), I("call", "ser", 0), I("else", "", 5), I("break", "", 0),
              I("name", "n1", 0), I("load", "tbl", 0), I("return", "", 0), I("fail", "", 0)>>,
   ser  |-> <<I("name", "n2", 0), I("acquire", "m", 0), I("acquire", "m", 0), I("sleep", "", 0),
              I("release", "m", 0), I("release", "m", 0)>>,
   tbl  |-> <<I("name", "n3", 0), I("call", "bad", 0), I("name", "n3", 0)>>,
   bad  |-> <<I("if", "", 3), I("name", "n4", 0), I("fail", "", 0), I("break", "", 0)>>,
   nest |-> <<I("while", "", 4), I("while", "", 3), I("continue", "", 0), I("sleep", "", 0)>>,
   rec  |-> <<I("acquire", "m", 0), I("call", "rec", 0), I("release", "m", 0)>>]
SyncLevels == [ser |-> 1, m |-> 2]
Entries == [t1 |-> {"loop", "nest"}, t2 |-> {"loop", "rec"}]

\* The serialized method does not call itself; the recursion is in one that is not serialized.
Calls == {<<"loop", "ser">>, <<"loop", "tbl">>, <<"tbl", "bad">>, <<"loop", "bad">>, <<"rec", "rec">>}

ASSUME CallsAreOrdered == IsCallOrder(Calls)

\* Fields that start and end inside, at the edges of, and across bytes and access units.
Spans == [offset : {0, 3, 8, 13, 16, 23}, length : {1, 5, 8, 11, 16, 19}]

ExecInit ==
  /\ part \in {"method", "field", "index"}
  /\ AmlInit /\ FieldsInit
  /\ part # "field" => access.offset = 0 /\ access.length = 1 /\ access.width = 1
                       /\ access.size = 1 /\ access.rule = "preserve"

ExecNext ==
  /\ UNCHANGED part
  /\ \/ part = "method" /\ AmlNext /\ UNCHANGED fieldVars
     \/ part = "field" /\ FieldAccess /\ UNCHANGED amlVars
     \/ part = "index" /\ IndexedAccess /\ UNCHANGED amlVars

ExecFairness == part = "method" => AmlFairness

ExecSpec == ExecInit /\ [][ExecNext]_execVars /\ ExecFairness
=============================================================================
