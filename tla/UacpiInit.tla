------------------------------ MODULE UacpiInit ------------------------------
(***************************************************************************)
(* The life of the subsystem (extra/uacpi/uacpi.c): the init levels and the *)
(* subsystems behind them, the loading of the AML tables, the walk that     *)
(* runs _STA and _INI, and the evaluation of methods.                       *)
(***************************************************************************)
EXTENDS Integers, Sequences, FiniteSets, SequencesExt

CONSTANTS InitDevice,  \* devices, in the order of a depth-first walk
          InitDepth,   \* function: device -> the depth at which the walk meets it
          InitTable,   \* sequence of "DSDT", "SSDT": the installed AML tables
          Evaluator,   \* threads that call uacpi_eval
          EvalMethod   \* methods that a table may bring and unloading takes away

Subsystems == <<"tables", "registers", "events", "opregion", "interfaces", "namespace", "notify">>
Levels == {"EARLY", "SUBSYSTEM_INITIALIZED", "NAMESPACE_LOADED", "NAMESPACE_INITIALIZED"}

\* The steps of the walk are named by their devices, each of which is there once.
Steps == Range(Subsystems) \cup {"idle", "load", "end"}

ASSUME InitAssumption ==
    /\ InitDevice \in Seq(Range(InitDevice)) /\ InitDevice # <<>>
    /\ Range(InitDevice) \cap (Steps \cup {"root", "_SB"}) = {}
    /\ \A i, j \in DOMAIN InitDevice : InitDevice[i] = InitDevice[j] => i = j
    /\ \A d \in Range(InitDevice) : InitDepth[d] \in Nat
    /\ IsFiniteSet(Evaluator) /\ "none" \notin EvalMethod

VARIABLES boot,   \* [level, at]: the level and the step of the call under way
          up,     \* subsystems, and the handlers, that have been brought up
          amlUp,  \* the tables of InitTable that were loaded, or tried
          sta,    \* device -> what _STA said, "unasked" before
          ini,    \* the devices whose _INI ran, in order
          method, \* method -> [node, refs]: is it in the namespace, its shares
          eval    \* thread -> the method it is evaluating, or "none"

initVars == <<boot, up, amlUp, sta, ini, method, eval>>

Idle == "idle"
Unasked == [d \in Range(InitDevice) |-> "unasked"]
NoMethod == [node |-> FALSE, refs |-> 0]

InitInit ==
    /\ boot = [level |-> "EARLY", at |-> Idle] /\ up = {} /\ amlUp = {}
    /\ sta = Unasked /\ ini = <<>>
    /\ method = [m \in EvalMethod |-> NoMethod] /\ eval = [t \in Evaluator |-> "none"]

\* The subsystems go down in this order, each of them whether it was up or not; then
\* the context is zeroed, the level with it.
Deinitialised == {"namespace", "interfaces", "events", "notify", "opregion", "handlers",
                  "tables", "registers"}

\* A node that goes drops its object, and that its share of the method.
NodesGone ==
    [m \in EvalMethod |->
        [node |-> FALSE, refs |-> method[m].refs - (IF method[m].node THEN 1 ELSE 0)]]

uacpi_state_reset ==
    /\ up' = up \ Deinitialised /\ amlUp' = {} /\ sta' = Unasked /\ ini' = <<>>
    /\ method' = NodesGone
    /\ boot' = [level |-> "EARLY", at |-> Idle] /\ UNCHANGED eval

(***************************************************************************)
(* uacpi_initialize.                                                       *)
(***************************************************************************)

\* UACPI_ENSURE_INIT_LEVEL_IS; the level is raised before the work is done.
InitializeCall ==
    /\ boot = [level |-> "EARLY", at |-> Idle]
    /\ boot' = [level |-> "SUBSYSTEM_INITIALIZED", at |-> "tables"]
    /\ UNCHANGED <<up, amlUp, sta, ini, method, eval>>

InitializeStep ==
    \E i \in DOMAIN Subsystems :
        /\ boot.at = Subsystems[i]
        /\ \/ /\ up' = up \cup {Subsystems[i]} \cup
                       IF i = Len(Subsystems) THEN {"handlers"} ELSE {}
              /\ boot' = [boot EXCEPT !.at = IF i = Len(Subsystems) THEN Idle ELSE Subsystems[i + 1]]
              /\ UNCHANGED <<amlUp, sta, ini, method, eval>>
           \/ uacpi_state_reset

(***************************************************************************)
(* uacpi_namespace_load: the DSDT, then every SSDT that is not loaded.     *)
(***************************************************************************)
LoadCall ==
    /\ boot = [level |-> "SUBSYSTEM_INITIALIZED", at |-> Idle]
    /\ \/ /\ \E i \in DOMAIN InitTable : InitTable[i] = "DSDT"
          /\ boot' = [boot EXCEPT !.at = "load"]
          /\ UNCHANGED <<up, amlUp, sta, ini, method, eval>>
       \/ uacpi_state_reset  \* no DSDT

\* A table whose load fails is counted and passed over.  A table may bring methods.
LoadTable ==
    /\ boot.at = "load"
    /\ LET kind == IF amlUp = {} THEN "DSDT" ELSE "SSDT"
           left == {i \in DOMAIN InitTable \ amlUp : InitTable[i] = kind}
       IN  /\ left # {}
           /\ amlUp' = amlUp \cup {CHOOSE i \in left : \A j \in left : i <= j}
           /\ \E brought \in SUBSET {m \in EvalMethod : method[m].refs = 0} :
                 method' = [m \in EvalMethod |-> IF m \in brought
                                                 THEN [node |-> TRUE, refs |-> 1] ELSE method[m]]
    /\ UNCHANGED <<boot, up, sta, ini, eval>>

LoadEnds ==
    /\ boot.at = "load" /\ amlUp # {}
    /\ \A i \in DOMAIN InitTable \ amlUp : InitTable[i] # "SSDT"
    /\ \/ boot' = [level |-> "NAMESPACE_LOADED", at |-> Idle] /\ UNCHANGED <<up, amlUp, sta, ini, method, eval>>
       \/ uacpi_state_reset  \* uacpi_initialize_events failed

(***************************************************************************)
(* uacpi_namespace_initialize: \_INI and \_SB._INI, _REG, then the walk.   *)
(***************************************************************************)
WalkCall ==
    /\ boot = [level |-> "NAMESPACE_LOADED", at |-> Idle]
    /\ boot' = [boot EXCEPT !.at = InitDevice[1]]
    /\ ini' = <<"root", "_SB">>
    /\ UNCHANGED <<up, amlUp, sta, method, eval>>

Position(d) == CHOOSE i \in DOMAIN InitDevice : InitDevice[i] = d

\* The devices below d follow it in the walk, until the depth is that of d again.
BelowDevice(d) ==
    {InitDevice[k] : k \in {i \in DOMAIN InitDevice :
        /\ Position(d) < i
        /\ \A j \in Position(d) + 1 .. i : InitDepth[InitDevice[j]] > InitDepth[d]}}

\* Where the walk goes: into the subtree, or past it (NEXT_PEER).
WalkNext(d, deeper) ==
    LET left == {i \in Position(d) + 1 .. Len(InitDevice) :
                    deeper \/ InitDevice[i] \notin BelowDevice(d)}
    IN  IF left = {} THEN "end" ELSE InitDevice[CHOOSE i \in left : \A j \in left : i <= j]

\* What is below a device is visited unless it is neither present nor functioning.  An
\* error of _STA does not keep the walk out either.
VisitsChildren(answer) == answer # "absent"

do_sta_ini(d, answer) ==
    /\ boot.at = d
    /\ sta' = [sta EXCEPT ![d] = answer]
    /\ ini' = IF answer = "present" THEN Append(ini, d) ELSE ini
    /\ boot' = [boot EXCEPT !.at = WalkNext(d, VisitsChildren(answer))]
    /\ UNCHANGED <<up, amlUp, method, eval>>

WalkEnds ==
    /\ boot.at = "end"
    /\ boot' = [level |-> "NAMESPACE_INITIALIZED", at |-> Idle]
    /\ UNCHANGED <<up, amlUp, sta, ini, method, eval>>

\* The host may start over, between calls.
Reset == boot.at = Idle /\ boot.level # "EARLY" /\ Range(eval) = {"none"} /\ uacpi_state_reset

(***************************************************************************)
(* uacpi_eval: the method is found under the read lock, shared, and run    *)
(* under the write lock; in between, another thread may have it.           *)
(***************************************************************************)

\* A slip: the method is not shared while the lock is upgraded.
ResolveUnshared(t, m) ==
    /\ eval[t] = "none" /\ method[m].node
    /\ eval' = [eval EXCEPT ![t] = m] /\ UNCHANGED <<boot, up, amlUp, sta, ini, method>>

EvalResolve(t, m) ==
    /\ eval[t] = "none" /\ method[m].node
    /\ method' = [method EXCEPT ![m].refs = @ + 1]
    /\ eval' = [eval EXCEPT ![t] = m]
    /\ UNCHANGED <<boot, up, amlUp, sta, ini>>

\* What a method executes may unload a table, and with it the node of any method, its own
\* included (uacpi_namespace_node_uninstall drops the object, and that the method).
EvalUnloads(t, m) ==
    /\ eval[t] # "none" /\ method[m].node
    /\ method' = [method EXCEPT ![m] = [node |-> FALSE, refs |-> @.refs - 1]]
    /\ UNCHANGED <<boot, up, amlUp, sta, ini, eval>>

EvalReturns(t) ==
    /\ eval[t] # "none"
    /\ method' = [method EXCEPT ![eval[t]].refs = @ - 1]
    /\ eval' = [eval EXCEPT ![t] = "none"]
    /\ UNCHANGED <<boot, up, amlUp, sta, ini>>

InitNext ==
    \/ InitializeCall \/ InitializeStep \/ LoadCall \/ LoadTable \/ LoadEnds \/ WalkCall
    \/ \E d \in Range(InitDevice), a \in {"present", "functional", "absent", "error"} : do_sta_ini(d, a)
    \/ WalkEnds \/ Reset
    \/ \E t \in Evaluator, m \in EvalMethod : EvalResolve(t, m) \/ EvalUnloads(t, m)
    \/ \E t \in Evaluator : EvalReturns(t)

(***************************************************************************)
(* Properties.                                                             *)
(***************************************************************************)
InitTypeOK ==
    /\ boot.level \in Levels /\ up \subseteq Range(Subsystems) \cup {"handlers"}
    /\ amlUp \subseteq DOMAIN InitTable
    /\ \A m \in EvalMethod : method[m].refs \in Nat

\* uacpi_initialize and uacpi_namespace_load bring everything up or leave nothing behind,
\* and _INI runs for a device only when no device above it is absent, and after the _INI
\* of every device above it that has run.
BootIsSound ==
    /\ boot.level = "EARLY" => up = {} /\ amlUp = {}
    /\ boot.level # "EARLY" /\ boot.at = Idle => up = Range(Subsystems) \cup {"handlers"}
    /\ \A i \in DOMAIN ini, d \in Range(InitDevice) : ini[i] \in BelowDevice(d) =>
          /\ sta[d] \notin {"unasked", "absent"}
          /\ \A j \in DOMAIN ini : ini[j] = d => j < i

\* While a thread evaluates a method, the method is there, whatever was unloaded since
\* its node was found.
MethodOutlivesNode == \A t \in Evaluator : eval[t] # "none" => method[eval[t]].refs > 0

\* Set-up, tear-down and evaluation (uacpi.c).
StartIsSound == BootIsSound /\ MethodOutlivesNode
=============================================================================
