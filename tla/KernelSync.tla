----------------------------- MODULE KernelSync -----------------------------
(***************************************************************************)
(* What keeps the code of the kernel apart on its one processor: the       *)
(* interrupt flag, the mutex of mutex/mutex.cpp, which the uACPI interface *)
(* also uses as its spinlock, and the lock hooks of the heap.  Level 0 is  *)
(* the main line; level n + 1 is an interrupt handler that interrupted     *)
(* level n.  Only the highest level runs.                                  *)
(***************************************************************************)
EXTENDS Naturals, FiniteSets

CONSTANT MaxLevel    \* bound: interrupts nested in each other
ASSUME SyncAssumption == MaxLevel \in Nat
Levels == 0 .. MaxLevel

VARIABLES
  level,         \* the level that runs
  IF_,           \* RFLAGS.IF
  locked,        \* internal_mutex.locked
  at,            \* level -> where its code is
  owns           \* the levels between mutex_lock and mutex_unlock
syncVars == <<level, IF_, locked, at, owns>>

SyncInit ==
  /\ level = 0 /\ IF_ = TRUE /\ locked = FALSE
  /\ at = [n \in Levels |-> "code"]
  /\ owns = {}

Goto(p) == at' = [at EXCEPT ![level] = p]

\* The gates are interrupt gates: the processor clears IF, iretq restores it.
Interrupt ==
  /\ IF_ /\ level < MaxLevel
  /\ level' = level + 1 /\ IF_' = FALSE
  /\ at' = [at EXCEPT ![level + 1] = "code"]
  /\ UNCHANGED <<locked, owns>>

Iret ==
  /\ level > 0 /\ at[level] = "code" /\ level \notin owns
  /\ level' = level - 1 /\ IF_' = TRUE
  /\ UNCHANGED <<locked, at, owns>>

mutex_lock ==
  /\ at[level] = "code" /\ level \notin owns
  /\ Goto("test")
  /\ UNCHANGED <<level, IF_, locked, owns>>

\* while (locked);
MutexSpin == at[level] = "test" /\ locked /\ UNCHANGED syncVars

\* A slip: the level goes on when it has seen the flag at all.
MutexTestOnce ==
  /\ at[level] = "test"
  /\ Goto("set")
  /\ UNCHANGED <<level, IF_, locked, owns>>

MutexTest ==
  /\ at[level] = "test" /\ ~locked
  /\ Goto("set")
  /\ UNCHANGED <<level, IF_, locked, owns>>

MutexSet ==
  /\ at[level] = "set"
  /\ locked' = TRUE /\ owns' = owns \cup {level}
  /\ Goto("code")
  /\ UNCHANGED <<level, IF_>>

mutex_unlock ==
  /\ at[level] = "code" /\ level \in owns
  /\ locked' = FALSE /\ owns' = owns \ {level}
  /\ UNCHANGED <<level, IF_, at>>

liballoc_lock ==
  /\ at[level] = "code"
  /\ IF_' = FALSE /\ Goto("heap")
  /\ UNCHANGED <<level, locked, owns>>

liballoc_unlock ==
  /\ at[level] = "heap"
  /\ IF_' = TRUE /\ Goto("code")
  /\ UNCHANGED <<level, locked, owns>>

\* uacpi_kernel_disable_interrupts ignores what IF was, restore sets it.
uacpi_kernel_disable_interrupts ==
  /\ at[level] = "code" /\ IF_' = FALSE /\ UNCHANGED <<level, locked, at, owns>>
uacpi_kernel_restore_interrupts ==
  /\ at[level] = "code" /\ IF_' = TRUE /\ UNCHANGED <<level, locked, at, owns>>

SyncNext ==
  \/ Interrupt \/ Iret
  \/ mutex_lock \/ MutexSpin \/ MutexTest \/ MutexSet \/ mutex_unlock
  \/ liballoc_lock \/ liballoc_unlock
  \/ uacpi_kernel_disable_interrupts \/ uacpi_kernel_restore_interrupts

SyncTypeOK ==
  /\ level \in Levels /\ IF_ \in BOOLEAN /\ locked \in BOOLEAN
  /\ at \in [Levels -> {"code", "test", "set", "heap"}] /\ owns \subseteq Levels

\* Although mutex_lock tests and sets in two steps, and an interrupt may come
\* between them and take the same mutex, no two levels own it at once; and as
\* liballoc_lock disables interrupts, no handler enters the heap while another
\* level is inside it.
OneOwner ==
  /\ Cardinality(owns) <= 1
  /\ Cardinality({n \in Levels : n <= level /\ at[n] = "heap"}) <= 1
=============================================================================
