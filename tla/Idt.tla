-------------------------------- MODULE Idt --------------------------------
(***************************************************************************)
(* The IRQ manager of arch/x86_64/idt/idt.cpp: drivers register a handler  *)
(* for one of the 16 legacy IRQs and receive a protection key, with which  *)
(* they mask, unmask and remove it; an interrupt runs the handler if the   *)
(* entry is used and not masked.                                           *)
(*                                                                         *)
(* The kernel has one thread of execution and interrupts stay enabled in   *)
(* it, so driver calls do not overlap, but an interrupt may arrive between *)
(* any two stores of register_irq and remove_irq: each store that a stub   *)
(* reads is a step.  Interrupt gates clear IF: a stub runs to its end.     *)
(* The gates point at the C stubs themselves, which do not end in iretq;   *)
(* the model takes the return from the interrupt for granted.              *)
(***************************************************************************)
EXTENDS Naturals

CONSTANTS
  Irqs,      \* the IRQ numbers used
  Drivers,   \* each has one handler, which stands for it
  Keys,      \* the addresses that malloc(1) may return
  Null,
  KeepsKey   \* whether a driver goes on using a key it has given back

ASSUME IdtAssumption ==
  /\ Irqs \subseteq 0..15
  /\ Null \notin Drivers \cup Keys
  /\ KeepsKey \in BOOLEAN

VARIABLES
  irq_table,  \* per IRQ: used, handler, protection_key, masked
  heap,       \* the keys that are allocated
  call,       \* the driver call in progress
  handle,     \* handle[d][i]: the key that driver d holds for IRQ i, or Null
  owner,      \* the driver whose registration of the IRQ is in force, or Null
  actor,      \* the driver that took the last step, or Null
  invoked     \* what the step ran: {}, or {[irq, handler]} for an interrupt

vars == <<irq_table, heap, call, handle, owner, actor, invoked>>

Idle == [pc |-> "idle", driver |-> Null, irq |-> 0]

\* irq_table[16] = {nullptr, 0, nullptr, false, true} initialises entry 0;
\* the members of the other entries are zero, masked included.
Init ==
  /\ irq_table = [i \in Irqs |-> [used |-> FALSE, handler |-> Null,
                                  protection_key |-> Null, masked |-> i = 0]]
  /\ heap    = {}
  /\ call    = Idle
  /\ handle  = [d \in Drivers |-> [i \in Irqs |-> Null]]
  /\ owner   = [i \in Irqs |-> Null]
  /\ actor   = Null
  /\ invoked = {}

At(pc) == call.pc = pc

\* The caller of the step, and what a call leaves alone.
By(d) == actor' = d /\ invoked' = {}

-----------------------------------------------------------------------------
(* register_irq                                                            *)

RegisterRefused(d, i) ==
  /\ At("idle") /\ irq_table[i].used
  /\ handle' = [handle EXCEPT ![d][i] = Null]
  /\ By(d)
  /\ UNCHANGED <<irq_table, heap, call, owner>>

\* The number is below 16 and the handler is not null; a stub reads used.
RegisterCall(d, i) ==
  /\ At("idle") /\ ~irq_table[i].used
  /\ irq_table' = [irq_table EXCEPT ![i].used = TRUE]
  /\ call' = [pc |-> "handler", driver |-> d, irq |-> i]
  /\ By(d)
  /\ UNCHANGED <<heap, handle, owner>>

RegisterHandler ==
  /\ At("handler")
  /\ irq_table' = [irq_table EXCEPT ![call.irq].handler = call.driver]
  /\ call' = [call EXCEPT !.pc = "key"]
  /\ By(call.driver)
  /\ UNCHANGED <<heap, handle, owner>>

RegisterKey ==
  /\ At("key")
  /\ \E k \in Keys \ heap :
       /\ irq_table' = [irq_table EXCEPT ![call.irq].protection_key = k]
       /\ heap' = heap \cup {k}
  /\ call' = [call EXCEPT !.pc = "masked"]
  /\ By(call.driver)
  /\ UNCHANGED <<handle, owner>>

RegisterReturn ==
  /\ At("masked")
  /\ irq_table' = [irq_table EXCEPT ![call.irq].masked = TRUE]
  /\ handle' = [handle EXCEPT
                  ![call.driver][call.irq] = irq_table[call.irq].protection_key]
  /\ owner' = [owner EXCEPT ![call.irq] = call.driver]
  /\ call' = Idle
  /\ By(call.driver)
  /\ UNCHANGED heap

-----------------------------------------------------------------------------
(* remove_irq, unmask_irq and mask_irq                                     *)

\* The keys that a driver may pass: those it holds, for whichever IRQ.
Held(d) == {handle[d][j] : j \in Irqs} \ {Null}

\* Mutant: any key that malloc has returned opens every entry.
AnyKey(i, k) == k \in heap

\* irq_table[irq].protection_key == protection_key
KeyFits(i, k) == irq_table[i].protection_key = k

RemoveCall(d, i, k) ==
  /\ At("idle") /\ irq_table[i].used /\ KeyFits(i, k)
  /\ irq_table' = [irq_table EXCEPT ![i].used = FALSE]
  /\ call' = [pc |-> "remove", driver |-> d, irq |-> i]
  /\ By(d)
  /\ UNCHANGED <<heap, handle, owner>>

\* Mutant: the mask is left as it was.
RemoveKeepsMask ==
  /\ At("remove")
  /\ irq_table' = [irq_table EXCEPT ![call.irq].handler = Null,
                                    ![call.irq].protection_key = Null]
  /\ heap' = heap \ {irq_table[call.irq].protection_key}
  /\ handle' = IF KeepsKey THEN handle
               ELSE [handle EXCEPT ![call.driver][call.irq] = Null]
  /\ owner' = [owner EXCEPT ![call.irq] = Null]
  /\ call' = Idle
  /\ By(call.driver)

\* The remaining stores: no stub reads them once used is false.
RemoveReturn ==
  /\ At("remove")
  /\ irq_table' = [irq_table EXCEPT ![call.irq].handler = Null,
                                    ![call.irq].protection_key = Null,
                                    ![call.irq].masked = TRUE]
  /\ heap' = heap \ {irq_table[call.irq].protection_key}
  /\ handle' = IF KeepsKey THEN handle
               ELSE [handle EXCEPT ![call.driver][call.irq] = Null]
  /\ owner' = [owner EXCEPT ![call.irq] = Null]
  /\ call' = Idle
  /\ By(call.driver)

\* unmask_irq and mask_irq do not test the key for null, and an unused entry
\* has a null key: drivers are assumed to pass a key that they hold.
SetMask(d, i, k, masked) ==
  /\ At("idle") /\ KeyFits(i, k)
  /\ irq_table' = [irq_table EXCEPT ![i].masked = masked]
  /\ By(d)
  /\ UNCHANGED <<heap, call, handle, owner>>

-----------------------------------------------------------------------------
\* IRQ_STUB: the entry is used and not masked.
StubRuns(i) == irq_table[i].used /\ ~irq_table[i].masked

Interrupt(i) ==
  /\ invoked' = IF StubRuns(i)
                  THEN {[irq |-> i, handler |-> irq_table[i].handler]}
                  ELSE {}
  /\ actor' = Null
  /\ UNCHANGED <<irq_table, heap, call, handle, owner>>

Next ==
  \/ \E d \in Drivers, i \in Irqs :
       \/ RegisterRefused(d, i)
       \/ RegisterCall(d, i)
       \/ \E k \in Held(d) :
            \/ RemoveCall(d, i, k)
            \/ \E masked \in BOOLEAN : SetMask(d, i, k, masked)
  \/ RegisterHandler
  \/ RegisterKey
  \/ RegisterReturn
  \/ RemoveReturn
  \/ \E i \in Irqs : Interrupt(i)

Spec == Init /\ [][Next]_vars

-----------------------------------------------------------------------------
(* Properties                                                              *)

\* Every variable has its type; a call under way has a driver and an IRQ.
TypeOK ==
  /\ irq_table \in [Irqs -> [used: BOOLEAN, handler: Drivers \cup {Null},
                             protection_key: Keys \cup {Null},
                             masked: BOOLEAN]]
  /\ heap \subseteq Keys
  /\ call \in [pc: {"idle", "handler", "key", "masked", "remove"},
               driver: Drivers \cup {Null}, irq: Irqs \cup {0}]
  /\ handle \in [Drivers -> [Irqs -> Keys \cup {Null}]]
  /\ owner \in [Irqs -> Drivers \cup {Null}]
  /\ actor \in Drivers \cup {Null}
  /\ invoked \subseteq [irq: Irqs, handler: Drivers \cup {Null}]
  /\ call.pc # "idle" => call.driver \in Drivers /\ call.irq \in Irqs

\* The protection key keeps other drivers out: while a driver's registration
\* of an IRQ is in force, only steps of that driver change the entry.
OnlyOwnerManages ==
  [][\A i \in Irqs :
       irq_table'[i] # irq_table[i] /\ owner[i] # Null => actor' = owner[i]]_vars

\* An interrupt between any two stores of register_irq and remove_irq runs the handler of
\* the driver whose registration is in force, or nothing: so it is for the IRQ that the
\* initialiser of irq_table masks (the others start unmasked, and are exposed).
MaskedIrqRunsOwner ==
  \A x \in invoked : x.irq = 0 => x.handler # Null /\ owner[x.irq] = x.handler
=============================================================================
