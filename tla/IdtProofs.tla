----------------------------- MODULE IdtProofs -----------------------------
(***************************************************************************)
(* The protection keys of the IRQ manager keep other drivers out, for any  *)
(* number of drivers, keys and IRQs; and an interrupt in the middle of a   *)
(* call runs nothing but the owner's handler, for the IRQ that the         *)
(* initialiser of irq_table masks.                                         *)
(***************************************************************************)
EXTENDS Idt, TLAPS

Registering == call.pc \in {"handler", "key", "masked"}

\* Who holds a key owns the entry, and the key is the entry's.
KeyMeansOwner ==
  \A d \in Drivers, i \in Irqs :
    handle[d][i] # Null =>
      owner[i] = d /\ irq_table[i].protection_key = handle[d][i]

\* The keys of the entries are allocated, and two entries have two keys.
KeysApart ==
  \A i \in Irqs :
    irq_table[i].protection_key # Null =>
      /\ irq_table[i].protection_key \in heap
      /\ \A j \in Irqs :
           irq_table[j].protection_key = irq_table[i].protection_key => i = j

\* An owned entry is in use, unless its removal is under way.
OwnedIsUsed ==
  \A i \in Irqs :
    owner[i] # Null => irq_table[i].used \/ (call.pc = "remove" /\ call.irq = i)

CallOwner ==
  /\ Registering => owner[call.irq] = Null /\ irq_table[call.irq].used
  /\ call.pc = "remove" => owner[call.irq] = call.driver

IInv == TypeOK /\ KeyMeansOwner /\ KeysApart /\ OwnedIsUsed /\ CallOwner

\* The invariant holds before any driver has registered.
LEMMA InitIInv == Init => IInv
  BY IdtAssumption
     DEF Init, IInv, TypeOK, KeyMeansOwner, KeysApart, OwnedIsUsed, CallOwner,
         Registering, Idle

\* Every step of the IRQ manager keeps the types.
LEMMA TypeStep == ASSUME TypeOK, [Next]_vars PROVE TypeOK'
<1> USE DEF TypeOK, At, By
<1>1. ASSUME NEW d \in Drivers, NEW i \in Irqs, RegisterRefused(d, i) PROVE TypeOK'
  BY <1>1 DEF RegisterRefused
<1>2. ASSUME NEW d \in Drivers, NEW i \in Irqs, RegisterCall(d, i) PROVE TypeOK'
  BY <1>2, ZenonT(60) DEF RegisterCall
<1>3. ASSUME NEW d \in Drivers, NEW i \in Irqs, NEW k \in Held(d),
             RemoveCall(d, i, k) PROVE TypeOK'
  BY <1>3, ZenonT(60) DEF RemoveCall
<1>4. ASSUME NEW d \in Drivers, NEW i \in Irqs, NEW k \in Held(d),
             NEW masked \in BOOLEAN, SetMask(d, i, k, masked)
      PROVE  TypeOK'
  BY <1>4, ZenonT(60) DEF SetMask
<1>5. CASE RegisterHandler
  BY <1>5, ZenonT(60) DEF RegisterHandler
<1>6. CASE RegisterKey
  <2>1. PICK k \in Keys :
          irq_table' = [irq_table EXCEPT ![call.irq].protection_key = k]
    BY <1>6 DEF RegisterKey
  <2>2. heap' \subseteq Keys
    BY <1>6 DEF RegisterKey
  <2>3. irq_table' \in [Irqs -> [used: BOOLEAN, handler: Drivers \cup {Null},
                                 protection_key: Keys \cup {Null},
                                 masked: BOOLEAN]]
    BY <2>1, ZenonT(60)
  <2>4. /\ call' = [call EXCEPT !.pc = "masked"] /\ call.driver \in Drivers
        /\ call.irq \in Irqs
        /\ actor' = call.driver /\ invoked' = {} /\ UNCHANGED <<handle, owner>>
    BY <1>6 DEF RegisterKey
  <2> QED
    BY <2>2, <2>3, <2>4
<1>7. CASE RegisterReturn
  BY <1>7 DEF RegisterReturn, Idle
<1>8. CASE RemoveReturn
  <2>1. handle' \in [Drivers -> [Irqs -> Keys \cup {Null}]]
    BY <1>8 DEF RemoveReturn
  <2>2. /\ irq_table' \in [Irqs -> [used: BOOLEAN, handler: Drivers \cup {Null},
                                    protection_key: Keys \cup {Null},
                                    masked: BOOLEAN]]
        /\ heap' \subseteq Keys
    BY <1>8 DEF RemoveReturn
  <2> QED
    BY <1>8, <2>1, <2>2 DEF RemoveReturn, Idle
<1>9. ASSUME NEW i \in Irqs, Interrupt(i) PROVE TypeOK'
  BY <1>9 DEF Interrupt
<1>10. CASE UNCHANGED vars
  BY <1>10 DEF vars
<1> QED
  BY <1>1, <1>2, <1>3, <1>4, <1>5, <1>6, <1>7, <1>8, <1>9, <1>10 DEF Next

\* A key that a driver holds and that fits an entry is the key of that entry's
\* owner: remove_irq, unmask_irq and mask_irq are the owner's calls.
LEMMA KeyOpensOwnEntry ==
  ASSUME IInv, NEW d \in Drivers, NEW i \in Irqs, NEW k \in Held(d), KeyFits(i, k)
  PROVE  owner[i] = d
<1>1. PICK j \in Irqs : k = handle[d][j] /\ k # Null
  BY DEF Held
<1>2. owner[j] = d /\ irq_table[j].protection_key = k
  BY <1>1 DEF IInv, KeyMeansOwner
<1>3. i = j
  BY <1>1, <1>2 DEF IInv, KeysApart, KeyFits
<1> QED
  BY <1>2, <1>3

\* Every step keeps the inductive invariant.
LEMMA IInvStep == ASSUME ~KeepsKey, IInv, [Next]_vars PROVE IInv'
<1>1. TypeOK'
  BY TypeStep DEF IInv
<1> USE DEF IInv, TypeOK, KeyMeansOwner, KeysApart, OwnedIsUsed, CallOwner, Registering,
            At, By
<1> DEFINE Rest == KeyMeansOwner /\ KeysApart /\ OwnedIsUsed /\ CallOwner
<1>2. ASSUME NEW d \in Drivers, NEW i \in Irqs, RegisterRefused(d, i) PROVE Rest'
  BY <1>2 DEF RegisterRefused
<1>3. ASSUME NEW d \in Drivers, NEW i \in Irqs, RegisterCall(d, i) PROVE Rest'
  BY <1>3 DEF RegisterCall
<1>4. ASSUME NEW d \in Drivers, NEW i \in Irqs, NEW k \in Held(d),
             RemoveCall(d, i, k) PROVE Rest'
  <2>1. owner[i] = d
    BY <1>4, KeyOpensOwnEntry DEF RemoveCall
  <2> QED
    BY <1>4, <2>1 DEF RemoveCall
<1>5. ASSUME NEW d \in Drivers, NEW i \in Irqs, NEW k \in Held(d),
             NEW masked \in BOOLEAN, SetMask(d, i, k, masked)
      PROVE  Rest'
  BY <1>5 DEF SetMask
<1>6. ASSUME RegisterHandler PROVE Rest'
  BY <1>6 DEF RegisterHandler
<1>7. ASSUME RegisterKey PROVE Rest'
  <2>1. PICK k \in Keys \ heap :
          /\ irq_table' = [irq_table EXCEPT ![call.irq].protection_key = k]
          /\ heap' = heap \cup {k}
    BY <1>7 DEF RegisterKey
  <2>2. /\ call' = [call EXCEPT !.pc = "masked"]
        /\ UNCHANGED <<handle, owner>>
        /\ call.pc = "key" /\ call.irq \in Irqs /\ owner[call.irq] = Null
    BY <1>7 DEF RegisterKey
  <2>3. KeyMeansOwner'
    BY <2>1, <2>2, IdtAssumption
  <2>4. OwnedIsUsed'
    BY <2>1, <2>2
  <2>5. CallOwner'
    BY <2>1, <2>2
  <2>6. KeysApart'
    <3> SUFFICES ASSUME NEW i \in Irqs, irq_table[i].protection_key' # Null
                 PROVE  /\ irq_table[i].protection_key' \in heap'
                        /\ \A j \in Irqs : irq_table[j].protection_key' =
                             irq_table[i].protection_key' => i = j
      OBVIOUS
    <3>1. CASE i = call.irq
      BY <2>1, <2>2, <3>1, IdtAssumption
    <3>2. CASE i # call.irq
      BY <2>1, <2>2, <3>2
    <3> QED
      BY <3>1, <3>2
  <2> HIDE DEF KeyMeansOwner, KeysApart, OwnedIsUsed, CallOwner
  <2> QED
    BY <2>3, <2>4, <2>5, <2>6
<1>8. ASSUME RegisterReturn PROVE Rest'
  <2>1. /\ call' = Idle /\ call.pc = "masked" /\ call.irq \in Irqs
        /\ call.driver \in Drivers /\ owner[call.irq] = Null
        /\ irq_table' = [irq_table EXCEPT ![call.irq].masked = TRUE]
        /\ owner' = [owner EXCEPT ![call.irq] = call.driver]
        /\ handle' = [handle EXCEPT ![call.driver][call.irq] =
                        irq_table[call.irq].protection_key]
        /\ heap' = heap
    BY <1>8 DEF RegisterReturn
  <2>2. KeyMeansOwner'
    <3> SUFFICES ASSUME NEW d \in Drivers, NEW i \in Irqs, handle[d][i]' # Null
                 PROVE  /\ owner[i]' = d
                        /\ irq_table[i].protection_key' = handle[d][i]'
      OBVIOUS
    <3>1. CASE i = call.irq
      BY <2>1, <3>1, IdtAssumption
    <3>2. CASE i # call.irq
      BY <2>1, <3>2
    <3> QED
      BY <3>1, <3>2
  <2>3. OwnedIsUsed'
    BY <2>1 DEF Idle
  <2>4. CallOwner'
    BY <2>1 DEF Idle
  <2>5. KeysApart'
    <3>1. \A i \in Irqs :
            irq_table'[i].protection_key = irq_table[i].protection_key
      BY <2>1
    <3> QED
      BY <2>1, <3>1
  <2> HIDE DEF KeyMeansOwner, KeysApart, OwnedIsUsed, CallOwner
  <2> QED
    BY <2>2, <2>3, <2>4, <2>5
<1>9. ASSUME RemoveReturn PROVE Rest'
  <2>1. /\ call' = Idle /\ call.pc = "remove" /\ call.irq \in Irqs
        /\ call.driver \in Drivers /\ owner[call.irq] = call.driver
        /\ irq_table' = [irq_table EXCEPT ![call.irq].handler = Null,
                                          ![call.irq].protection_key = Null,
                                          ![call.irq].masked = TRUE]
        /\ owner' = [owner EXCEPT ![call.irq] = Null]
        /\ handle' = [handle EXCEPT ![call.driver][call.irq] = Null]
        /\ heap' = heap \ {irq_table[call.irq].protection_key}
    BY <1>9 DEF RemoveReturn
  <2>2. KeyMeansOwner'
    <3> SUFFICES ASSUME NEW d \in Drivers, NEW i \in Irqs, handle[d][i]' # Null
                 PROVE  /\ owner[i]' = d
                        /\ irq_table[i].protection_key' = handle[d][i]'
      OBVIOUS
    <3>1. i # call.irq
      BY <2>1, IdtAssumption
    <3> QED
      BY <2>1, <3>1
  <2>3. OwnedIsUsed'
    BY <2>1 DEF Idle
  <2>4. CallOwner'
    BY <2>1 DEF Idle
  <2>5. KeysApart'
    <3>1. \A i \in Irqs : irq_table'[i].protection_key =
            IF i = call.irq THEN Null ELSE irq_table[i].protection_key
      BY <2>1
    <3> QED
      BY <2>1, <3>1
  <2> HIDE DEF KeyMeansOwner, KeysApart, OwnedIsUsed, CallOwner
  <2> QED
    BY <2>2, <2>3, <2>4, <2>5
<1>10. ASSUME NEW i \in Irqs, Interrupt(i) PROVE Rest'
  BY <1>10 DEF Interrupt
<1>11. ASSUME UNCHANGED vars PROVE Rest'
  BY <1>11 DEF vars
<1>12. Rest'
  BY <1>2, <1>3, <1>4, <1>5, <1>6, <1>7, <1>8, <1>9, <1>10, <1>11 DEF Next
<1> QED
  BY <1>1, <1>12

\* While a driver's registration is in force, only its own steps change the
\* entry, if drivers do not use the keys they have given back.
THEOREM KeysProtect == ASSUME ~KeepsKey PROVE Spec => OnlyOwnerManages
<1>1. Init => IInv
  BY InitIInv
<1>2. IInv /\ [Next]_vars => IInv'
  BY IInvStep
<1>3. IInv /\ [Next]_vars =>
        [\A i \in Irqs : irq_table'[i] # irq_table[i] /\ owner[i] # Null
                           => actor' = owner[i]]_vars
  <2> SUFFICES ASSUME IInv, [Next]_vars, NEW i \in Irqs,
                      irq_table'[i] # irq_table[i], owner[i] # Null
               PROVE  actor' = owner[i]
    OBVIOUS
  <2> USE DEF IInv, TypeOK, KeyMeansOwner, KeysApart, OwnedIsUsed, CallOwner, Registering,
              At, By
  <2>1. ASSUME NEW d \in Drivers, NEW j \in Irqs, RegisterCall(d, j)
        PROVE  actor' = owner[i]
    BY <2>1 DEF RegisterCall
  <2>2. ASSUME NEW d \in Drivers, NEW j \in Irqs, NEW k \in Held(d),
               RemoveCall(d, j, k)
        PROVE  actor' = owner[i]
    BY <2>2, KeyOpensOwnEntry DEF RemoveCall
  <2>3. ASSUME NEW d \in Drivers, NEW j \in Irqs, NEW k \in Held(d),
               NEW masked \in BOOLEAN, SetMask(d, j, k, masked)
        PROVE  actor' = owner[i]
    BY <2>3, KeyOpensOwnEntry DEF SetMask
  <2>4. CASE RegisterHandler
    BY <2>4 DEF RegisterHandler
  <2>5. CASE RegisterKey
    BY <2>5 DEF RegisterKey
  <2>6. CASE RegisterReturn
    BY <2>6 DEF RegisterReturn
  <2>7. CASE RemoveReturn
    BY <2>7 DEF RemoveReturn
  <2> QED
    BY <2>1, <2>2, <2>3, <2>4, <2>5, <2>6, <2>7
       DEF Next, RegisterRefused, Interrupt, vars
<1> QED
  BY <1>1, <1>2, <1>3, PTL DEF Spec, OnlyOwnerManages

-----------------------------------------------------------------------------
\* Nothing runs for entry 0 without an owner: it is masked, which is so
\* from the start only for this entry.  An owned entry has its owner's handler.
UnownedIsMasked ==
  \A i \in Irqs :
    /\ owner[i] = Null /\ i = 0 => irq_table[i].masked
    /\ owner[i] # Null => irq_table[i].handler = owner[i]
    /\ call.pc \in {"key", "masked"} /\ call.irq = i =>
         irq_table[i].handler = call.driver

JInv == IInv /\ UnownedIsMasked /\ MaskedIrqRunsOwner

\* Every step keeps unowned entries masked, and what a stub runs the owner's.
LEMMA JInvStep == ASSUME ~KeepsKey, JInv, [Next]_vars PROVE JInv'
<1>1. IInv'
  BY IInvStep DEF JInv
<1> USE DEF JInv, IInv, TypeOK, KeyMeansOwner, KeysApart, OwnedIsUsed, CallOwner,
            Registering, UnownedIsMasked, At, By
<1>2. ASSUME NEW d \in Drivers, NEW i \in Irqs, RegisterRefused(d, i)
      PROVE  UnownedIsMasked'
  BY <1>2 DEF RegisterRefused
<1>3. ASSUME NEW d \in Drivers, NEW i \in Irqs, RegisterCall(d, i)
      PROVE  UnownedIsMasked'
  BY <1>3 DEF RegisterCall
<1>4. ASSUME NEW d \in Drivers, NEW i \in Irqs, NEW k \in Held(d),
             RemoveCall(d, i, k)
      PROVE  UnownedIsMasked'
  BY <1>4 DEF RemoveCall
<1>5. ASSUME NEW d \in Drivers, NEW i \in Irqs, NEW k \in Held(d),
             NEW masked \in BOOLEAN, SetMask(d, i, k, masked)
      PROVE  UnownedIsMasked'
  <2>1. owner[i] = d /\ d # Null
    BY <1>5, KeyOpensOwnEntry, IdtAssumption DEF SetMask
  <2> QED
    BY <1>5, <2>1 DEF SetMask
<1>6. ASSUME RegisterHandler PROVE UnownedIsMasked'
  BY <1>6 DEF RegisterHandler
<1>7. ASSUME RegisterKey PROVE UnownedIsMasked'
  BY <1>7 DEF RegisterKey
<1>8. ASSUME RegisterReturn PROVE UnownedIsMasked'
  BY <1>8, IdtAssumption DEF RegisterReturn, Idle
<1>9. ASSUME RemoveReturn PROVE UnownedIsMasked'
  BY <1>9, IdtAssumption DEF RemoveReturn, Idle
<1>10. ASSUME NEW i \in Irqs, Interrupt(i) PROVE UnownedIsMasked'
  BY <1>10 DEF Interrupt
<1>11. ASSUME UNCHANGED vars PROVE UnownedIsMasked'
  BY <1>11 DEF vars
<1>12. UnownedIsMasked'
  BY <1>2, <1>3, <1>4, <1>5, <1>6, <1>7, <1>8, <1>9, <1>10, <1>11 DEF Next
<1>13. ASSUME NEW i \in Irqs, Interrupt(i) PROVE MaskedIrqRunsOwner'
  BY <1>13, IdtAssumption DEF Interrupt, StubRuns, MaskedIrqRunsOwner
<1>14. ASSUME UNCHANGED vars PROVE MaskedIrqRunsOwner'
  BY <1>14 DEF vars, MaskedIrqRunsOwner
<1>15. invoked' = {} => MaskedIrqRunsOwner'
  BY DEF MaskedIrqRunsOwner
<1>16. MaskedIrqRunsOwner'
  BY <1>13, <1>14, <1>15
     DEF Next, RegisterRefused, RegisterCall, RemoveCall, SetMask,
         RegisterHandler, RegisterKey, RegisterReturn, RemoveReturn
<1> HIDE DEF IInv, UnownedIsMasked, MaskedIrqRunsOwner
<1> QED
  BY <1>1, <1>12, <1>16

\* An interrupt runs only the handler of the driver whose registration is in
\* force, between any two stores of a call, for an IRQ that starts masked.
THEOREM InterruptRunsOwner ==
  ASSUME ~KeepsKey PROVE Spec => []MaskedIrqRunsOwner
<1>1. Init => JInv
  <2> SUFFICES ASSUME Init PROVE JInv
    OBVIOUS
  <2>1. MaskedIrqRunsOwner
    BY DEF Init, MaskedIrqRunsOwner
  <2>2. \A i \in Irqs : owner[i] = Null /\ (i = 0 => irq_table[i].masked)
    <3> TAKE i \in Irqs
    <3>1. irq_table[i].masked = (i = 0)
      BY DEF Init
    <3> QED
      BY <3>1 DEF Init
  <2>3. UnownedIsMasked
    BY <2>2 DEF Init, UnownedIsMasked, Idle
  <2> QED
    BY <2>1, <2>3, InitIInv DEF JInv
<1>2. JInv /\ [Next]_vars => JInv'
  BY JInvStep
<1>3. JInv => MaskedIrqRunsOwner
  BY DEF JInv
<1> QED
  BY <1>1, <1>2, <1>3, PTL DEF Spec
=============================================================================
