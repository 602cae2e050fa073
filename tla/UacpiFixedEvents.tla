-------------------------- MODULE UacpiFixedEvents --------------------------
(***************************************************************************)
(* The fixed events of event.c on the registers of registers.c: handlers,  *)
(* the enable bits of PM1_EN, and the SCI, which latches PM1_STS and       *)
(* PM1_EN and then dispatches event by event while the chipset goes on     *)
(* raising them.                                                           *)
(***************************************************************************)
EXTENDS UacpiRegisters, Sequences

CONSTANTS Implemented,  \* the events whose enable bit the chipset implements
          Raised        \* bound: the events the chipset raises

ASSUME FixedAssumption ==
    Implemented \subseteq EventName /\ Raised \subseteq EventName /\ HasB \in BOOLEAN

VARIABLES handlers,  \* fixed_event_handlers: the events with a handler
          sci,       \* the SCI handler: where its loop is and what it latched
          early      \* has uacpi_initialize_events_early run?

fixedVars == <<hw, mapping, handlers, sci, early>>

\* The order of enum uacpi_fixed_event; the loops run to UACPI_FIXED_EVENT_MAX,
\* which is the RTC event, and leave it out.
fixed_events == <<"GBL", "TMR", "PWRBTN", "SLPBTN", "RTC">>
UACPI_FIXED_EVENT_MAX == 5

LoopEvents == {fixed_events[i] : i \in 1 .. UACPI_FIXED_EVENT_MAX - 1}

Names == {fixed_events[i] : i \in 1 .. Len(fixed_events)}

NoSci == [at |-> 0, status |-> {}, enable |-> {}]

PM1 == {"PM1_STS", "PM1_EN"}

\* An enable bit the chipset does not implement reads as zero.
Settle(h) == [h EXCEPT !["PM1_EN"] = [i \in 0 .. 1 |-> @[i] \cap Implemented]]

\* set_event: written, read back, and a HARDWARE_TIMEOUT when it did not stick.
Written(e, on) ==
    Settle(uacpi_write_register_field(hw, mapping', EnableField(e),
                                      IF on THEN {e} ELSE {}))

Stuck(e, on) ==
    (uacpi_read_register_field(Written(e, on), mapping', EnableField(e)) # {}) = on

set_event(e, on) == UseRegisters({"PM1_EN"}) /\ hw' = Written(e, on)

\* The loop of initialize_fixed_events, and a slip that starts one event late.
DisableFromSecond(on) == on \ (LoopEvents \ {"GBL"})

DisableEvents(on) == on \ LoopEvents

initialize_fixed_events ==
    Settle([hw EXCEPT !["PM1_EN"] = [i \in 0 .. 1 |-> DisableEvents(@[i])]])

uacpi_initialize_events_early ==
    /\ ~early
    /\ UseRegisters({"PM1_EN"})
    /\ hw' = initialize_fixed_events
    /\ early' = TRUE
    /\ UNCHANGED <<handlers, sci>>

uacpi_install_fixed_event_handler(e) ==
    /\ early /\ e \notin handlers
    /\ set_event(e, TRUE)
    /\ handlers' = IF Stuck(e, TRUE) THEN handlers \cup {e} ELSE handlers
    /\ UNCHANGED <<sci, early>>

\* Between the two steps the handler waits for interrupts in flight.
uacpi_uninstall_fixed_event_handler(e) ==
    /\ early /\ sci.at = 0
    /\ set_event(e, FALSE)
    /\ handlers' = handlers \ {e}
    /\ UNCHANGED <<sci, early>>

uacpi_enable_fixed_event(e) ==
    /\ early /\ e \in handlers
    /\ set_event(e, TRUE)
    /\ UNCHANGED <<handlers, sci, early>>

uacpi_disable_fixed_event(e) ==
    /\ early
    /\ set_event(e, FALSE)
    /\ UNCHANGED <<handlers, sci, early>>

ClearStatus(e) ==
    uacpi_write_register_field(hw, mapping', StatusField(e), {e})

uacpi_clear_fixed_event(e) ==
    /\ early
    /\ UseRegisters({"PM1_STS"})
    /\ hw' = ClearStatus(e)
    /\ UNCHANGED <<handlers, sci, early>>

(***************************************************************************)
(* The SCI.                                                                *)
(***************************************************************************)
handle_fixed_events ==
    /\ early /\ sci.at = 0
    /\ UseRegisters(PM1)
    /\ LET sts == do_read_register(hw, mapping', "PM1_STS")
           en == do_read_register(hw, mapping', "PM1_EN")
       IN  /\ sts \cap en # {}
           /\ sci' = [at |-> 1, status |-> sts, enable |-> en]
    /\ UNCHANGED <<hw, handlers, early>>

dispatch_fixed_event ==
    LET e == fixed_events[sci.at]
        next == IF sci.at = UACPI_FIXED_EVENT_MAX - 1 THEN NoSci
                ELSE [sci EXCEPT !.at = @ + 1]
    IN  /\ sci.at # 0
        /\ sci' = next
        /\ UseRegisters(PM1)
        /\ hw' = IF e \notin sci.status \cap sci.enable THEN hw
                 ELSE IF e \in handlers THEN ClearStatus(e)
                 ELSE Settle(uacpi_write_register_field(ClearStatus(e), mapping',
                                                        EnableField(e), {}))
        /\ UNCHANGED <<handlers, early>>

\* The chipset sets a status bit in the part that implements the event.
RaiseFixed(e) ==
    /\ hw' = [hw EXCEPT !["PM1_STS"][0] = @ \cup {e}]
    /\ hw' # hw
    /\ UNCHANGED <<mapping, handlers, sci, early>>

FixedInit ==
    /\ RegistersInit /\ hw = Settle(hw)
    /\ handlers = {} /\ sci = NoSci /\ early = FALSE

FixedCall(e) ==
    \/ uacpi_install_fixed_event_handler(e)
    \/ uacpi_uninstall_fixed_event_handler(e)
    \/ uacpi_enable_fixed_event(e)
    \/ uacpi_disable_fixed_event(e)
    \/ uacpi_clear_fixed_event(e)

FixedNext ==
    \/ uacpi_initialize_events_early
    \/ handle_fixed_events
    \/ dispatch_fixed_event
    \/ \E e \in Raised : RaiseFixed(e) \/ FixedCall(e)

(***************************************************************************)
(* Properties.                                                             *)
(***************************************************************************)
FixedTypeOK ==
    /\ RegistersTypeOK
    /\ handlers \subseteq Names
    /\ sci.at \in 0 .. UACPI_FIXED_EVENT_MAX - 1

\* An enabled fixed event has a handler: what the firmware had enabled is
\* disabled first, a handler that could not be enabled is dropped again, and one
\* that is removed is disabled before.  The RTC event is not among the events the
\* loops of event.c visit.
EnabledIsHandled ==
    early => \A i \in 0 .. 1 : hw["PM1_EN"][i] \cap LoopEvents \subseteq handlers
=============================================================================
