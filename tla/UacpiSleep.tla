----------------------------- MODULE UacpiSleep -----------------------------
(***************************************************************************)
(* Sleep states (extra/uacpi/sleep.c) and the transition between legacy    *)
(* and ACPI mode (extra/uacpi/uacpi.c), on the registers, the fixed events *)
(* and the GPEs they drive.                                                *)
(***************************************************************************)
EXTENDS UacpiFixedEvents, UacpiGpe

VARIABLE slp   \* the sleep fields of g_uacpi_rt_ctx and where the call is

sleepVars == <<hw, mapping, handlers, sci, early, gpe, work, worker, api, host,
               scanning, slp>>

SleepState == {"S3", "S5"}

\* UACPI_SLEEP_TYP_INVALID, 0xFF: greater than ACPI_SLP_TYP_MAX.
Invalid == "invalid"

\* What evaluating \_Sx gives: a package of two integers, one packed integer (a
\* and b come out of it all the same), nothing, or one object of another type.
Package == {"two", "packed", "missing", "bad"}

TypOf(s) == CASE s = "S0" -> "typ0" [] s = "S3" -> "typ3" [] OTHER -> "typ5"

\* get_slp_type_for_state: the pair <<a, b>> it leaves, given the pair before.
\* With a bad single object it returns OK and leaves the pair alone.
get_slp_type_for_state(s, pkg, old) ==
    CASE pkg \in {"two", "packed"} -> <<TypOf(s), TypOf(s)>>
      [] pkg = "missing" -> <<Invalid, Invalid>>
      [] OTHER -> old

KeepEvents == UNCHANGED <<handlers, sci, early>>
KeepGpes == UNCHANGED gpeVars
KeepHw == UNCHANGED <<hw, mapping>>

\* The calls below come from one thread, and none runs while another event call
\* holds the lock.
SleepCall == slp.pc = "awake" /\ early /\ api.pc = "idle"

\* uacpi_prepare_for_sleep_state: the types of the state and of S0, then _PTS,
\* whose error is returned, and _SST, whose error is not.
uacpi_prepare_for_sleep_state(s, pkg, pkg0, pts) ==
    LET last == get_slp_type_for_state(s, pkg, slp.last)
        s0 == IF pkg = "missing" THEN slp.s0
              ELSE get_slp_type_for_state("S0", pkg0, slp.s0)
    IN  /\ SleepCall
        /\ slp' = [slp EXCEPT !.last = last, !.s0 = s0,
                              !.state = IF pkg # "missing" /\ pts THEN s ELSE "none"]
        /\ KeepHw /\ KeepEvents /\ KeepGpes

\* The control register without a sleep type, and a slip that keeps the old one.
CntWithType(h, m) == do_read_register(h, m, "PM1_CNT") \ {"SLP_EN"}

Cnt(h, m) == do_read_register(h, m, "PM1_CNT") \ (SlpTyp \cup {"SLP_EN"})

\* enter_sleep_state_hw_full down to the write of SLP_TYP, with interrupts off
\* from there: clear WAK, disable and clear every event, enable the wake GPEs.
enter_sleep_state_hw_full(s) ==
    /\ SleepCall /\ ~slp.reduced /\ Invalid \notin {slp.last[1], slp.last[2]}
    /\ s = slp.state
    /\ UseRegisters({"PM1_STS", "PM1_CNT"})
    /\ LET woken == uacpi_write_register_field(hw, mapping', WakSts, WakSts.bits)
           clear == do_write_register(woken, mapping', "PM1_STS", EventBits.sts)
           cnt == Cnt(clear, mapping')
       IN  hw' = uacpi_write_registers(clear, mapping', "PM1_CNT",
                                       cnt \cup {slp.last[1]}, cnt \cup {slp.last[2]})
    /\ SleepGpes
    /\ slp' = [slp EXCEPT !.pc = "typed"]
    /\ KeepEvents

\* The second write adds SLP_EN to the values of the first.
WriteSlpEn ==
    /\ slp.pc = "typed"
    /\ UseRegisters({"PM1_CNT"})
    /\ hw' = uacpi_write_registers(hw, mapping', "PM1_CNT",
                hw["PM1_CNT"][0] \cup {"SLP_EN"}, hw["PM1_CNT"][1] \cup {"SLP_EN"})
    /\ slp' = [slp EXCEPT !.pc = "slept"]
    /\ KeepEvents /\ KeepGpes

\* enter_sleep_state_hw_reduced: WAK is cleared, type and SLP_EN go in together.
make_hw_reduced_sleep_control(typ) == {typ, "SLP_EN"}

enter_sleep_state_hw_reduced(s) ==
    /\ SleepCall /\ slp.reduced /\ Invalid \notin {slp.last[1], slp.last[2]}
    /\ s = slp.state
    /\ UseRegisters({"SLP_STS", "SLP_CNT"})
    /\ hw' = do_write_register(
                uacpi_write_register_field(hw, mapping', HwrWakSts, HwrWakSts.bits),
                mapping', "SLP_CNT", make_hw_reduced_sleep_control(slp.last[1]))
    /\ slp' = [slp EXCEPT !.pc = "slept"]
    /\ KeepEvents /\ KeepGpes

\* The platform (external) wakes from S3 and sets WAK_STS.
PlatformWakes ==
    /\ slp.pc = "slept" /\ slp.state = "S3"
    /\ LET r == IF slp.reduced THEN "SLP_STS" ELSE "PM1_STS"
       IN  "WAK" \notin hw[r][0] /\ hw' = [hw EXCEPT ![r][0] = @ \cup {"WAK"}]
    /\ UNCHANGED <<mapping, slp>> /\ KeepEvents /\ KeepGpes

\* The poll of WAK_STS ends; from S5 on full hardware the call gives up instead.
SleepReturns ==
    /\ slp.pc = "slept"
    /\ IF slp.state = "S5" /\ ~slp.reduced THEN TRUE
       ELSE uacpi_read_register_field(hw, mapping,
                IF slp.reduced THEN HwrWakSts ELSE WakSts) # {}
    /\ slp' = [slp EXCEPT !.pc = "woken"]
    /\ KeepHw /\ KeepEvents /\ KeepGpes

\* uacpi_prepare_for_wake_from_sleep_state: S0's type, if it is known.
uacpi_prepare_for_wake ==
    /\ slp.pc = "woken"
    /\ LET cnt == Cnt(hw, mapping)
       IN  hw' = IF slp.s0[1] = Invalid THEN hw
                 ELSE IF slp.reduced
                 THEN do_write_register(hw, mapping, "SLP_CNT",
                                        make_hw_reduced_sleep_control(slp.s0[1]))
                 ELSE uacpi_write_registers(hw, mapping, "PM1_CNT",
                                 cnt \cup {slp.s0[1]}, cnt \cup {slp.s0[2]})
    /\ slp' = [slp EXCEPT !.pc = "waking"]
    /\ UNCHANGED mapping /\ KeepEvents /\ KeepGpes

\* uacpi_wake_from_sleep_state: the prepared types are forgotten, the runtime
\* GPEs come back, _WAK runs, and WAK_STS is cleared.
uacpi_wake_from_sleep_state ==
    /\ slp.pc = "waking"
    /\ hw' = LET f == IF slp.reduced THEN HwrWakSts ELSE WakSts
             IN  uacpi_write_register_field(hw, mapping, f, f.bits)
    /\ IF slp.reduced THEN KeepGpes ELSE WakeGpes
    /\ slp' = [slp EXCEPT !.pc = "awake", !.last = <<Invalid, Invalid>>,
                          !.state = "none"]
    /\ UNCHANGED mapping /\ KeepEvents

(***************************************************************************)
(* Legacy and ACPI mode.                                                   *)
(***************************************************************************)
read_mode == IF uacpi_read_register_field(hw, mapping', SciEn) # {}
             THEN "ACPI" ELSE "LEGACY"

\* enter_mode and set_mode: SMI_CMD is written unless the mode is the wanted one.
enter_mode(mode) ==
    /\ SleepCall /\ ~slp.reduced /\ slp.smi = "none"
    /\ UseRegisters({"SMI_CMD", "PM1_CNT"})
    /\ IF read_mode = mode THEN UNCHANGED <<hw, slp>>
       ELSE /\ hw' = do_write_register(hw, mapping', "SMI_CMD",
                        {IF mode = "ACPI" THEN "acpi_enable" ELSE "acpi_disable"})
            /\ slp' = [slp EXCEPT !.smi = mode, !.pc = "mode"]
    /\ KeepEvents /\ KeepGpes

\* The firmware (external) answers the SMI.
FirmwareSetsMode ==
    /\ slp.pc = "mode"
    /\ hw' = [hw EXCEPT !["PM1_CNT"][0] =
                IF slp.smi = "ACPI" THEN @ \cup {"SCI_EN"} ELSE @ \ {"SCI_EN"}]
    /\ hw' # hw
    /\ UNCHANGED <<mapping, slp>> /\ KeepEvents /\ KeepGpes

\* The poll sees the mode, or five seconds pass.
ModeReturns ==
    /\ slp.pc = "mode"
    /\ UNCHANGED <<hw, mapping>>
    /\ slp' = [slp EXCEPT !.pc = "awake", !.smi = "none",
                          !.legacy = @ \/ (slp.smi = "ACPI" /\ read_mode = "ACPI")]
    /\ KeepEvents /\ KeepGpes

SleepInit ==
    /\ FixedInit /\ GpeInit
    /\ \E r \in BOOLEAN :
        slp = [pc |-> "awake", state |-> "none", last |-> <<Invalid, Invalid>>,
               s0 |-> <<Invalid, Invalid>>, reduced |-> r, smi |-> "none",
               legacy |-> FALSE]

SleepStep ==
    \/ \E s \in SleepState, p, p0 \in Package, pts \in BOOLEAN :
            uacpi_prepare_for_sleep_state(s, p, p0, pts)
    \/ \E s \in SleepState : enter_sleep_state_hw_full(s)
    \/ \E s \in SleepState : enter_sleep_state_hw_reduced(s)
    \/ WriteSlpEn
    \/ PlatformWakes
    \/ SleepReturns
    \/ uacpi_prepare_for_wake
    \/ uacpi_wake_from_sleep_state
    \/ \E m \in {"ACPI", "LEGACY"} : enter_mode(m)
    \/ FirmwareSetsMode
    \/ ModeReturns

KeepSleep == UNCHANGED slp

\* The steps of the other parts that matter to sleeping, on all of the state.
SleepNext ==
    \/ SleepStep
    \/ (uacpi_initialize_events_early /\ KeepGpes /\ KeepSleep)
    \/ \E e \in Raised : RaiseFixed(e) /\ KeepGpes /\ KeepSleep
    \/ \E g \in Gpe :
        /\ slp.pc = "awake"
        /\ uacpi_enable_gpe(g) \/ uacpi_disable_gpe(g) \/ do_match_gpe_methods(g, "LEVEL")
           \/ uacpi_setup_gpe_for_wake(g, {}) \/ gpe_enable_disable_for_wake(g, TRUE)
           \/ gpe_mask_unmask \/ FinishMasked
        /\ KeepHw /\ KeepEvents /\ KeepSleep

(***************************************************************************)
(* Properties.                                                             *)
(***************************************************************************)
SleepTypeOK ==
    /\ FixedTypeOK /\ GpeTypeOK
    /\ slp.pc \in {"awake", "typed", "slept", "woken", "waking", "mode"}
    /\ \A i \in 1 .. 2 : slp.last[i] \in SlpTyp \cup {Invalid}

\* When SLP_EN is set, every part holds one sleep type, in S3 or S5 as the last
\* successful preparation said, only wake GPEs can interrupt, and the bits of the
\* control register that must be preserved have not changed.
SleepIsPrepared ==
    /\ SleepTypeOK
    /\ slp.pc = "slept" /\ ~slp.reduced =>
         /\ \A i \in Mapped(mapping, "PM1_CNT") :
                hw["PM1_CNT"][i] \cap SlpTyp = {slp.last[i + 1]}
         /\ gpe.enable = gpe.wakes
         /\ "RSVD" \in hw["PM1_CNT"][0]

\* Back from sleep, what interrupts is what drivers had enabled before, and a
\* second sleep needs a second preparation.
AwakeIsRestored ==
    [][(slp.pc = "waking" /\ slp'.pc = "awake" /\ ~slp.reduced) =>
            /\ gpe'.enable = gpe.runtime \ gpe.masked
            /\ "WAK" \notin hw'["PM1_STS"][0]]_sleepVars
=============================================================================
