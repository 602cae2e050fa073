----------------------------- MODULE MCAcpiPower -----------------------------
(***************************************************************************)
(* Events and sleep.  A behaviour is about the general purpose events and  *)
(* their worker, about the fixed events and the SCI, or about sleep states *)
(* and ACPI mode on top of both.                                           *)
(***************************************************************************)
EXTENDS UacpiSleep

VARIABLE part
powerVars == <<sleepVars, part>>

\* Whether the hardware is reduced matters to sleep only, what the firmware had enabled to
\* the fixed events only.
PowerInit ==
  /\ part \in {"gpe", "fixed", "sleep"}
  /\ SleepInit
  /\ part # "sleep" => ~slp.reduced
  /\ part # "gpe" => host = "refuses"
  /\ part # "fixed" => \A i \in 0 .. 1 : hw["PM1_EN"][i] = {}

PowerNext ==
  /\ UNCHANGED part
  /\ \/ part = "gpe" /\ GpeNext /\ UNCHANGED <<fixedVars, slp>>
     \/ part = "fixed" /\ FixedNext /\ UNCHANGED <<gpeVars, slp>>
     \/ part = "sleep" /\ SleepNext

PowerSpec == PowerInit /\ [][PowerNext]_powerVars /\ (part = "gpe" => GpeFairness)
=============================================================================
