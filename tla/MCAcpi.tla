------------------------------- MODULE MCAcpi -------------------------------
(***************************************************************************)
(* The parts of uACPI that keep state of their own: a behaviour takes the  *)
(* steps of one of them, chosen at the start, under that part's callers.   *)
(***************************************************************************)
EXTENDS UacpiLocks, UacpiTables, UacpiGpeBlocks, UacpiNamespace, UacpiObjects,
        UacpiNotify, UacpiOpregion, UacpiOsi, UacpiInit

VARIABLE part

Parts == {"locks", "tables", "subtables", "blocks", "namespace", "objects", "notify",
          "opregion", "osi", "init"}

acpiVars == <<locksVars, tablesVars, blocksVars, nsVars, objVars, notifyVars, opVars,
              osiVars, initVars, part>>

\* A table with a bad checksum, the FADT and a table behind them.
FirmwareTables == <<[sig |-> "SSDT", bad |-> TRUE], [sig |-> "FADT", bad |-> FALSE],
                    [sig |-> "SSDT", bad |-> FALSE]>>

\* Two GPE blocks of the FADT, the second one numbered behind a gap.
Blocks == <<0, 2>>

\* A region of a device, one of the root and one that lives as long as a method.
Devices == <<"root", "dev">>
RegionOf(dev, temporary, length) ==
  [dev |-> dev, space |-> "EC", temporary |-> temporary, length |-> length]
OpRegions == [r1 |-> RegionOf("dev", FALSE, 2), r0 |-> RegionOf("root", FALSE, 2),
              t |-> RegionOf("dev", TRUE, 1)]

\* Two versions of Windows, a feature and an interface of neither kind.
Interface(name, kind, host, weight) ==
  [name |-> name, kind |-> kind, host |-> host, weight |-> weight]
Interfaces == <<Interface("w1", "vendor", 0, 1), Interface("w2", "vendor", 0, 2),
                Interface("f", "feature", 1, 0), Interface("e", "none", 0, 0)>>

\* Three devices in a chain and one beside them; a DSDT and two SSDTs.
InitDevices == <<"a", "b", "c", "d">>
InitDepths == [a |-> 1, b |-> 2, c |-> 3, d |-> 1]
InitTables == <<"DSDT", "SSDT", "SSDT">>

AcpiInit ==
  /\ part \in Parts
  /\ LocksInit /\ TablesInit /\ BlocksInit /\ NsInit /\ ObjInit /\ NotifyInit
  /\ OpInit /\ OsiInit /\ InitInit

AcpiNext ==
  /\ UNCHANGED part
  /\ \/ part = "locks" /\ LocksNext
        /\ UNCHANGED <<tablesVars, blocksVars, nsVars, objVars, notifyVars, opVars, osiVars, initVars>>
     \/ part = "tables" /\ TablesNext
        /\ UNCHANGED <<locksVars, blocksVars, nsVars, objVars, notifyVars, opVars, osiVars, initVars>>
     \/ part = "subtables" /\ SubtableNext
        /\ UNCHANGED <<locksVars, blocksVars, nsVars, objVars, notifyVars, opVars, osiVars, initVars>>
     \/ part = "blocks" /\ BlocksNext
        /\ UNCHANGED <<locksVars, tablesVars, nsVars, objVars, notifyVars, opVars, osiVars, initVars>>
     \/ part = "namespace" /\ NsNext
        /\ UNCHANGED <<locksVars, tablesVars, blocksVars, objVars, notifyVars, opVars, osiVars, initVars>>
     \/ part = "objects" /\ ObjNext
        /\ UNCHANGED <<locksVars, tablesVars, blocksVars, nsVars, notifyVars, opVars, osiVars, initVars>>
     \/ part = "notify" /\ NotifyNext
        /\ UNCHANGED <<locksVars, tablesVars, blocksVars, nsVars, objVars, opVars, osiVars, initVars>>
     \/ part = "opregion" /\ OpNext
        /\ UNCHANGED <<locksVars, tablesVars, blocksVars, nsVars, objVars, notifyVars, osiVars, initVars>>
     \/ part = "osi" /\ OsiNext
        /\ UNCHANGED <<locksVars, tablesVars, blocksVars, nsVars, objVars, notifyVars, opVars, initVars>>
     \/ part = "init" /\ InitNext
        /\ UNCHANGED <<locksVars, tablesVars, blocksVars, nsVars, objVars, notifyVars, opVars, osiVars>>

AcpiSpec == AcpiInit /\ [][AcpiNext]_acpiVars

\* The types of the parts: counters within their limits, links to things that exist.
AcpiTypeOK ==
  /\ LocksTypeOK /\ TablesTypeOK /\ BlocksTypeOK /\ NsTypeOK /\ ObjTypeOK
  /\ NotifyTypeOK /\ OpTypeOK /\ OsiTypeOK /\ InitTypeOK
=============================================================================
