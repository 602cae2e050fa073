--------------------------- MODULE UacpiRegisters ---------------------------
(***************************************************************************)
(* The fixed registers of the FADT (extra/uacpi/registers.c).  A register  *)
(* is one or two hardware parts (PM1a and PM1b); its value is the set of   *)
(* its bits that are one.  A multi-bit field such as SLP_TYP is a set of   *)
(* bits too, one per value it may hold.                                    *)
(***************************************************************************)
EXTENDS Integers, FiniteSets

CONSTANT HasB    \* does the FADT give the PM1b blocks an address?

VARIABLES hw,      \* the bits of every part of every register
          mapping  \* g_register_mappings: the mapping state of every part

EventName == {"GBL", "TMR", "PWRBTN", "SLPBTN", "RTC"}

\* The values of SLP_TYP that the package objects \_Sx name.
SlpTyp == {"typ0", "typ3", "typ5"}

EventBits == [sts |-> EventName \cup {"WAK", "IGN0"}, en |-> EventName]

\* g_registers.
g_registers ==
    LET reg(access, two, wo, pres, bits, kind) ==
            [access |-> access, two |-> two, write_only |-> wo, preserve |-> pres,
             bits |-> bits, kind |-> kind]
    IN  [PM1_STS |-> reg("WRITE_TO_CLEAR", TRUE, {}, {"IGN0"}, EventBits.sts, "GAS"),
         PM1_EN  |-> reg("PRESERVE", TRUE, {}, {}, EventBits.en, "GAS"),
         PM1_CNT |-> reg("PRESERVE", TRUE, {"SLP_EN", "GBL_RLS"}, {"RSVD"},
                         SlpTyp \cup {"SCI_EN", "SLP_EN", "GBL_RLS", "RSVD"}, "GAS"),
         SLP_CNT |-> reg("PRESERVE", FALSE, {"SLP_EN"}, {"RSVD"},
                         SlpTyp \cup {"SLP_EN", "RSVD"}, "GAS"),
         SLP_STS |-> reg("WRITE_TO_CLEAR", FALSE, {}, {"RSVD"}, {"WAK", "RSVD"}, "GAS"),
         SMI_CMD |-> reg("NORMAL", FALSE, {}, {}, {"acpi_enable", "acpi_disable"}, "IO")]

RegName == DOMAIN g_registers

\* g_fields: the register and the bits of a field.
Field(reg, bits) == [reg |-> reg, bits |-> bits]
StatusField(e) == Field("PM1_STS", {e})
EnableField(e) == Field("PM1_EN", {e})
WakSts    == Field("PM1_STS", {"WAK"})
HwrWakSts == Field("SLP_STS", {"WAK"})
SciEn     == Field("PM1_CNT", {"SCI_EN"})

Present(r, i) == i = 0 \/ (g_registers[r].two /\ HasB)

\* map_one and ensure_register_mapped: a part without an address is NOT_NEEDED.
ensure_register_mapped(m, r) ==
    [m EXCEPT ![r] = [i \in 0 .. 1 |-> IF @[i] # "NONE" THEN @[i]
                                       ELSE IF Present(r, i) THEN "MAPPED"
                                       ELSE "NOT_NEEDED"]]

Mapped(m, r) == {i \in 0 .. 1 : m[r][i] = "MAPPED"}

\* do_read_register: the parts are or-ed, and write-only bits read as zero.
do_read_register(h, m, r) ==
    (UNION {h[r][i] : i \in Mapped(m, r)}) \ g_registers[r].write_only

\* What a part does with a value written to it (external): a status bit is
\* cleared by writing one, any other bit takes the value.
PartWrite(r, old, v) ==
    IF g_registers[r].access = "WRITE_TO_CLEAR" THEN old \ v ELSE v

do_write_one(h, m, r, i, v) ==
    IF i \in Mapped(m, r) THEN [h EXCEPT ![r][i] = PartWrite(r, @, v)] ELSE h

\* Preserved bits are zeroed, and taken from the hardware where the access kind
\* says so; both parts get the same value.
do_write_register(h, m, r, v) ==
    LET kept == IF g_registers[r].access = "PRESERVE"
                THEN do_read_register(h, m, r) \cap g_registers[r].preserve ELSE {}
        w == (v \ g_registers[r].preserve) \cup kept
    IN  do_write_one(do_write_one(h, m, r, 0, w), m, r, 1, w)

\* uacpi_write_registers writes its two values as they are.
uacpi_write_registers(h, m, r, v0, v1) ==
    do_write_one(do_write_one(h, m, r, 0, v0), m, r, 1, v1)

uacpi_read_register_field(h, m, f) == do_read_register(h, m, f.reg) \cap f.bits

\* The test reads reg->kind, not reg->access_kind: REGISTER_KIND_IO has the value
\* of WRITE_TO_CLEAR, no field belongs to an I/O register, and so a status field
\* is written like any other: read, modified, written back.
uacpi_write_register_field(h, m, f, v) ==
    LET data == do_read_register(h, m, f.reg)
    IN  IF g_registers[f.reg].kind = "IO"
        THEN IF v = {} THEN h ELSE do_write_register(h, m, f.reg, v)
        ELSE do_write_register(h, m, f.reg, (data \ f.bits) \cup v)

\* A step that uses registers: their parts are mapped on first use.
UseRegisters(regs) ==
    mapping' = [r \in RegName |-> IF r \in regs
                                  THEN ensure_register_mapped(mapping, r)[r]
                                  ELSE mapping[r]]

\* uacpi_deinitialize_registers unmaps every part.
Unmapped == [r \in RegName |-> [i \in 0 .. 1 |-> "NONE"]]

RegistersInit ==
    /\ mapping = Unmapped
    /\ \E en \in SUBSET EventName :
        hw = [r \in RegName |->
                [i \in 0 .. 1 |-> IF r = "PM1_EN" /\ Present(r, i) THEN en
                                  ELSE IF r = "PM1_CNT" /\ Present(r, i)
                                  THEN {"typ0", "RSVD"} ELSE {}]]

RegistersTypeOK ==
    /\ hw \in [RegName -> [0 .. 1 -> SUBSET (UNION {g_registers[r].bits : r \in RegName})]]
    /\ mapping \in [RegName -> [0 .. 1 -> {"NONE", "NOT_NEEDED", "MAPPED"}]]
=============================================================================
