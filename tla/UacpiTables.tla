----------------------------- MODULE UacpiTables -----------------------------
(***************************************************************************)
(* The table subsystem of uACPI (extra/uacpi/tables.c): the array of       *)
(* installed tables, early access through a buffer of the caller, the      *)
(* reference counts that map and unmap a table, loading, and the walk over *)
(* the subtables of a table.                                               *)
(***************************************************************************)
EXTENDS Integers, Sequences, FiniteSets, SequencesExt

CONSTANTS Firmware_Table,  \* the tables the XSDT points to, a sequence of records
                           \* [sig, bad]: the signature and a wrong checksum
          InlineCapacity,  \* UACPI_STATIC_TABLE_ARRAY_LEN
          EarlyCapacity,   \* tables that fit the early access buffer
          MaxRefs,         \* 0xFFFF in the code: mapped for good
          BadCsumFatal,    \* UACPI_FLAG_BAD_CSUM_FATAL
          Dispositions,    \* the answers of the installation handler
          MaxTables,       \* bound: tables installed
          SubtableBytes,   \* bound: hdr->length of the table that is walked
          SubtableHdr      \* bound: the hdr_size a caller passes to the walk

VARIABLES tables,   \* the installed tables
          level,    \* "none", "early" or "online"
          held,     \* history: references each table's users hold
          loads,    \* history: how often each table was executed
          loading,  \* tables between table_ctl and the PUT of a load
          mutex,    \* table_mutex: is it held?
          facsPtr,  \* g_uacpi_rt_ctx.facs
          walk      \* uacpi_for_each_subtable: bytes left, cursor, outcome

\* A size_t holds more than the lengths of tables and headers.
WordSize == 1024   \* size_t, to the width the wrap-around needs

ASSUME TablesAssumption ==
    /\ Firmware_Table \in Seq([sig : STRING, bad : BOOLEAN])
    /\ MaxRefs \in Nat \ {0} /\ BadCsumFatal \in BOOLEAN
    /\ {InlineCapacity, EarlyCapacity, MaxTables} \subseteq Nat
    /\ SubtableBytes \in 0 .. WordSize - 1 /\ SubtableHdr \subseteq 1 .. WordSize - 1

tablesVars == <<tables, level, held, loads, loading, mutex, facsPtr, walk>>

IsPhysical(t) == t.origin \in {"FIRMWARE_PHYSICAL", "HOST_PHYSICAL"}

NoWalk == [left |-> 0, cursor |-> 0, len |-> 0, pc |-> "idle"]

(***************************************************************************)
(* References.                                                             *)
(***************************************************************************)

\* uacpi_verify_table_checksum: a wrong checksum is an error only with the flag.
ChecksumOk(t) == ~(t.bad /\ BadCsumFatal)

\* The reference count stays at its maximum once it is there; and a slip that lets it go on.
OneMoreAlways(refs) == refs + 1

OneMore(refs) == IF refs = MaxRefs THEN refs ELSE refs + 1

\* table_ref_unlocked: the first reference maps a physical table and verifies it.
\* The result is the table and the status.
table_ref_unlocked(t) ==
    LET first == t.refs = 0
        map == first /\ IsPhysical(t)
        verify == map /\ "CSUM_VERIFIED" \notin t.flags
    IN  IF first /\ "INVALID" \in t.flags THEN [t |-> t, ok |-> FALSE]
        ELSE IF verify /\ ~ChecksumOk(t)
        THEN [t |-> [t EXCEPT !.ptr = "null", !.flags = @ \cup {"INVALID"}], ok |-> FALSE]
        ELSE [t |-> [t EXCEPT !.refs = OneMore(@),
                              !.ptr = IF map THEN "mapped" ELSE @,
                              !.flags = IF verify THEN @ \cup {"CSUM_VERIFIED"} ELSE @],
              ok |-> TRUE]

\* A slip: the count that stands for "too many" is decremented like any other.
table_unref_counting(t) ==
    IF t.refs = 0 THEN t
    ELSE [t EXCEPT !.refs = @ - 1,
                   !.ptr = IF t.refs = 1 /\ IsPhysical(t) THEN "null" ELSE @]

table_unref_unlocked(t) ==
    IF t.refs = 0 \/ t.refs = MaxRefs THEN t
    ELSE [t EXCEPT !.refs = @ - 1,
                   !.ptr = IF t.refs = 1 /\ IsPhysical(t) THEN "null" ELSE @]

(***************************************************************************)
(* Installation.                                                           *)
(***************************************************************************)
\* Early access has the inline array and the buffer of the caller; later the array grows.
Capacity(early) == IF early THEN InlineCapacity + EarlyCapacity ELSE MaxTables

Table(f, flags, o, want, virt) ==
    [sig |-> f.sig, bad |-> f.bad, flags |-> flags, origin |-> o,
     refs |-> IF want THEN 1 ELSE 0,
     ptr |-> IF virt THEN "virtual" ELSE IF want THEN "mapped" ELSE "null"]

\* verify_and_install_table: the sequence of tables and whether it was installed.
\* The FACS has no checksum; others are verified now when the caller wants them.
verify_and_install_table(ts, early, f, o, want, virt) ==
    LET now == want \/ f.sig = "FADT"
        flags == IF f.sig = "FACS" \/ now THEN {"CSUM_VERIFIED"} ELSE {}
    IN  IF \/ (f.sig # "FACS" /\ now /\ ~ChecksumOk(f))
           \/ Len(ts) >= Capacity(early)
        THEN [ts |-> ts, status |-> "ERROR"]
        ELSE [ts |-> Append(ts, Table(f, flags, o, want, virt)), status |-> "OK"]

\* table_install_physical_with_origin_unlocked: whatever went wrong, the status it
\* returns is OK; installed says whether out_table was filled in.
table_install_physical(ts, early, f, o, want, d) ==
    LET r == CASE d = "DENY" -> [ts |-> ts, status |-> "DENIED"]
               [] d = "VIRTUAL_OVERRIDE" ->
                    verify_and_install_table(ts, early, f, "HOST_VIRTUAL", want, TRUE)
               [] d = "PHYSICAL_OVERRIDE" ->
                    verify_and_install_table(ts, early, f, "HOST_PHYSICAL", want, FALSE)
               [] OTHER -> verify_and_install_table(ts, early, f, o, want, FALSE)
    IN  [ts |-> r.ts, status |-> "OK", installed |-> r.status = "OK"]

table_install_with_origin(ts, f, want) ==
    verify_and_install_table(ts, FALSE, f, "HOST_VIRTUAL", want, TRUE)

\* initialize_from_rsdp: every entry of the XSDT, one disposition for each; the
\* tables after the first i entries.
XsdtUpTo(early, ds) ==
    LET upto[i \in 0 .. Len(Firmware_Table)] ==
          IF i = 0 THEN <<>>
          ELSE table_install_physical(upto[i - 1], early, Firmware_Table[i],
                                      "FIRMWARE_PHYSICAL", FALSE, ds[i]).ts
    IN  upto

initialize_from_rsdp(early, ds) == XsdtUpTo(early, ds)[Len(Firmware_Table)]

Counted(ts, h) == [i \in 1 .. Len(ts) |-> IF i <= Len(h) THEN h[i]
                                           ELSE ts[i].refs]

Install(ts) ==
    /\ tables' = ts
    /\ held' = Counted(ts, held)
    /\ loads' = [i \in 1 .. Len(ts) |-> IF i <= Len(loads) THEN loads[i] ELSE 0]

DispositionsOf == [1 .. Len(Firmware_Table) -> Dispositions]

uacpi_setup_early_table_access(ds) ==
    /\ level = "none"
    /\ level' = "early"
    /\ tables' = initialize_from_rsdp(TRUE, ds)
    /\ held' = [i \in 1 .. Len(tables') |-> 0]
    /\ loads' = [i \in 1 .. Len(tables') |-> 0]
    /\ UNCHANGED <<loading, mutex, facsPtr, walk>>

\* uacpi_initialize_tables: the early array moves to the heap or the XSDT is read
\* now, and the FACS is installed and kept mapped.
uacpi_initialize_tables(ds, d) ==
    /\ level \in {"none", "early"}
    /\ level' = "online"
    /\ LET ts == IF level = "early" THEN tables ELSE initialize_from_rsdp(FALSE, ds)
           r == table_install_physical(ts, FALSE, [sig |-> "FACS", bad |-> FALSE],
                                       "FIRMWARE_PHYSICAL", TRUE, d)
       IN  /\ Install(r.ts)
           /\ facsPtr' = IF r.installed THEN "table" ELSE "garbage"
    /\ UNCHANGED <<loading, mutex, walk>>

uacpi_table_install(f, want) ==
    /\ level = "online" /\ ~mutex /\ Len(tables) < MaxTables
    /\ Install(table_install_with_origin(tables, f, want).ts)
    /\ UNCHANGED <<level, loading, mutex, facsPtr, walk>>

uacpi_table_install_physical(f, want) ==
    /\ level = "online" /\ ~mutex /\ Len(tables) < MaxTables
    /\ Install(table_install_physical(tables, FALSE, f, "HOST_PHYSICAL", want, "ALLOW").ts)
    /\ UNCHANGED <<level, loading, mutex, facsPtr, walk>>

\* Users give back what they took; the reference of a load is the load's.
HeldByUsers(i) == held[i] - (IF i \in loading THEN 1 ELSE 0)

(***************************************************************************)
(* Searches and table_ctl.                                                 *)
(***************************************************************************)

\* uacpi_for_each_table with do_search_tables: the first table from base on that
\* matches and can be referenced; bad checksums are passed over.
Matching(base, sig) ==
    {i \in base .. Len(tables) : tables[i].sig = sig /\ "INVALID" \notin tables[i].flags}

find_table(base, sig) ==
    LET m == Matching(base, sig)
        good == {i \in m : table_ref_unlocked(tables[i]).ok}
        hit == IF good = {} THEN Len(tables) + 1
               ELSE CHOOSE i \in good : \A j \in good : i <= j
    IN  /\ level # "none" /\ ~mutex
        /\ tables' = [i \in DOMAIN tables |->
                        IF i \in m /\ i <= hit THEN table_ref_unlocked(tables[i]).t
                        ELSE tables[i]]
        /\ held' = [i \in DOMAIN held |-> IF i = hit THEN held[i] + 1 ELSE held[i]]
        /\ UNCHANGED <<level, loads, loading, mutex, facsPtr, walk>>

\* uacpi_table_find_next_with_same_signature: the reference is dropped first.
uacpi_table_find_next_with_same_signature(i) ==
    LET sig == tables[i].sig
        ts == [tables EXCEPT ![i] = table_unref_unlocked(@)]
        m == Matching(i + 1, sig)
        good == {j \in m : table_ref_unlocked(tables[j]).ok}
        hit == IF good = {} THEN Len(tables) + 1
               ELSE CHOOSE j \in good : \A n \in good : j <= n
    IN  /\ level # "none" /\ ~mutex /\ HeldByUsers(i) > 0
        /\ tables' = [j \in DOMAIN ts |->
                        IF j \in m /\ j <= hit THEN table_ref_unlocked(ts[j]).t ELSE ts[j]]
        /\ held' = [j \in DOMAIN held |-> IF j = i THEN held[j] - 1
                                          ELSE IF j = hit THEN held[j] + 1 ELSE held[j]]
        /\ UNCHANGED <<level, loads, loading, mutex, facsPtr, walk>>

\* The early return of table_ctl for an invalid table keeps the mutex.
table_ctl_invalid(i) ==
    /\ level # "none" /\ ~mutex /\ "INVALID" \in tables[i].flags
    /\ mutex' = (level = "online")
    /\ UNCHANGED <<tables, level, held, loads, loading, facsPtr, walk>>

uacpi_table_ref(i) ==
    LET r == table_ref_unlocked(tables[i])
    IN  /\ level # "none" /\ ~mutex /\ "INVALID" \notin tables[i].flags
        /\ tables' = [tables EXCEPT ![i] = r.t]
        /\ held' = [held EXCEPT ![i] = IF r.ok THEN @ + 1 ELSE @]
        /\ UNCHANGED <<level, loads, loading, mutex, facsPtr, walk>>

uacpi_table_unref(i) ==
    /\ level # "none" /\ ~mutex /\ "INVALID" \notin tables[i].flags /\ HeldByUsers(i) > 0
    /\ tables' = [tables EXCEPT ![i] = table_unref_unlocked(@)]
    /\ held' = [held EXCEPT ![i] = @ - 1]
    /\ UNCHANGED <<level, loads, loading, mutex, facsPtr, walk>>

NotLoaded(t) == "LOADED" \notin t.flags

\* uacpi_table_load_with_cause: table_ctl tests and sets LOADED and takes a
\* reference under one hold of the mutex; the AML runs without the mutex.
uacpi_table_load(i) ==
    LET r == table_ref_unlocked(tables[i])
    IN  /\ level = "online" /\ ~mutex /\ "INVALID" \notin tables[i].flags
        /\ NotLoaded(tables[i]) /\ i \notin loading
        /\ IF r.ok
           THEN /\ tables' = [tables EXCEPT ![i] = [r.t EXCEPT !.flags = @ \cup {"LOADED"}]]
                /\ loading' = loading \cup {i}
                /\ held' = [held EXCEPT ![i] = @ + 1]
                /\ loads' = [loads EXCEPT ![i] = @ + 1]
           ELSE /\ tables' = [tables EXCEPT ![i] = r.t]
                /\ UNCHANGED <<loading, held, loads>>
        /\ UNCHANGED <<level, mutex, facsPtr, walk>>

LoadReturns(i) ==
    /\ i \in loading /\ ~mutex
    /\ tables' = [tables EXCEPT ![i] = table_unref_unlocked(@)]
    /\ held' = [held EXCEPT ![i] = @ - 1]
    /\ loading' = loading \ {i}
    /\ UNCHANGED <<level, loads, mutex, facsPtr, walk>>

\* uacpi_table_mark_as_loaded, for a table the interpreter loads itself.
uacpi_table_mark_as_loaded(i) ==
    /\ level = "online" /\ ~mutex /\ "INVALID" \notin tables[i].flags
    /\ tables' = [tables EXCEPT ![i].flags = @ \cup {"LOADED"}]
    /\ tables' # tables
    /\ UNCHANGED <<level, held, loads, loading, mutex, facsPtr, walk>>

\* uacpi_deinitialize_tables, when nothing is in use any more.
uacpi_deinitialize_tables ==
    /\ level = "online" /\ loading = {}
    /\ \A i \in DOMAIN held : held[i] = tables[i].refs /\ tables[i].sig # "FACS" => held[i] = 0
    /\ tables' = <<>> /\ held' = <<>> /\ loads' = <<>> /\ level' = "none"
    /\ mutex' = FALSE /\ facsPtr' = "null"
    /\ UNCHANGED <<loading, walk>>

(***************************************************************************)
(* uacpi_for_each_subtable on a table of SubtableBytes bytes: the length   *)
(* byte of an entry is whatever the table holds.                           *)
(***************************************************************************)
EntryHdr == 2      \* sizeof(struct acpi_entry_hdr)
uacpi_for_each_subtable(hdr_size) ==
    LET left == (SubtableBytes - hdr_size) % WordSize
    IN  /\ walk.pc = "idle"
        /\ walk' = [left |-> left, cursor |-> hdr_size, len |-> hdr_size,
                    pc |-> IF left > SubtableBytes THEN "idle" ELSE "entry"]
        /\ UNCHANGED <<tables, level, held, loads, loading, mutex, facsPtr>>

EntryFits(len, left) == len <= left /\ len >= EntryHdr

NextSubtable(len, decision) ==
    /\ walk.pc = "entry" /\ walk.left > EntryHdr
    /\ walk' = IF ~EntryFits(len, walk.left) \/ decision = "BREAK" THEN NoWalk
               ELSE [walk EXCEPT !.left = @ - len, !.cursor = @ + len, !.len = len]
    /\ UNCHANGED <<tables, level, held, loads, loading, mutex, facsPtr>>

SubtablesDone ==
    /\ walk.pc = "entry" /\ walk.left <= EntryHdr
    /\ walk' = NoWalk
    /\ UNCHANGED <<tables, level, held, loads, loading, mutex, facsPtr>>

TablesInit ==
    /\ tables = <<>> /\ level = "none" /\ held = <<>> /\ loads = <<>>
    /\ loading = {} /\ mutex = FALSE /\ facsPtr = "null" /\ walk = NoWalk

HostTable == [sig |-> "SSDT", bad |-> FALSE]

\* Bound: the references the users hold together (the FACS is one of them).
CanHold == FoldSeq(+, 0, held) < MaxRefs + 2

TableStep(i) ==
    \/ (CanHold /\ uacpi_table_ref(i))
    \/ uacpi_table_unref(i)
    \/ uacpi_table_find_next_with_same_signature(i)
    \/ uacpi_table_load(i)
    \/ LoadReturns(i)
    \/ uacpi_table_mark_as_loaded(i)
    \/ table_ctl_invalid(i)

TablesNext ==
    \/ \E ds \in DispositionsOf : uacpi_setup_early_table_access(ds)
    \/ \E ds \in DispositionsOf, d \in Dispositions : uacpi_initialize_tables(ds, d)
    \/ \E want \in BOOLEAN : uacpi_table_install(HostTable, want)
    \/ \E want \in BOOLEAN : uacpi_table_install_physical(HostTable, want)
    \/ (CanHold /\ find_table(1, "SSDT"))
    \/ \E i \in DOMAIN tables : TableStep(i)
    \/ uacpi_deinitialize_tables

SubtableNext ==
    \/ \E h \in SubtableHdr : uacpi_for_each_subtable(h)
    \/ \E len \in 0 .. SubtableBytes, d \in {"CONTINUE", "BREAK"} : NextSubtable(len, d)
    \/ SubtablesDone

(***************************************************************************)
(* Properties.                                                             *)
(***************************************************************************)
TablesTypeOK ==
    /\ \A i \in DOMAIN tables :
        /\ tables[i].refs \in 0 .. MaxRefs
        /\ tables[i].ptr \in {"null", "mapped", "virtual"}
        /\ tables[i].flags \subseteq {"LOADED", "CSUM_VERIFIED", "INVALID"}
    /\ level \in {"none", "early", "online"} /\ facsPtr \in {"null", "table", "garbage"}

\* A table somebody holds stays mapped, even when more references were taken than
\* the counter can hold and some of them were given back.
HeldIsMapped ==
    \A i \in DOMAIN tables : held[i] > 0 => tables[i].ptr # "null"

\* No table's AML runs twice, whatever loads race with each other or follow.
LoadedOnce == \A i \in DOMAIN loads : loads[i] <= 1

\* The walk over subtables stays in the table and always gets on, whatever length
\* bytes the table holds and even for a header longer than the table.
SubtablesInside ==
    walk.pc = "entry" => walk.len > 0 /\ walk.cursor + walk.left = SubtableBytes

\* Tables are used while they are there and loaded once, and the walks over them
\* stay inside (tables.c: reference counts, table_ctl, uacpi_for_each_subtable).
TablesAreSound == HeldIsMapped /\ LoadedOnce /\ SubtablesInside
=============================================================================
