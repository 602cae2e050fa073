# A TLA+ verification of the Helix kernel

Helix is a small x86_64 kernel, started by the Limine bootloader. It carries
its own ACPI implementation (uACPI) and terminal (flanterm) in its tree. This
directory holds TLA+ models of the kernel and of the stateful parts of both,
the TLC configurations that check them on small instances, and TLAPS proofs for
all instances. `PROJECT.json` maps every definition to the lines it models
(paths below are under `src/kernel/src/`).

## Inventory

| Component | State | What is hard | What makes it correct |
|---|---|---|---|
| Physical memory manager, `mm/pmm.cpp` | `segtab`, 16 free lists per segment, counters | long sequences of splits and merges; unaligned segments; limits of the tables | exclusive ownership, nothing lost, eager merging, failure only when full |
| Virtual memory manager, `mm/vmm.cpp` | page tables, `kernel_cr3`, `current_cr3` | failure half way; frames that were something else before | a step changes one page's translation; tables are neither shared nor lost |
| Kernel heap, `extra/liballoc` | boundary tags, bins | melting; casts that cut pointers | allocations are disjoint |
| IRQ manager, `arch/x86_64/idt` | `irq_table` | an interrupt between two stores; keys that are reused addresses | only the owner manages an IRQ; a stub runs the owner's handler |
| Event controller, `hlec/hlec.cpp` | a linked list in reused memory | dangling pointers | walks end, and find the right event |
| Mutex and interrupt flag, `mutex/mutex.cpp`, lock hooks | `locked`, RFLAGS.IF | test and set in two steps; nested interrupts | one owner |
| Port mappings, `resources/io.cpp`, `klibc/vector` | a growable array | moving cells | it is the sequence that was put in |
| uACPI events, `event.c`, `registers.c` | enable, status and mask bits, handlers, users, blocks, contexts | interrupt, deferred work and driver calls; write-to-clear bits | masked events are silent; enabled ones are handled; blocked ones come back |
| uACPI sleep, `sleep.c`, `uacpi.c` | sleep types, registers, wake masks | order of the transitions | prepared when entered, restored when left |
| uACPI locks, `mutex.c` | AML mutexes, reader-writer lock, global lock with the firmware | locks dropped and taken again while waiting | exclusion, no lost release, no deadlock |
| uACPI tables, `tables.c` | installed tables, reference counts, flags | unbalanced use; counts at their limit; malformed lengths | used while mapped, loaded once, walks stay inside |
| uACPI namespace, `namespace.c` | tree of reference-counted nodes | callbacks that remove the node they stand on | walks and paths stay sound |
| uACPI objects, `types.c`, `shareable.c` | objects, storages, counts | chains of references; packages | every count is the number of owners |
| uACPI notifications, `notify.c` | handler lists, queued work | removal against queued work | only live handlers are called |
| uACPI operation regions, `opregion.c` | handlers, attached regions, `_REG` | order of handlers and regions | regions are served by who accepted them |
| uACPI `_OSI`, `osi.c` | interface list | overrides and bulk changes | answers are what the host asked for |
| uACPI start and evaluation, `uacpi.c` | level, subsystems, devices, methods | failure half way; unloading during a call | level and subsystems agree; a running method exists |
| uACPI interpreter, `interpreter.c` | frames, blocks, held mutexes, temporary names | errors at any depth; threads that wait; endless loops | complete unwinding; serialized means exclusive; evaluations end |
| uACPI fields, `io.c` | bits of regions; index and data pairs | boundaries of bytes and units; interleaving | exactly the field's bits move |
| Terminal, `extra/flanterm` | parser, cursor, margins, colours, queue, grid | broken-off sequences; limits of numbers; rewritten cells | cursor and margins on the screen; the screen shows the text; colours are kept |

How they interact: `main` initialises the PMM, the VMM, the GDT, the IDT and
uACPI, in that order. The heap takes memory from the VMM, which takes it from
the PMM. Everything else allocates from the heap; the keys of the IRQ manager
and the cells of the event controller are heap addresses, which matters
because freed addresses come back. There is one thread. The heap's unlock hook
executes `sti`, so interrupts are enabled from the first `malloc` on, and the
stubs of the IRQ manager run between any two instructions of the rest. uACPI
reaches the kernel through the hooks of `uacpi_kernel_wrapper.cpp` (mapping,
mutexes used as spinlocks too, events, IRQs, a clock that stands still, and a
`schedule_work` that refuses); uACPI itself is written for several threads and
a worker, and its models have them.

## Modules

| Module | Models | State and actions |
|---|---|---|
| `PmmSegtab` | block sizes, orders, what `initialise` makes of an entry | none; addresses have the code's own values |
| `Pmm` | `mm/pmm.cpp` | `free_list` as sequences in list order, `call` with the locals of the call, `live`. One loop iteration per step |
| `PmmAbs` | what the PMM promises | `owned`; `Alloc`, `Free` |
| `PmmBoot` | the loop of `initialise` over any memory map | one entry per step |
| `Idt` | `irq_table` and its operations | each store that a stub reads is a step; `Interrupt` at any point; `handle` is what drivers hold |
| `Hlec` | `hlec/hlec.cpp` | `mem`, cell by cell, with what freed cells keep |
| `Vmm` | `mm/vmm.cpp`, `uacpi_kernel_map`, `unmap` | `table` (frame, index, entry), the frames the PMM can give; one page per step; a table has `TableEntries` entries |
| `Liballoc` | `liballoc.c` on its hooks | tags in `mem`, lists of pointers that have one of two names; `malloc`, `free` |
| `KernelSync` | mutex, interrupt flag, heap locks | `level` of nesting, `at`, `owns`; one load or store per step |
| `IoVector` | `klibc/vector`, `io.cpp` | the cells of the buffer beside the promised sequence |
| `UacpiRegisters`, `UacpiFixedEvents` | `registers.c`, fixed events of `event.c` | bits of every part of every register; handlers; the SCI loop, event by event |
| `UacpiGpe` | GPEs of `event.c` | one record for a register's masks and events, the worker and its queue, the call that holds `g_event_lock`, `scanning` (what the interrupt's loop has left); the points where the code waits or writes a register are steps, and a loop over the events is one step per event |
| `UacpiGpeBlocks` | blocks and interrupt contexts of `event.c` | the list of contexts and each one's list of blocks, what freed contexts keep; creation, removal, lookup |
| `UacpiSleep` | `sleep.c`, ACPI mode | extends the three above; preparation, entry, wake |
| `UacpiLocks` | `mutex.c` | owners and depths, the global lock word, threads and the firmware; `CanGoOn` is what somebody must be able to do |
| `UacpiTables` | `tables.c` | installed tables in order, the early storage and the allocated one, level, history of users and loads; one action per call |
| `UacpiNamespace` | `namespace.c` | children in list order, parents, flags, references, a walk under way |
| `UacpiObjects` | `types.c`, `shareable.c` | objects and storages with counts; what a client holds |
| `UacpiNotify` | `notify.c` | handler lists in list order, queue, the walk of the worker, driver calls; `handler_container` is the search by function |
| `UacpiOpregion` | `opregion.c` | handlers per device, regions, history of who accepted what; a temporary region that the removal walk does not visit keeps `OpRemoved` |
| `UacpiOsi` | `osi.c` | the list, the host's handler, history of what was asked for |
| `UacpiInit` | `uacpi.c` | level, subsystems up, devices visited in depth-first order with their depths, methods, evaluators |
| `UacpiInterpreter` | control flow of `interpreter.c` | per thread: frames, code blocks, held mutexes, sync level; mutexes; names. The release of a context is a loop, one mutex per step |
| `UacpiFields` | `io.c`, field definitions of `interpreter.c` | one access; bits are named by where they came from |
| `Flanterm` | parser and cursor of `flanterm.c`, cursor of `fb.c` | `term`, the context; one byte (or one number) per step |
| `FlantermSgr` | `sgr()` and colours | attributes beside the colours asked for |
| `FlantermFb` | queue, grid, flush and geometry of `fb.c` | cells, queue, what is shown beside what was written |
| `PmmProofs`, `IdtProofs`, `KernelProofs`, `AcpiProofs`, `PowerProofs`, `InterpreterProofs`, `TerminalProofs` | | theorems |
| `ListProofs` | | lemmas on sequences that several of them use |
| `MC...` | | instances for TLC |

Several MC modules hold components that share no state. A behaviour then takes
the steps of one of them, which `part` chooses at the start: the states add up
instead of multiplying. `UacpiSleep` is a composition: sleep acts on the
registers, the fixed events and the GPEs of the modules it extends.

Definitions commented "Mutant" or "A slip" are not part of the models. Each
stands for a bug that one property must catch; TLC finds the property violated
when it replaces the definition it is a variant of.

What the models leave out of the code they cover:

* Payloads, names, strings, log messages and the sizes of allocations, unless a
  property is about them. In `UacpiFields` the values are: a bit is its origin.
* `Pmm`: the free of an address outside every segment (nothing changes), and a
  free with a byte count other than the one allocated. `num_errors` stops at
  `MaxErrors`.
* `Idt`: the encoding of gates. The gates point directly at the C stubs, which
  return with `ret`; the model assumes a return from the interrupt. Drivers
  pass keys that they hold.
* `Vmm`: large pages (the code ignores the bit), the copies to and from user
  memory. The code's tables have 512 entries; the number is a constant, and the
  proofs are for any. The run has two, so that four levels make 16 pages.
* `Liballoc`: `calloc` and `realloc`; a region has the length asked for.
* `UacpiInterpreter`: expression operators, conversions, package lengths. A
  predicate may turn out either way at every evaluation, an instruction is one
  unit long, and any instruction named `fail` fails. The AML is well formed
  (`InstructionOK`: the blocks of a method nest and end inside it).
* `Flanterm`: a run of digits is one input; `FlantermFb` shows characters with
  their colours as one value, without the font and the canvas.

Some constants say how a client behaves. The passing runs give them the value
that the interface asks for, and the other value shows a finding or hazard:
`KeepsKey` (a driver uses a key it gave back), `Disciplined` (drivers resume only
what is enabled), `ObjCareful`
(allocations succeed, one level of dereferencing, packages go into unset
objects), `NsHolds` (nodes stay referenced over a tear-down), `HandlersNotify`
(a notify handler runs AML that notifies), `FieldLocked` (indexed fields have
the Lock rule), `FbManual` (the host refreshes between flushes),
`BadCsumFatal`, `NsNoOsi`, and `AmlClock` (the clock moves). `host` in
`UacpiGpe` is whether work can be scheduled; both are explored, and
`BlockedIsRestored` speaks of the host that schedules it.

## Runs

| Run | Bounds | Shows |
|---|---|---|
| `pmm` | segments of four and two pages, one unaligned; requests of 1, 2, 4 pages; counters modulo 4 | all properties of `Pmm` |
| `pmm_boot` | all maps of three adjacent entries of four types, four sizes, three positions around 1 MiB; one of 130 entries | the loop equals `SegtabOf`, segments are sound |
| `idt` | three drivers, three keys, IRQs 0 and 5 | only owners manage entries; the stub runs the owner's handler |
| `kernel` | three cells and three ids; five frames, two address spaces, 16 pages; two nested interrupts; five elements | `EventsAreSound`, `TablesHaveOneParent`, `OnePagePerStep`, `OneOwner`, `VectorIsSequence` |
| `gpe` | two GPEs, one with a method, one with a driver; one user; one queued work | `GpesAreSound`, 2.5 million states |
| `acpi_power` | one GPE with two users; five fixed events, two of which the chipset raises; PM1a and PM1b; S3, S5 | `EnabledIsHandled`, `SleepIsPrepared`, `AwakeIsRestored`, `BlockedIsRestored` |
| `acpi` | see `MCAcpi`: three threads for the locks, three tables of the firmware, an early storage for one, room for two, counts that overflow at 2, table lengths to 8 bytes, GPE blocks of the FADT and of one device on IRQs 9 and 11, three nodes beside the root, four objects, two drivers, three regions on a chain, four interfaces, four devices and three tables | the ten properties of the parts |
| `aml_exec` | two threads, six methods with every construct, depth 4; fields at 36 places, widths 1, 2, 4; two users of an index and data pair | `UnwindingIsComplete`, `SerializedIsExclusive`, `EvaluationsEnd`, `FieldsAreExact` |
| `terminal` | 2 by 3 cells, two parameters, six groups of bytes; 20 attribute calls; columns and rows of three cells; 16 framebuffers | `TerminalIsSound`, `ScreenIsSound`, `ColourIsKept` |
| `pmm_boot_large`, `heap_twice`, `aml_loop` | one map; two regions and three allocations; `aml_exec` with the clock of this kernel | violations, findings 1 to 3 |

Why the bounds are enough: a segment of four pages has three orders, so a
block is split and merged twice in one call, its buddy is on either side, and
a merge stops because the buddy is missing, split or the segment ends. Two
segments, one of them unaligned, exercise the search and the offsets. Three
drivers and two IRQs are one more than any property relates. Three cells force
the reuse of a freed cell while another event is on the list. Five frames are
fewer than the tables of two mappings in two spaces need, so that `mmap` fails
at each level. Counters (`MaxRefs`, `MaxDepth`, `MaxUsers`, `EscMax`) are small
enough to reach their limits; the code treats the limit as these models do,
only later. The fields cover the start and end of a field inside, at the edge
of and across a byte and a unit of each width. The AML of `MCAmlExec` has a
call inside a loop, a load inside a method, a failure inside both, a recursion
that reaches the depth limit with a mutex held, and two threads that want the
same serialized method.

Deadlock is checked except where the system really stops (`initialise` ends,
an evaluation ends, an access is over) or where a bounded resource ends the
model; among the locks, `NotAllStuck` says instead that somebody can go on.

What the properties say is written above each definition. Those that are
conjunctions: `EventsAreSound` (walks end in allocated memory; no id finds a
removed or a wrong event), `GpesAreSound` (masked is silent; handlers are not
replaced under an interrupt on this host; the runtime mask is the set of events
with users), `LocksAreSound` (a writer is alone; no release of the firmware is
slept through; somebody can go on), `TablesAreSound` (held tables are mapped;
none is loaded twice; subtable walks stay inside and end), `FindsItsEvent` (an
index of the FADT's blocks finds the event it names, until a freed context is
still listed, `event.c:820`), `NamespaceIsSound`
(a walk stands on a node that exists; generated paths lead back; set-up is
complete after a tear-down), `StartIsSound` (level and subsystems agree; a
method that runs exists), `FieldsAreExact` (bits of the field; bits beside it;
own index), `ScreenIsSound` (after a flush the text; cells apart in every
rotation). Where a run lists no type invariant, it is a conjunct of
`SegmentsSound`, `GpesAreSound`, `SleepIsPrepared`, `UnwindingIsComplete` or
`FieldsAreExact`; that of `Idt` is a conjunct of the invariant proved in
`IdtProofs`.

Fairness. `Pmm`: weak fairness of the steps inside a call; one thread, nothing
preempts it for ever. `GpeFairness`: weak fairness of the interrupt's loop, which
nothing interrupts, and strong fairness of the worker and of the rest of an API
call: an interrupt that is under way stops both, so they are enabled again and
again and not for ever, and the host's scheduler still runs them.
`AmlFairness`: weak fairness of each thread's step and of the clock; threads
are scheduled and time passes (`aml_loop` shows the clock of this kernel). No
caller, interrupt or firmware is assumed to act.

## Findings

With a run:

1. `pmm_boot_large`: an entry of 256 MiB or more is linked outside
   `free_list[16]` (`pmm.cpp:88-91`).
2. `heap_twice`: the casts to `unsigned int` give one tag two addresses;
   `remove_tag` misses the head of a list, and `malloc` returns memory in use
   (`liballoc.c:165`, `:209`, `:376`, `:405`).
3. `aml_loop`: the clock hook returns 0, so no AML loop is ever timed out
   (`uacpi_kernel_wrapper.cpp:223`).

Met while modelling. `PROJECT.json` quotes the line each one contradicts where
there is one:

* Kernel: `total_used` drifts (`pmm.cpp:189`); a reclaimable entry smaller than
  a page is managed as a page (`pmm.cpp:91`); a protection key is an address
  that comes back (`idt.cpp:93`, `KeepsKey`); IRQs 1 to 15 start unmasked
  (`idt.cpp:20`, `:75`); `remove_event` leaves `last_event` dangling and the
  next event is lost (`hlec.cpp:101`); pages passed as bytes
  (`liballoc_wrapper.cpp:14`, `uacpi_kernel_unmap`); an address that is not
  page-aligned is mapped with its offset in the entry (`vmm.cpp:82`);
  `pa_to_va(nullptr)` is not null (`vmm.cpp:23`); the user copies copy the
  other way round (`vmm.cpp:115`); offset and value are swapped in the PCI
  write hooks (`uacpi_kernel_wrapper.cpp:119`); spinlocks leave interrupts
  enabled (`:365`); events are flags and not counters, and timeouts are ignored
  (`:283-313`); IRQs are installed masked and stay so (`:343`); work is never
  run, so that a GPE stays disabled after its first interrupt (`:374`);
  `main.cpp:37` ignores the status of `uacpi_initialize`.
* uACPI events: the write-to-clear test compares the wrong member
  (`registers.c:548`); three loops leave out the RTC event (`event.c:75`,
  `:213`, `:2277`); installing a handler drops a driver's mask (`event.c:1324`);
  with a worker a handler can be replaced while the event is enabled
  (`SwapIsQuiet`); one index too many in a block (`event.c:879`); a freed
  context stays listed (`event.c:820`); a bad `\_Sx` keeps the old sleep type
  (`sleep.c:236`).
* uACPI locks and tables: the sequence number of the global lock never matches
  (`mutex.c:183`); returns with a mutex held (`tables.c:1088`, `notify.c:172`);
  an install that reports success whatever happened (`tables.c:753`).
* uACPI objects and namespace: `get_dereferenced` undercounts chains
  (`types.c:1287`); assigning a package over an object of another type, or
  assigning after a failed allocation (`ObjCareful`); predefined nodes that are
  referenced over a reset stay marked dangling (`NsHolds`).
* uACPI regions and notifications: removing a handler does not fall back to the
  one above it; temporary regions are left out when a handler is connected or
  removed (`opregion.c:674`); a handler that notifies from inside waits for itself
  (`HandlersNotify`).
* uACPI interpreter: a Return whose While ends with the method restarts the
  loop (`interpreter.c:4204`, `:4351`); the inner return of a recursive
  serialized method releases its mutex for the outer one (`:5991`); the buffer
  of a failed Load is measured after its source was unmapped (`:1562`);
  read-modify-write of a field is not one step under the Lock rule (`io.c:190`).
* Terminal: a full refresh between two flushes loses a write (`fb.c:946`,
  `FbManual`); CAN inside `ESC [ ?` leaves the private flag set; reverse video
  with bold and a default colour puts the other side's default
  (`flanterm.c:163-255`, which is why `ColourIsKept` excludes it).

## Proofs

Every theorem is an invariant or an action property of a component's
specification, without its fairness, for every value of the constants that
meets the named assumption beside the CONSTANTS. Each proof has the same shape:
an inductive invariant made of named parts, a lemma that the initial states
meet it, one lemma per action, and a last step that combines them. TLC checked
the inductive invariants on the instances of the runs first.

| Module | Theorem | States |
|---|---|---|
| `PmmProofs` | `TypeCorrect`, `Disjointness`, `Refinement` | `[]TypeOK`, `[]BlocksDisjoint`, `ImplementsAbs` |
| | `PagesAreKept`, `FreeUndoesAlloc`, `FailureMeansFull` | `[]NoPageLost`, `[]RestoredWhenAllFreed`, `FailsOnlyWhenFull` |
| `IdtProofs` | `KeysProtect`, `InterruptRunsOwner` | `OnlyOwnerManages`, `[]MaskedIrqRunsOwner` |
| `KernelProofs` | `MutexExcludes`, `VectorHoldsSequence`, `WalksAreSafe` | `[]OneOwner`, `[]VectorIsSequence`, `[]EventsAreSound` |
| | `VmmTables`, `VmmOnePage`, `KernelTypes` | `[]TablesHaveOneParent`, `OnePagePerStep`, `[]KernelTypeOK` |
| `AcpiProofs` | `NotificationsAreSafe`, `RegionsHaveHandlers`, `OsiAnswersAreTrue`, `StartUpIsSound`, `LocksWork` | `[]NotifiesLiveHandlers`, `[]RegionsAreServed`, `[]AnswersAsConfigured`, `[]StartIsSound`, `[]LocksAreSound` |
| | `TablesStaySound`, `EventsAreFound` | `[]TablesAreSound`, `[]FindsItsEvent` |
| `PowerProofs` | `GpesStaySound`, `FixedEventsHandled`, `SleepPrepared`, `WakeRestores` | `[]GpesAreSound`, `[]EnabledIsHandled`, `[]SleepIsPrepared`, `AwakeIsRestored` |
| `InterpreterProofs` | `UnwindingWorks`, `SerializedApart` | `[]UnwindingIsComplete`, `[]SerializedIsExclusive` |
| `TerminalProofs` | `AnyBytesAreSound`, `TerminalStaysSound`, `ColoursAreKept`, `ScreenStaysSound`, `TerminalTypes` | `[]TerminalIsSound` for any bytes and for the run's, `[]ColourIsKept`, `[]ScreenIsSound`, `[]TerminalTypeOK` |

**Physical memory.** The inductive invariant of the first three theorems is
`TypeOK /\ BlocksDisjoint`. `BlocksDisjoint` needs the block that a call has in
hand as a third kind of block beside the free and the owned ones: without it
the step that puts half a block back says nothing about the other half.
`TypeOK` carries the relation between the orders of a call, which the split
needs for the halves to be within the block. Every change of the lists is an
unlinking of one entry or a push of one (`IsUnlink`, `IsPush`), so the eight
parts of the invariant are proved once for each. The refinement follows at
`AllocReturn`, where the block in hand becomes owned.

Disjointness does not say that pages come back. The second half of `PmmProofs`
adds that every block lies at a multiple of its size from the base of its
segment and that no list below the largest order holds both halves of a block;
the loop of `free` establishes the second for the block it has in hand before
it links it. With the two, an aligned run of which nobody owns a byte is inside
one free block, by induction from the smallest order. All three theorems
follow: nothing lost, the initial lists when all is free, and a failure only
when no such run exists.

The assumptions are those that the code makes of the machine: entries do not
overlap (Limine), each segment holds its largest block and its order is below
16 (finding 1 and the sub-page entry show maps for which this fails), and a
request is at most 1 GiB.

**IRQs.** `KeysProtect` holds if no driver uses a key that it has given back.
The invariant adds that a held key is the key of an entry the holder owns, that
the keys of entries are allocated and different, and that a registration under
way has no owner yet. `InterruptRunsOwner` is under the same condition, and
adds that the entry of IRQ 0 is masked without an owner.

**Kernel services.** `mutex_lock` tests and sets in two steps. It excludes
because only the highest level of nested interrupts runs: the invariant says
that a level between test and set was interrupted by whoever owns the mutex
now, and that this level returns first. The vector is related to its sequence
cell by cell, through lemmas on growing, shifting and constructing. For the
event list, the invariant is that some set of allocated cells is the list: ids
increase along `ev_next`, each cell but the first has one predecessor, and
`last_event` is the end of the list or is not on it. The last part is what
survives of `last_event` after `remove_event`: what is linked behind a freed
cell, or behind itself, never gets onto the list. That a walk ends is the
pigeonhole principle on `Cells`, which are assumed to be finitely many.

**Virtual memory.** That two entries never name the same table is not inductive
alone: `mmap` writes into the table it has just reached, and nothing would say
that this is not the table it came from. The invariant gives every table in use
a level, one below the table that names it, with the roots at the top; a leaf
entry is then never taken for a table, the frames of tables are not among those
the PMM can give, and the four steps of a walk are apart. `OnePagePerStep`
follows: the walk of any other page leaves this one's path at some level, and
from there on it is in tables that the step does not write, or in a table that
was just zeroed. Both are proved for any number of entries, frames and address
spaces.

**Parts of uACPI.** Notifications: a change waits until no notification runs.
Regions: a permanent region is served by the nearest device above it that has a
handler, so the walk that removes a handler finds every one it serves. `_OSI`:
the list has every name once. Start-up: a step of `uacpi_initialize` leaves up
what comes before it, and the walk over the devices has been told of every one
above where it is; a method is counted once for its node and once for each
thread that runs it. Locks: the readers' mutex is held while a reader is
counted, the writers' mutex by the readers together or by one writer; who
tries, waits for or holds the global lock holds the native mutex, so only the
firmware can stand in its way, and a pending bit that it has seen leads to its
signal. Tables: installing only appends, at most up to the capacity of the
storage in use, so that a record of users or loads made before an installation
still belongs to its table; a table is held by as many users as it counts, or
it is at the limit and mapped for ever; its flag says that it was loaded, and
nothing clears it. Cursor and remaining bytes of a subtable walk add up to the
table, although the subtraction may wrap around. GPE blocks: one context has
the blocks of the FADT, highest base first, and no other has any of that
device; the blocks are apart (`BlocksAssumption`, from the FADT's `gpe1_base`),
so that the first whose base is not above the index is the one that has it.

**Events and sleep.** Most operations on a GPE register are `Calm` (masks and
users stay, at most an event that is current and not masked is enabled); the
others are shown to keep the masks consistent (`Keeps`). The invariant says
what a worker that has tested the masks is about to write, and that
`current_mask`, which the masking code asks, covers what is enabled when no
worker exists. `GpesStaySound` assumes `Disciplined`. For the fixed events a
part of a register that does not exist is never mapped and has no bit set, so
that a write reaches every part that can interrupt. For sleep, the invariant is
that both parts of `PM1_CNT` hold the prepared type from the first of the two
writes on, and that the reserved bit is part of every value written back.
`FixedAssumption` says only that the events are those of the FADT.

**Interpreter.** The invariant describes a thread's context completely: blocks
nest and end inside the method, frames are linked by the calls that made them,
each held mutex is listed once, by sync level, and a frame's temporary nodes
are its own. A context that is unwound is the same with one frame or one mutex
less. `SerializedApart` needs that no serialized method calls itself, directly
or not: `IsCallOrder(R)` is an order in which calls go down, and the AML of
`MCAmlExec` has one. Without it the property is false (`interpreter.c:5991`,
see the findings).

**Terminal.** Parser: a context is `Good` if every field is in its range and a
number that is under way has a place among the values. The last part is what
`r` needs: the first value of a complete sequence is then at least 1, so the
top margin does not wrap below zero. `AnyBytesAreSound` is for any set of bytes
and numbers; `TerminalStaysSound` is the same for the composition that the run
checks. Colours: the attributes in use and the saved ones are drawn as asked
for (`SgrInv`), which one parameter keeps, and so a list of any length.
`SgrAssumption` says that parameters are natural numbers.

Screen: the map and the queue point at each other (`Linked`), so a queue as
long as the screen has cells holds every cell, and the test for a full queue
never drops a character. What the cells hold is the text, and the framebuffer
is behind it by the queue and the old cursor only (`FbGood`). A move of cells
reads what stood there at first, because no loop reads a cell that it has
already written; this is where the direction of the three loops matters.
Geometry: a cell is a rectangle in every rotation, an interval on each axis.
`ScreenStaysSound` and `TerminalTypes` assume `~FbManual`, which this kernel
meets: it never calls `flanterm_full_refresh`. `FbAssumption` asks that a
framebuffer is wide and high enough for its margins, which `flanterm_fb_init`
does not check; `TermAssumption` asks for two rows and two values.

Induction. The library's induction theorems take an operator, so where a proof
needs induction over the naturals it takes the smallest counterexample from
`WFMin` on the set of counterexamples. `KernelProofs` gets the recursion of
`Nth` in this way too, and `ListProofs` has the general case: a recursive
function of a counter that iterates a step stays in every set that is closed
under the step (`Iteration`).

Only model-checked, and why:

* liveness (`CallsReturn`, `BlockedIsRestored`, `EvaluationsEnd`): fairness and
  ENABLED are beyond this prover;
* `NamespaceIsSound`, `RefsAreCounted`, `FieldsAreExact`: their modules have
  RECURSIVE operators, over trees, chains of references and packages, and the
  bytes of an access, with which the prover has no SMT backend; `AcpiTypeOK`
  speaks of these modules too;
* `SegmentsSound` and `LoopBuildsSegtab`: the second relates a loop to
  `SelectSeq`, the first holds only for maps whose entries are below 256 MiB.

## Not modelled

* `uacpi/resources.c`: conversion between byte layouts of resource descriptors,
  driven by tables of constants. A model would restate the tables.
* `uacpi/utilities.c`, `stdlib.c`, `opcodes.c`, `default_handlers.c`, the
  expression operators of the interpreter, `printf`, `klibc` strings: functions
  without state of their own.
* `pcie.cpp`, `protocols/`, `gdt`, `entry.cpp`, `main.cpp`, `exception_handler`:
  straight-line accesses and boot code.

## Plan

1. Proofs next: `RefsAreCounted` with chains of references as sequences, and
   `FieldsAreExact` with the loop over bytes as a recursive function.
2. A flat map from pages to frames as an abstract specification that `Vmm`
   implements; `OnePagePerStep` is its step condition.
3. `Liballoc` composed with `Vmm`, once the casts are fixed: until then every
   longer behaviour runs into finding 2.
