----------------------------- MODULE UacpiLocks -----------------------------
(***************************************************************************)
(* The locks of uACPI (extra/uacpi/mutex.c): the reader-writer lock of the *)
(* namespace, AML mutexes, which are recursive and drop the namespace lock *)
(* while they wait, and the global lock, which is shared with the firmware *)
(* through two bits of the FACS.                                           *)
(*                                                                         *)
(* A native mutex is a hook of the host and is its owner, or Free.  A      *)
(* spinlock section runs without interrupts, as kernel_api.h requires of   *)
(* the hook (the hook of this kernel does not: see KernelSync).            *)
(***************************************************************************)
EXTENDS Integers, FiniteSets

CONSTANTS LockThread,  \* threads that use the namespace and the global lock
          MaxDepth,    \* the limit of uacpi_mutex.depth, 0xFFFF in the code
          MaxSpins,    \* the limit of spins, 0xFFFF in the code
          MaxSeq,      \* the limit of global_lock_seq_num, 2^32 - 1 in the code
          Free,        \* nobody
          Readers,     \* the owner of write_mutex while anyone reads
          Firmware     \* the other user of the global lock

ASSUME LocksAssumption ==
    /\ IsFiniteSet(LockThread) /\ LockThread # {}
    /\ {Free, Readers, Firmware} \cap LockThread = {}
    /\ Free # Readers /\ Free # Firmware /\ MaxSpins \in Nat

VARIABLES rw,      \* uacpi_rw_lock g_namespace_lock
          aml,     \* the uacpi_mutex of the global lock, \_GL
          facs,    \* the global_lock word of the FACS and its owner
          gl,      \* the global lock fields of g_uacpi_rt_ctx
          lpc      \* what every thread is doing

locksVars == <<rw, aml, facs, gl, lpc>>

At(t, l) == lpc[t] = l
GoTo(t, l) == lpc' = [lpc EXCEPT ![t] = l]

(***************************************************************************)
(* uacpi_rw_lock.                                                          *)
(***************************************************************************)

IsFirstReader(n) == n = 0

uacpi_rw_lock_read(t) ==
    /\ At(t, "out") /\ rw.read_mutex = Free
    /\ rw' = [rw EXCEPT !.read_mutex = t, !.num_readers = @ + 1]
    /\ GoTo(t, IF IsFirstReader(rw.num_readers) THEN "first" ELSE "counted")
    /\ UNCHANGED <<aml, facs, gl>>

\* The first reader takes the writers' mutex while it holds the readers'.
FirstReader(t) ==
    /\ At(t, "first") /\ rw.write_mutex = Free
    /\ rw' = [rw EXCEPT !.write_mutex = Readers]
    /\ GoTo(t, "counted")
    /\ UNCHANGED <<aml, facs, gl>>

ReadLocked(t) ==
    /\ At(t, "counted")
    /\ rw' = [rw EXCEPT !.read_mutex = Free]
    /\ GoTo(t, "reading")
    /\ UNCHANGED <<aml, facs, gl>>

uacpi_rw_unlock_read(t) ==
    /\ At(t, "reading") /\ rw.read_mutex = Free
    /\ rw' = [rw EXCEPT !.num_readers = @ - 1,
                        !.write_mutex = IF rw.num_readers = 1 THEN Free ELSE @]
    /\ GoTo(t, "out")
    /\ UNCHANGED <<aml, facs, gl>>

uacpi_rw_lock_write(t) ==
    /\ At(t, "out") /\ rw.write_mutex = Free
    /\ rw' = [rw EXCEPT !.write_mutex = t]
    /\ GoTo(t, "writing")
    /\ UNCHANGED <<aml, facs, gl>>

\* A method that ends has released its mutexes (the interpreter sees to it).
uacpi_rw_unlock_write(t) ==
    /\ At(t, "writing") /\ aml.owner # t
    /\ rw' = [rw EXCEPT !.write_mutex = Free]
    /\ GoTo(t, "out")
    /\ UNCHANGED <<aml, facs, gl>>

(***************************************************************************)
(* The global lock.  facs.owned and facs.pending are the two bits of the   *)
(* word; facs.owner is who set owned.                                      *)
(***************************************************************************)
try_acquire_global_lock_from_firmware(t) ==
    facs' = [owned |-> TRUE, pending |-> facs.owned,
             owner |-> IF facs.owned THEN facs.owner ELSE t]

\* One pass of the loop of uacpi_acquire_global_lock_from_firmware, under the
\* spinlock: success, the last attempt, or a wait for the release event.
AcquireFromFirmware(t) ==
    /\ At(t, "try")
    /\ try_acquire_global_lock_from_firmware(t)
    /\ LET won == ~facs.owned IN
       /\ gl' = [gl EXCEPT !.lock_pending = ~won /\ gl.spins # MaxSpins,
                           !.spins = IF won THEN 0 ELSE @]
       /\ GoTo(t, IF won THEN "acquired"
                  ELSE IF gl.spins = MaxSpins THEN "failed" ELSE "wait")
    /\ UNCHANGED <<rw, aml>>

\* uacpi_kernel_wait_for_event with an infinite timeout.
WaitForRelease(t) ==
    /\ At(t, "wait") /\ gl.event
    /\ gl' = [gl EXCEPT !.event = FALSE, !.spins = @ + 1]
    /\ GoTo(t, "try")
    /\ UNCHANGED <<rw, aml, facs>>

\* handle_global_lock, from the SCI: not while the spinlock section runs.
handle_global_lock ==
    /\ gl.gbl_sts
    /\ gl' = [gl EXCEPT !.gbl_sts = FALSE, !.lock_pending = FALSE,
                        !.event = gl.lock_pending \/ @]
    /\ UNCHANGED <<rw, aml, facs, lpc>>

\* do_release_global_lock_to_firmware, and GBL_RLS when the firmware waits for it.
ReleaseToFirmware == facs' = [owned |-> FALSE, pending |-> FALSE, owner |-> Free]

(***************************************************************************)
(* uacpi_acquire_aml_mutex on \_GL, from a method: the namespace lock is   *)
(* dropped for the wait and taken again.                                   *)
(***************************************************************************)
AmlReacquire(t) ==
    /\ At(t, "writing") /\ aml.owner = t /\ aml.depth < MaxDepth
    /\ aml' = [aml EXCEPT !.depth = @ + 1]
    /\ UNCHANGED <<rw, facs, gl, lpc>>

\* A slip: the namespace lock is kept during the wait.
KeepNamespaceLock(t) == UNCHANGED rw

DropNamespaceLock(t) == rw' = [rw EXCEPT !.write_mutex = Free]

uacpi_acquire_aml_mutex(t) ==
    /\ At(t, "writing") /\ aml.owner # t
    /\ DropNamespaceLock(t)
    /\ GoTo(t, "mutex")
    /\ UNCHANGED <<aml, facs, gl>>

TakeNativeMutex(t) ==
    /\ At(t, "mutex") /\ aml.handle = Free
    /\ aml' = [aml EXCEPT !.handle = t]
    /\ GoTo(t, "try")
    /\ UNCHANGED <<rw, facs, gl>>

\* A timeout of the hook, with a finite timeout given by the method.
NativeMutexTimeout(t) ==
    /\ At(t, "mutex") /\ aml.handle # Free
    /\ GoTo(t, "relock")
    /\ UNCHANGED <<rw, aml, facs, gl>>

\* The firmware kept the lock to the last attempt: the native mutex is released.
AcquireFailed(t) ==
    /\ At(t, "failed")
    /\ aml' = [aml EXCEPT !.handle = Free]
    /\ gl' = [gl EXCEPT !.spins = 0]
    /\ GoTo(t, "relock")
    /\ UNCHANGED <<rw, facs>>

AcquireDone(t) ==
    /\ At(t, "acquired")
    /\ aml' = [aml EXCEPT !.owner = t, !.depth = 1]
    /\ GoTo(t, "relock")
    /\ UNCHANGED <<rw, facs, gl>>

RelockNamespace(t) ==
    /\ At(t, "relock") /\ rw.write_mutex = Free
    /\ rw' = [rw EXCEPT !.write_mutex = t]
    /\ GoTo(t, "writing")
    /\ UNCHANGED <<aml, facs, gl>>

uacpi_release_aml_mutex(t) ==
    /\ At(t, "writing") /\ aml.owner = t
    /\ \/ /\ aml.depth > 1
          /\ aml' = [aml EXCEPT !.depth = @ - 1]
          /\ UNCHANGED facs
       \/ /\ aml.depth = 1
          /\ ReleaseToFirmware
          /\ aml' = [handle |-> Free, owner |-> Free, depth |-> 0]
    /\ UNCHANGED <<rw, gl, lpc>>

(***************************************************************************)
(* uacpi_acquire_global_lock and uacpi_release_global_lock, the calls for  *)
(* drivers.  The number given out is the one before the increment, and the *)
(* release compares with the one after it.                                 *)
(***************************************************************************)
uacpi_acquire_global_lock(t) ==
    /\ At(t, "out") /\ aml.handle = Free /\ ~facs.owned
    /\ try_acquire_global_lock_from_firmware(t)
    /\ aml' = [aml EXCEPT !.handle = t]
    /\ LET n == IF gl.seq_num = MaxSeq THEN 0 ELSE gl.seq_num IN
       gl' = [gl EXCEPT !.out_seq = n, !.seq_num = n + 1, !.acquired = TRUE]
    /\ GoTo(t, "driver")
    /\ UNCHANGED rw

uacpi_release_global_lock(t, seq) ==
    LET valid == gl.acquired /\ seq = gl.seq_num
    IN  /\ At(t, "driver")
        /\ IF valid THEN /\ gl' = [gl EXCEPT !.acquired = FALSE]
                         /\ ReleaseToFirmware
                         /\ aml' = [aml EXCEPT !.handle = Free]
           ELSE UNCHANGED <<gl, facs, aml>>
        /\ GoTo(t, "out")
        /\ UNCHANGED rw

(***************************************************************************)
(* The firmware (external) follows the same protocol from its side.        *)
(***************************************************************************)
FirmwareAcquire ==
    /\ facs.owner # Firmware
    /\ facs' = [owned |-> TRUE, pending |-> facs.owned,
                owner |-> IF facs.owned THEN facs.owner ELSE Firmware]
    /\ facs' # facs
    /\ UNCHANGED <<rw, aml, gl, lpc>>

FirmwareRelease ==
    /\ facs.owner = Firmware
    /\ gl' = [gl EXCEPT !.gbl_sts = @ \/ facs.pending]
    /\ ReleaseToFirmware
    /\ UNCHANGED <<rw, aml, lpc>>

LocksInit ==
    /\ rw = [read_mutex |-> Free, write_mutex |-> Free, num_readers |-> 0]
    /\ aml = [handle |-> Free, owner |-> Free, depth |-> 0]
    /\ facs = [owned |-> FALSE, pending |-> FALSE, owner |-> Free]
    /\ gl = [lock_pending |-> FALSE, event |-> FALSE, gbl_sts |-> FALSE, spins |-> 0,
             seq_num |-> 0, out_seq |-> 0, acquired |-> FALSE]
    /\ lpc = [t \in LockThread |-> "out"]

RwStep(t) ==
    \/ uacpi_rw_lock_read(t) \/ FirstReader(t) \/ ReadLocked(t)
    \/ uacpi_rw_unlock_read(t) \/ uacpi_rw_lock_write(t) \/ uacpi_rw_unlock_write(t)

AmlStep(t) ==
    \/ AmlReacquire(t) \/ uacpi_acquire_aml_mutex(t) \/ TakeNativeMutex(t)
    \/ NativeMutexTimeout(t) \/ AcquireFromFirmware(t) \/ WaitForRelease(t)
    \/ AcquireFailed(t) \/ AcquireDone(t) \/ RelockNamespace(t)
    \/ uacpi_release_aml_mutex(t)

LocksNext ==
    \/ \E t \in LockThread : RwStep(t) \/ AmlStep(t)
    \/ handle_global_lock
    \/ FirmwareAcquire
    \/ FirmwareRelease
    \/ \E t \in LockThread : uacpi_acquire_global_lock(t)
                             \/ uacpi_release_global_lock(t, gl.out_seq)

(***************************************************************************)
(* Properties.                                                             *)
(***************************************************************************)
LocksTypeOK ==
    /\ rw.num_readers \in 0 .. Cardinality(LockThread)
    /\ aml.depth \in 0 .. MaxDepth /\ gl.spins \in 0 .. MaxSpins
    /\ gl.seq_num \in 0 .. MaxSeq

\* A writer of the namespace is alone, whatever the order in which readers come,
\* go, and methods drop and retake the lock around a wait for a mutex.
WriterIsAlone ==
    \A t, u \in LockThread :
        At(t, "writing") /\ t # u => lpc[u] \notin {"reading", "writing"}

\* Nobody sleeps through a release: a thread that waits for the firmware has been
\* signalled, or the firmware still owns the lock and knows that it must notify,
\* or its notification is on its way.
NoLostRelease ==
    \A t \in LockThread : At(t, "wait") =>
        \/ gl.event
        \/ gl.lock_pending /\ (gl.gbl_sts \/ (facs.owner = Firmware /\ facs.pending))

\* What a thread needs to go on, from wherever it is (a wait for a native mutex may time
\* out, and a driver may always call uacpi_release_global_lock).
CanGoOn(t) ==
    \/ lpc[t] \in {"counted", "mutex", "try", "failed", "acquired", "driver"}
    \/ At(t, "out") /\ Free \in {rw.read_mutex, rw.write_mutex}
    \/ lpc[t] \in {"first", "relock"} /\ rw.write_mutex = Free
    \/ At(t, "reading") /\ rw.read_mutex = Free
    \/ At(t, "writing") /\ (aml.owner = t => aml.depth > 0)
    \/ At(t, "wait") /\ gl.event

\* Somebody can always go on: waiting for a mutex under the namespace lock would
\* stop the thread that must release it.
NotAllStuck == (\E t \in LockThread : CanGoOn(t)) \/ gl.gbl_sts \/ facs.owner = Firmware

\* The locks of mutex.c and the use that the interpreter makes of them: writers are alone,
\* no release of the firmware is slept through, and somebody can always go on.
LocksAreSound == WriterIsAlone /\ NoLostRelease /\ NotAllStuck
=============================================================================
