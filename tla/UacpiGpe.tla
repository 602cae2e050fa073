------------------------------ MODULE UacpiGpe ------------------------------
(***************************************************************************)
(* The general purpose events of uACPI (extra/uacpi/event.c): the four     *)
(* software masks of a GPE register, the enable and status registers of    *)
(* the chipset, the handlers, the reference counts, the dispatch from the  *)
(* SCI and the deferred work that runs AML handlers and re-enables the     *)
(* event.  Three actors interleave: the thread that holds g_event_lock,    *)
(* the interrupt, and the worker that runs scheduled work.  On the one     *)
(* processor of this kernel, neither of the others runs during the         *)
(* interrupt.  A loop over the events is one step per event.               *)
(*                                                                         *)
(* The GPEs modelled share one register (EVENTS_PER_GPE_REGISTER of them   *)
(* do), so a mask is a set of GPEs.  gpe is one record because every       *)
(* function below takes the state of a register and returns the next one.  *)
(***************************************************************************)
EXTENDS Integers, Sequences, FiniteSets

CONSTANTS Gpe,         \* the GPEs of the register, as numbers
          Device,      \* wake devices that may ask for implicit notification
          AmlGpe,      \* the GPEs with a _Lxx / _Exx method in the namespace
          DriverGpe,   \* bound: the GPEs native drivers handle, mask and suspend
          MaxUsers,    \* the limit of num_users, 0xFF in the code
          MaxWork,     \* bound: no event is dispatched while this much is queued
          Disciplined  \* drivers resume only what is enabled

ASSUME GpeAssumption ==
    /\ Gpe \subseteq Nat /\ DriverGpe \subseteq Gpe
    /\ MaxUsers \in Nat /\ MaxWork \in Nat /\ Disciplined \in BOOLEAN

VARIABLES gpe,     \* the register and its events
          work,    \* the host's queue of scheduled work
          worker,  \* what the worker is doing
          api,     \* the call that holds g_event_lock
          host,    \* how the host implements schedule_work
          scanning \* the interrupt: what the loop of detect_gpes has left

gpeVars == <<gpe, work, worker, api, host, scanning>>

HandlerType == {"NONE", "AML_HANDLER", "NATIVE_HANDLER", "NATIVE_HANDLER_RAW",
                "IMPLICIT_NOTIFY"}

Triggering == {"LEVEL", "EDGE"}

NoPrevious == [type |-> "NONE", triggering |-> "LEVEL", enabled |-> FALSE]

\* struct gp_event; previous is what gpe_native_handler preserves.
GpEvent == [users : 0 .. MaxUsers, type : HandlerType, triggering : Triggering,
            wake : BOOLEAN, block : BOOLEAN, devices : SUBSET Device,
            previous : [type : HandlerType, triggering : Triggering,
                        enabled : BOOLEAN]]

Idle == [op |-> "none", g |-> 0, pc |-> "idle", type |-> "NONE",
         triggering |-> "LEVEL", device |-> {}, masked |-> FALSE,
         left |-> {}, poll |-> FALSE]

IdleWorker == [pc |-> "idle", g |-> 0, set |-> FALSE]

IsNative(e) == e.type \in {"NATIVE_HANDLER", "NATIVE_HANDLER_RAW"}
IsDeferred(e) == e.type \in {"AML_HANDLER", "IMPLICIT_NOTIFY"}

(***************************************************************************)
(* The register.                                                           *)
(***************************************************************************)

\* ENABLED_CONDITIONALLY is ENABLED for an event of the current mask; a masked
\* event can only be disabled.
set_gpe_state(s, g, state) ==
    IF \/ state # "DISABLED" /\ g \in s.masked
       \/ state = "ENABLED_CONDITIONALLY" /\ g \notin s.current
    THEN s
    ELSE [s EXCEPT !.enable = IF state = "DISABLED" THEN @ \ {g} ELSE @ \cup {g}]

clear_gpe(s, g) == [s EXCEPT !.status = @ \ {g}]

\* As far as the test of the masks: the worker may lose the CPU after it.
restore_begin(s, g) ==
    IF s.ev[g].triggering = "LEVEL" THEN clear_gpe(s, g) ELSE s

restore_gpe(s, g) ==
    [set_gpe_state(restore_begin(s, g), g, "ENABLED_CONDITIONALLY")
        EXCEPT !.ev[g].block = FALSE]

gp_event_toggle_masks(s, g, set_on) ==
    LET r == IF set_on THEN s.runtime \cup {g} ELSE s.runtime \ {g}
    IN  [s EXCEPT !.runtime = r, !.current = r]

gpe_remove_user(s, g) ==
    IF s.ev[g].users = 0 THEN s
    ELSE LET t == [s EXCEPT !.ev[g].users = @ - 1]
         IN  IF t.ev[g].users # 0 THEN t
             ELSE set_gpe_state(gp_event_toggle_masks(t, g, FALSE), g, "DISABLED")

gpe_add_user(s, g, clear) ==
    IF s.ev[g].users = MaxUsers THEN s
    ELSE LET t == [s EXCEPT !.ev[g].users = @ + 1]
             c == IF clear THEN clear_gpe(t, g) ELSE t
         IN  IF t.ev[g].users # 1 THEN t
             ELSE set_gpe_state(gp_event_toggle_masks(c, g, TRUE), g, "ENABLED")

gpe_needs_polling(e) == e.users # 0 /\ e.triggering = "EDGE"

\* The unmask half of gpe_mask_unmask.
gpe_unmask(s, g) ==
    IF g \notin s.masked THEN s
    ELSE LET t == [s EXCEPT !.masked = @ \ {g}]
         IN  IF ~t.ev[g].block /\ t.ev[g].users # 0
             THEN set_gpe_state(t, g, "ENABLED_CONDITIONALLY")
             ELSE t

\* A slip: the events that are enabled now are taken for those that should be.
gpe_block_apply_current(s, action) ==
    LET value == CASE action = "DISABLE_ALL" -> {}
                   [] action = "ENABLE_ALL_FOR_RUNTIME" -> s.current \ s.masked
                   [] action = "ENABLE_ALL_FOR_WAKE" -> s.wakes
                   [] OTHER -> s.current
    IN  IF action = "CLEAR_ALL" THEN [s EXCEPT !.status = {}]
        ELSE [s EXCEPT !.current = value, !.enable = value]

\* gpe_block_apply_action on the register.
gpe_block_apply_action(s, action) ==
    LET value == CASE action = "DISABLE_ALL" -> {}
                   [] action = "ENABLE_ALL_FOR_RUNTIME" -> s.runtime \ s.masked
                   [] action = "ENABLE_ALL_FOR_WAKE" -> s.wakes
                   [] OTHER -> s.current
    IN  IF action = "CLEAR_ALL" THEN [s EXCEPT !.status = {}]
        ELSE [s EXCEPT !.current = value, !.enable = value]

(***************************************************************************)
(* Dispatch.  The results are pairs of the register and the work queued.   *)
(* uacpi_kernel_schedule_work of this kernel returns UNIMPLEMENTED, which  *)
(* leaves the event disabled; a host that implements the hook queues it or *)
(* fails to.                                                               *)
(***************************************************************************)
uacpi_kernel_schedule_work(p, w) ==
    {p} \cup IF host = "queues" THEN {[p EXCEPT !.work = Append(@, w)]} ELSE {}

dispatch_gpe(p, g) ==
    LET e == p.s.ev[g]
        d == [set_gpe_state(p.s, g, "DISABLED") EXCEPT !.ev[g].block = TRUE]
        c == IF e.triggering = "EDGE" THEN clear_gpe(d, g) ELSE d
    IN  CASE e.type = "NATIVE_HANDLER_RAW" -> {p}
          [] e.type = "NATIVE_HANDLER" ->
                {[p EXCEPT !.s = c], [p EXCEPT !.s = restore_gpe(c, g)]}
          [] IsDeferred(e) ->
                uacpi_kernel_schedule_work([p EXCEPT !.s = c], <<"run", g>>)
          [] OTHER -> {[p EXCEPT !.s = c]}

\* Loops go through the events in the order of their bits.
IsFirst(g, left) == g \in left /\ \A h \in left : g <= h

\* What detect_gpes dispatches, as read before its loop.
Detected == IF gpe.runtime = {} /\ gpe.wakes = {} THEN {}
            ELSE gpe.status \cap gpe.enable

maybe_dispatch_gpe(p, g) == IF g \in p.s.status THEN dispatch_gpe(p, g) ELSE {p}

Pair == [s |-> gpe, work |-> work]

Becomes(P) == \E p \in P : gpe' = p.s /\ work' = p.work

\* One iteration of detect_gpes in the interrupt, which dispatches the events it
\* read before the loop even if their bits change in the meantime.
Dispatch(left) ==
    /\ \E g \in left :
        /\ IsFirst(g, left)
        /\ Becomes(dispatch_gpe(Pair, g))
        /\ scanning' = left \ {g}
    /\ UNCHANGED <<worker, api, host>>

\* The SCI: handle_sci -> handle_gpes -> detect_gpes.
handle_gpes ==
    /\ scanning = {} /\ api.pc # "asleep" /\ Len(work) < MaxWork
    /\ Dispatch(Detected)

detect_gpes == Dispatch(scanning)

\* The chipset raises an event whether or not it is enabled.
RaiseGpe(g) ==
    /\ g \notin gpe.status
    /\ gpe' = [gpe EXCEPT !.status = @ \cup {g}]
    /\ UNCHANGED <<work, worker, api, host, scanning>>

(***************************************************************************)
(* The worker.                                                             *)
(***************************************************************************)

\* async_run_gpe_handler: the method or the notifications run, and the restore
\* is queued behind the notifications they caused, or done here if that fails.
async_run_gpe_handler ==
    /\ worker.pc = "idle" /\ work # <<>> /\ Head(work)[1] = "run"
    /\ work' = Append(Tail(work), <<"restore", Head(work)[2]>>)
    /\ UNCHANGED <<gpe, worker, api, host, scanning>>

async_restore_gpe ==
    /\ worker.pc = "idle" /\ work # <<>>
    /\ LET g == Head(work)[2]
           t == restore_begin(gpe, g)
       IN  /\ gpe' = t
           /\ worker' = [pc |-> "restoring", g |-> g,
                         set |-> set_gpe_state(t, g, "ENABLED_CONDITIONALLY") # t]
    /\ work' = Tail(work)
    /\ UNCHANGED <<api, host, scanning>>

\* A slip: the event is enabled and stays blocked.
async_restore_blocked ==
    /\ worker.pc = "restoring"
    /\ gpe' = [gpe EXCEPT !.enable = IF worker.set THEN @ \cup {worker.g} ELSE @]
    /\ worker' = IdleWorker
    /\ UNCHANGED <<work, api, host, scanning>>

async_restore_done ==
    /\ worker.pc = "restoring"
    /\ gpe' = [gpe EXCEPT !.enable = IF worker.set THEN @ \cup {worker.g} ELSE @,
                          !.ev[worker.g].block = FALSE]
    /\ worker' = IdleWorker
    /\ UNCHANGED <<work, api, host, scanning>>

(***************************************************************************)
(* Calls.  Each finds its event and holds g_event_lock; the ones that      *)
(* change handlers mask the event, wait for in-flight work and interrupts, *)
(* disable it, change it, and unmask it.                                   *)
(***************************************************************************)
Call == api.pc = "idle" /\ scanning = {}

Register(s) == gpe' = s /\ UNCHANGED <<work, worker, api, host, scanning>>

wait_for_work_completion == host = "queues" => work = <<>> /\ worker.pc = "idle"

\* Step 1 of gpe_mask_unmask(TRUE), reached through gpe_mask_safe or directly.
BeginMasked(op, g, type, triggering, device) ==
    LET safe == op = "mask" \/ g \in gpe.current
    IN  /\ Call
        /\ api' = [Idle EXCEPT
                     !.op = op, !.g = g, !.type = type, !.triggering = triggering,
                     !.device = device, !.masked = safe,
                     !.pc = IF safe /\ g \notin gpe.masked THEN "masking" ELSE "modify"]
        /\ gpe' = IF safe THEN [gpe EXCEPT !.masked = @ \cup {g}] ELSE gpe
        /\ UNCHANGED <<work, worker, host, scanning>>

do_install_gpe_handler(g, type, triggering) ==
    /\ ~IsNative(gpe.ev[g])
    /\ BeginMasked("install", g, type, triggering, {})

uacpi_uninstall_gpe_handler(g) ==
    /\ IsNative(gpe.ev[g])
    /\ BeginMasked("uninstall", g, "NONE", "LEVEL", {})

uacpi_setup_gpe_for_wake(g, device) ==
    /\ BeginMasked("wake", g, "NONE", "LEVEL", device)

uacpi_mask_gpe(g) ==
    /\ g \notin gpe.masked
    /\ BeginMasked("mask", g, "NONE", "LEVEL", {})

\* Steps 2 and 3 of gpe_mask_unmask(TRUE), and a slip that does not wait.
DisableAtOnce ==
    /\ gpe' = set_gpe_state(gpe, api.g, "DISABLED")
    /\ api' = [api EXCEPT !.pc = "modify"]
    /\ UNCHANGED <<work, worker, host, scanning>>

DisableWhenQuiet ==
    /\ wait_for_work_completion
    /\ gpe' = set_gpe_state(gpe, api.g, "DISABLED")
    /\ api' = [api EXCEPT !.pc = "modify"]
    /\ UNCHANGED <<work, worker, host, scanning>>

gpe_mask_unmask == api.pc = "masking" /\ DisableWhenQuiet

\* The handler of an AML or implicit event stops using it: the native handler
\* remembers whether it was enabled.
Installed(s, a) ==
    LET e == s.ev[a.g]
        enabled == IsDeferred(e) /\ e.users # 0
        t == IF enabled THEN gpe_remove_user(s, a.g) ELSE s
    IN  [t EXCEPT !.ev[a.g].previous = [type |-> e.type, enabled |-> enabled,
                                        triggering |-> e.triggering],
                  !.ev[a.g].type = a.type, !.ev[a.g].triggering = a.triggering]

Uninstalled(s, a) ==
    LET p == s.ev[a.g].previous
        t == [s EXCEPT !.ev[a.g].type = p.type,
                       !.ev[a.g].triggering = p.triggering,
                       !.ev[a.g].previous = NoPrevious]
    IN  IF IsDeferred(t.ev[a.g]) /\ p.enabled
        THEN gpe_add_user(t, a.g, FALSE) ELSE t

WakeConfigured(s, a) ==
    LET e == s.ev[a.g]
        i == IF e.type = "NONE"
             THEN [s EXCEPT !.ev[a.g].type = "IMPLICIT_NOTIFY",
                            !.ev[a.g].triggering = "LEVEL"]
             ELSE IF e.type = "AML_HANDLER" THEN gpe_remove_user(s, a.g) ELSE s
        n == IF i.ev[a.g].type = "IMPLICIT_NOTIFY"
             THEN [i EXCEPT !.ev[a.g].devices = @ \cup a.device] ELSE i
    IN  IF a.device = {} THEN [s EXCEPT !.ev[a.g].wake = TRUE]
        ELSE IF e.type = "IMPLICIT_NOTIFY" /\ a.device \subseteq e.devices THEN s
        ELSE [n EXCEPT !.ev[a.g].wake = TRUE]

\* The change, the unmask, and what is left of the call.
FinishMasked ==
    /\ api.pc = "modify"
    /\ LET t == CASE api.op = "install" -> Installed(gpe, api)
                  [] api.op = "uninstall" -> Uninstalled(gpe, api)
                  [] api.op = "wake" -> WakeConfigured(gpe, api)
                  [] OTHER -> gpe
       IN  gpe' = IF api.masked /\ api.op # "mask" THEN gpe_unmask(t, api.g) ELSE t
    /\ api' = IF api.op = "uninstall" /\ gpe_needs_polling(gpe'.ev[api.g])
              THEN [api EXCEPT !.pc = "poll"] ELSE Idle
    /\ UNCHANGED <<work, worker, host, scanning>>

\* The poll of an edge triggered event that may have fired while disabled.
PollGpe ==
    /\ api.pc = "poll" /\ Len(work) < MaxWork
    /\ Becomes(maybe_dispatch_gpe(Pair, api.g))
    /\ api' = Idle
    /\ UNCHANGED <<worker, host, scanning>>

uacpi_unmask_gpe(g) ==
    /\ Call
    /\ gpe' = gpe_unmask(gpe, g)
    /\ UNCHANGED <<work, worker, api, host, scanning>>

uacpi_enable_gpe(g) ==
    /\ Call /\ gpe.ev[g].type # "NONE" /\ gpe.ev[g].users < MaxUsers
    /\ gpe' = gpe_add_user(gpe, g, TRUE)
    /\ api' = IF gpe_needs_polling(gpe'.ev[g])
              THEN [Idle EXCEPT !.op = "enable", !.g = g, !.pc = "poll"] ELSE Idle
    /\ UNCHANGED <<work, worker, host, scanning>>

uacpi_disable_gpe(g) == Call /\ Register(gpe_remove_user(gpe, g))

uacpi_clear_gpe(g) == Call /\ Register(clear_gpe(gpe, g))

uacpi_suspend_gpe(g) ==
    /\ Call
    /\ Register(set_gpe_state([gpe EXCEPT !.ev[g].block = TRUE], g, "DISABLED"))

uacpi_resume_gpe(g) ==
    /\ Call /\ (Disciplined => g \in gpe.current)
    /\ Register(set_gpe_state([gpe EXCEPT !.ev[g].block = FALSE], g, "ENABLED"))

uacpi_finish_handling_gpe(g) == Call /\ Register(restore_gpe(gpe, g))

\* "wake_mask &= mask": disabling one GPE for wake keeps it and drops the others.
gpe_enable_disable_for_wake(g, enabled) ==
    /\ Call /\ gpe.ev[g].wake
    /\ Register([gpe EXCEPT !.wakes = IF enabled THEN @ \cup {g} ELSE @ \cap {g}])

\* uacpi_finalize_gpe_initialization, once: every AML event not set up for wake
\* gets its first user; if one of them is edge triggered, all are polled.
uacpi_finalize_gpe_initialization ==
    /\ Call /\ ~gpe.finalized
    /\ gpe' = [gpe EXCEPT !.finalized = TRUE]
    /\ api' = [Idle EXCEPT !.op = "finalize", !.pc = "finalize", !.left = Gpe]
    /\ UNCHANGED <<work, worker, host, scanning>>

\* One event of the loop.
do_initialize_gpe_block ==
    /\ api.pc = "finalize"
    /\ \E g \in api.left :
        LET added == /\ ~gpe.ev[g].wake /\ gpe.ev[g].type = "AML_HANDLER"
                     /\ gpe.ev[g].users < MaxUsers
        IN  /\ IsFirst(g, api.left)
            /\ gpe' = IF added THEN gpe_add_user(gpe, g, FALSE) ELSE gpe
            /\ api' = [api EXCEPT !.left = @ \ {g},
                                  !.poll = @ \/ (added /\ gpe_needs_polling(gpe'.ev[g]))]
    /\ UNCHANGED <<work, worker, host, scanning>>

\* poll_blocks: the thread runs detect_gpes itself, and may be interrupted in it.
PollBlocks ==
    /\ api.pc = "finalize" /\ api.left = {}
    /\ api' = IF api.poll /\ Detected # {}
              THEN [api EXCEPT !.pc = "detect", !.left = Detected] ELSE Idle
    /\ UNCHANGED <<gpe, work, worker, host, scanning>>

PollDetected ==
    /\ api.pc = "detect"
    /\ \E g \in api.left :
        /\ IsFirst(g, api.left)
        /\ Becomes(dispatch_gpe(Pair, g))
        /\ api' = IF api.left = {g} THEN Idle ELSE [api EXCEPT !.left = @ \ {g}]
    /\ UNCHANGED <<worker, host, scanning>>

\* do_match_gpe_methods on the method of one GPE; a table loaded later brings it.
do_match_gpe_methods(g, triggering) ==
    /\ Call /\ g \in AmlGpe /\ gpe.ev[g].type \in {"NONE", "IMPLICIT_NOTIFY"}
    /\ Register([gpe EXCEPT !.ev[g].type = "AML_HANDLER", !.ev[g].devices = {},
                            !.ev[g].triggering = triggering])

\* What sleep.c does to the register around S1-S4; no call runs in between.
SleepGpes ==
    /\ Call
    /\ gpe' = gpe_block_apply_action(
                gpe_block_apply_action(gpe_block_apply_action(gpe, "DISABLE_ALL"),
                                       "CLEAR_ALL"), "ENABLE_ALL_FOR_WAKE")
    /\ api' = [Idle EXCEPT !.op = "sleep", !.pc = "asleep"]
    /\ UNCHANGED <<work, worker, host, scanning>>

WakeGpes ==
    /\ api.pc = "asleep" /\ scanning = {}
    /\ gpe' = gpe_block_apply_action(gpe_block_apply_action(gpe, "DISABLE_ALL"),
                                     "ENABLE_ALL_FOR_RUNTIME")
    /\ api' = Idle
    /\ UNCHANGED <<work, worker, host, scanning>>

GpeInit ==
    /\ gpe = [ev |-> [g \in Gpe |->
                 [users |-> 0, type |-> "NONE", triggering |-> "LEVEL", wake |-> FALSE,
                  block |-> FALSE, devices |-> {}, previous |-> NoPrevious]],
              runtime |-> {}, wakes |-> {}, masked |-> {}, current |-> {},
              enable |-> {}, status |-> {}, finalized |-> FALSE]
    /\ work = <<>> /\ worker = IdleWorker
    /\ api = Idle /\ scanning = {}
    /\ host \in {"queues", "refuses"}

Worker == /\ scanning = {}
          /\ async_run_gpe_handler \/ async_restore_gpe \/ async_restore_done

ApiRest == /\ scanning = {}
           /\ \/ gpe_mask_unmask \/ FinishMasked \/ PollGpe
              \/ do_initialize_gpe_block \/ PollBlocks \/ PollDetected

\* Calls on any GPE, and calls made only on the GPEs that native drivers own.
UserCall(g) ==
    \/ uacpi_enable_gpe(g)
    \/ uacpi_disable_gpe(g)
    \/ \E t \in Triggering : do_match_gpe_methods(g, t)

DriverCall(g) ==
    \/ \E type \in {"NATIVE_HANDLER", "NATIVE_HANDLER_RAW"}, t \in Triggering :
            do_install_gpe_handler(g, type, t)
    \/ uacpi_uninstall_gpe_handler(g)
    \/ \E d \in {{}} \cup {{x} : x \in Device} : uacpi_setup_gpe_for_wake(g, d)
    \/ uacpi_mask_gpe(g)
    \/ uacpi_unmask_gpe(g)
    \/ uacpi_clear_gpe(g)
    \/ uacpi_suspend_gpe(g)
    \/ uacpi_resume_gpe(g)
    \/ uacpi_finish_handling_gpe(g)
    \/ \E b \in BOOLEAN : gpe_enable_disable_for_wake(g, b)

GpeNext ==
    \/ handle_gpes
    \/ detect_gpes
    \/ Worker
    \/ ApiRest
    \/ uacpi_finalize_gpe_initialization
    \/ SleepGpes
    \/ WakeGpes
    \/ \E g \in Gpe : RaiseGpe(g) \/ UserCall(g)
    \/ \E g \in DriverGpe : DriverCall(g)

\* An interrupt ends.  The worker and the thread run when they can, and a storm of
\* interrupts, each of which stops them while it lasts, does not starve them.
\* Drivers and the chipset are free.
GpeFairness == WF_gpeVars(detect_gpes) /\ SF_gpeVars(Worker) /\ SF_gpeVars(ApiRest)

(***************************************************************************)
(* Properties.                                                             *)
(***************************************************************************)
GpeTypeOK ==
    /\ gpe.ev \in [Gpe -> GpEvent]
    /\ \A m \in {gpe.runtime, gpe.wakes, gpe.masked, gpe.current, gpe.enable,
                 gpe.status} : m \subseteq Gpe
    /\ work \in Seq({"run", "restore"} \X Gpe) /\ api.pc \in
            {"idle", "masking", "modify", "poll", "asleep", "finalize", "detect"}

\* A masked event is silent: once the call that masked it has disabled it, no
\* interrupt, no worker that read the masks before and no other call enables it
\* (gpe_mask_unmask waits for them before it disables the event).  Sleeping is
\* left out: the wake mask is written as it is.
MaskedIsSilent ==
    api.pc \notin {"masking", "asleep"} => gpe.masked \cap gpe.enable = {}

\* The comment of gpe_mask_safe: while a call replaces the handler of an event,
\* the event cannot interrupt.  Not so with a worker that tested the masks before
\* uacpi_disable_gpe, which does not wait for it, and writes the register after.
SwapIsQuiet == api.pc = "modify" => api.g \notin gpe.enable

\* In this kernel, where no worker exists, the test of current_mask is enough.
SwapIsQuietHere == host = "refuses" => SwapIsQuiet

\* runtime_mask is the set of events with users: what enable_all_runtime_gpes
\* restores after a sleep is what drivers have enabled, through every install,
\* uninstall and wake setup in between.
RuntimeIsCounted == gpe.runtime = {g \in Gpe : gpe.ev[g].users > 0}

\* Masking, replacing handlers and counting users agree (event.c, all calls on a GPE).
GpesAreSound == GpeTypeOK /\ MaskedIsSilent /\ SwapIsQuietHere /\ RuntimeIsCounted

\* An event whose AML handler was queued does not stay blocked.
BlockedIsRestored ==
    \A g \in Gpe : (\E i \in DOMAIN work : work[i] = <<"run", g>>)
                        ~> ~gpe.ev[g].block
=============================================================================
