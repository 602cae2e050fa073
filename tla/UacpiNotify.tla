----------------------------- MODULE UacpiNotify -----------------------------
(***************************************************************************)
(* Notifications of uACPI (extra/uacpi/notify.c): lists of handlers at a   *)
(* device and at the root, work items that walk them without a lock, and   *)
(* drivers that install and remove handlers meanwhile.                     *)
(***************************************************************************)
EXTENDS Integers, Sequences, FiniteSets, SequencesExt

CONSTANTS NotifyHandler,   \* callbacks
          NotifyDriver,    \* threads that install and remove handlers
          MaxNotify,       \* bound: notifications waiting
          HandlersNotify   \* TRUE: a handler may run AML that notifies

ASSUME NotifyAssumption == NotifyHandler # {}

Lists == {"device", "root"}
NoCall == [op |-> "none", list |-> "device", h |-> CHOOSE h \in NotifyHandler : TRUE]
NoDo == [list |-> "none", next |-> <<>>]

VARIABLES notifyHead,   \* the handlers linked in each list, the newest first
          notifyMutex,  \* notify_mutex: its owner, "free" if none
          queued,       \* work items scheduled and not started
          doing,        \* do_notify: the handlers it still has to call
          call          \* what each driver is in the middle of

notifyVars == <<notifyHead, notifyMutex, queued, doing, call>>

\* uacpi_notify_all by the interpreter: refused without a handler; the context
\* holds the node and its object.
uacpi_notify_all ==
    /\ notifyMutex = "free" /\ queued < MaxNotify
    /\ \E l \in Lists : notifyHead[l] # <<>>
    /\ queued' = queued + 1
    /\ UNCHANGED <<notifyHead, notifyMutex, doing, call>>

\* do_notify starts with the handlers of the node.  A list is walked by next
\* pointers: what is linked behind a handler stays linked while it is not unlinked.
DoNotifyStarts ==
    /\ queued > 0 /\ doing.list = "none"
    /\ queued' = queued - 1
    /\ doing' = [list |-> "device", next |-> notifyHead["device"]]
    /\ UNCHANGED <<notifyHead, notifyMutex, call>>

DoNotifyCalls ==
    /\ doing.list \in Lists /\ doing.next # <<>>
    /\ (HandlersNotify => notifyMutex = "free")
    /\ doing' = [doing EXCEPT !.next = Tail(@)]
    /\ UNCHANGED <<notifyHead, notifyMutex, queued, call>>

DoNotifyEnds ==
    /\ doing.list \in Lists /\ doing.next = <<>>
    /\ doing' = IF doing.list = "device" THEN [list |-> "root", next |-> notifyHead["root"]]
                ELSE NoDo
    /\ UNCHANGED <<notifyHead, notifyMutex, queued, call>>

\* uacpi_install_notify_handler and uacpi_uninstall_notify_handler take the mutex,
\* which keeps notifications out, and wait for the scheduled ones.
BeginChange(d, op, l, h) ==
    /\ call[d].op = "none" /\ notifyMutex = "free"
    /\ notifyMutex' = d
    /\ call' = [call EXCEPT ![d] = [op |-> op, list |-> l, h |-> h]]
    /\ UNCHANGED <<notifyHead, queued, doing>>

\* A slip: only what has not started is waited for.
WorkIsScheduled == queued = 0

uacpi_kernel_wait_for_work_completion == queued = 0 /\ doing.list = "none"

\* Where a handler is linked.
handler_container(list, h) == CHOOSE i \in DOMAIN list : list[i] = h

Change(d) ==
    LET c == call[d]
        list == notifyHead[c.list]
        linked == Contains(list, c.h)
        new == IF c.op = "remove" THEN IF linked THEN RemoveAt(list, handler_container(list, c.h))
                                       ELSE list
               ELSE IF linked THEN list ELSE <<c.h>> \o list
    IN  /\ c.op \in {"install", "remove"} /\ uacpi_kernel_wait_for_work_completion
        /\ notifyHead' = [notifyHead EXCEPT ![c.list] = new]
        /\ notifyMutex' = "free"
        /\ call' = [call EXCEPT ![d] = NoCall]
        /\ UNCHANGED <<queued, doing>>

NotifyInit ==
    /\ notifyHead = [l \in Lists |-> <<>>] /\ notifyMutex = "free"
    /\ queued = 0 /\ doing = NoDo /\ call = [d \in NotifyDriver |-> NoCall]

NotifyNext ==
    \/ uacpi_notify_all \/ DoNotifyStarts \/ DoNotifyCalls \/ DoNotifyEnds
    \/ \E d \in NotifyDriver, l \in Lists, h \in NotifyHandler :
          BeginChange(d, "install", l, h) \/ BeginChange(d, "remove", l, h)
    \/ \E d \in NotifyDriver : Change(d)

NotifyTypeOK ==
    /\ notifyMutex \in NotifyDriver \cup {"free"} /\ queued \in 0 .. MaxNotify
    /\ doing.list \in Lists \cup {"none"}

\* The handlers that a running notification has still to call are linked in its
\* list: none was removed, and its memory freed, under the walk.
NotifiesLiveHandlers ==
    doing.list \in Lists => Range(doing.next) \subseteq Range(notifyHead[doing.list])
=============================================================================
