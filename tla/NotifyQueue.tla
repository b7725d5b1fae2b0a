---------------------------- MODULE NotifyQueue ----------------------------
(***************************************************************************)
(* Queue notifications (loopback_driver0.c).  vm_notify appends the        *)
(* queue's index to notify_list and wakes wq_notify; the work item          *)
(* async_work_handler takes the indices one by one and writes each to      *)
(* QUEUE_NOTIFY through write_adapter.  That call is the procedure call of *)
(* AdapterCall, made here by the one thread Worker; valid_eventfd is false *)
(* when the adapter is "gone".                                             *)
(***************************************************************************)
EXTENDS AdapterCall, FiniteSets, Sequences

CONSTANTS Drivers,      \* threads that notify virtqueues
          Queues,       \* virtqueue indices
          Worker,       \* the thread of notify_workqueue
          Nobody,       \* "notify_q_lock is free"
          QueueNotify,  \* VIRTIO_MMIO_QUEUE_NOTIFY
          MaxNotifies   \* bound on the notifications of a behaviour

ASSUME NotifyAssumption ==
    /\ Threads = {Worker} /\ Nobody \notin Drivers \cup {Worker}
    /\ Queues \subseteq Words /\ QueueNotify \in Fns /\ {0} \subseteq Words \cap Fns
    /\ MaxNotifies \in Nat

VARIABLES qlock,        \* whether the worker holds notify_q_lock
          notify_list,  \* queue indices not yet taken
          dpc, arg,     \* where each driver thread is in vm_notify, its queue
          wpc, cur,     \* where the worker is, the index it took
          posted,       \* history: every index appended
          kicked,       \* history: every index the adapter answered
          unserved      \* history: indices whose write returned unanswered

dvars == <<dpc, arg>>
wvars == <<wpc, cur>>
history == <<posted, kicked, unserved>>
vars == <<cvars, qlock, notify_list, dvars, wvars, history>>

WorkerPcs == {"off", "lock", "check", "doze", "asleep", "take", "write", "call",
              "back", "end", "oops"}

TypeOK ==
    /\ CTypeOK
    /\ qlock \in {Worker, Nobody}
    /\ notify_list \in Seq(Queues)
    /\ dpc \in [Drivers -> {"idle", "lock", "wake"}]
    /\ arg \in [Drivers -> Queues]
    /\ wpc \in WorkerPcs
    /\ cur \in Queues
    /\ {posted, kicked, unserved} \subseteq Seq(Words)

Valid == adapter # "gone"

Notification(q) == [fn |-> QueueNotify, data |-> q, read |-> FALSE]

Init ==
    /\ CInit
    /\ qlock = Nobody
    /\ notify_list = <<>>
    /\ dpc = [d \in Drivers |-> "idle"]
    /\ arg \in [Drivers -> Queues]
    /\ wpc = "off"
    /\ cur \in Queues
    /\ posted = <<>> /\ kicked = <<>> /\ unserved = <<>>

-----------------------------------------------------------------------------
(* vm_notify.  The list is touched only under notify_q_lock and the section *)
(* does not wait, so locking, appending and unlocking are one step.         *)

Notify(d, q) ==
    /\ wpc # "off"
    /\ dpc[d] = "idle"
    /\ Len(posted) + Cardinality({e \in Drivers : dpc[e] = "lock"}) < MaxNotifies
    /\ dpc' = [dpc EXCEPT ![d] = "lock"]
    /\ arg' = [arg EXCEPT ![d] = q]
    /\ UNCHANGED <<cvars, qlock, notify_list, wvars, history>>

EnqueueFront(d) ==
    /\ dpc[d] = "lock"
    /\ qlock = Nobody
    /\ notify_list' = <<arg[d]>> \o notify_list
    /\ posted' = Append(posted, arg[d])
    /\ dpc' = [dpc EXCEPT ![d] = "wake"]
    /\ UNCHANGED <<cvars, qlock, arg, wvars, kicked, unserved>>

Enqueue(d) ==
    /\ dpc[d] = "lock"
    /\ qlock = Nobody
    /\ notify_list' = Append(notify_list, arg[d])
    /\ posted' = Append(posted, arg[d])
    /\ dpc' = [dpc EXCEPT ![d] = "wake"]
    /\ UNCHANGED <<cvars, qlock, arg, wvars, kicked, unserved>>

Wake(d) ==
    /\ dpc[d] = "wake"
    /\ dpc' = [dpc EXCEPT ![d] = "idle"]
    /\ wpc' = IF wpc = "asleep" THEN "lock" ELSE wpc
    /\ UNCHANGED <<cvars, qlock, notify_list, arg, cur, history>>

-----------------------------------------------------------------------------
(* async_work_handler.                                                     *)

\* START_LOOPBACK queues the work item.
StartWorker ==
    /\ adapter = "serving"
    /\ wpc = "off"
    /\ wpc' = "lock"
    /\ UNCHANGED <<cvars, qlock, notify_list, dvars, cur, history>>

Lock ==
    /\ wpc = "lock"
    /\ qlock = Nobody
    /\ qlock' = Worker
    /\ wpc' = "check"
    /\ UNCHANGED <<cvars, notify_list, dvars, cur, history>>

\* Mutant: the worker sleeps with notify_q_lock in its hands.
GoToSleepLocked ==
    /\ wpc = "check"
    /\ Valid /\ notify_list = <<>>
    /\ wpc' = "doze"
    /\ UNCHANGED <<cvars, qlock, notify_list, dvars, cur, history>>

\* while (valid_eventfd && list_empty(&notify_list)) { unlock; wait; lock }
GoToSleep ==
    /\ wpc = "check"
    /\ Valid /\ notify_list = <<>>
    /\ qlock' = Nobody
    /\ wpc' = "doze"
    /\ UNCHANGED <<cvars, notify_list, dvars, cur, history>>

Go ==
    /\ wpc = "check"
    /\ ~Valid \/ notify_list # <<>>
    /\ wpc' = "take"
    /\ UNCHANGED <<cvars, qlock, notify_list, dvars, cur, history>>

\* wait_event_timeout tests its condition before it sleeps.
Doze ==
    /\ wpc = "doze"
    /\ wpc' = IF notify_list = <<>> THEN "asleep" ELSE "lock"
    /\ UNCHANGED <<cvars, qlock, notify_list, dvars, cur, history>>

\* Mutant: an if in place of the inner while, the list is not looked at again.
TimeoutUnchecked ==
    /\ wpc = "asleep"
    /\ qlock = Nobody /\ qlock' = Worker
    /\ wpc' = "take"
    /\ UNCHANGED <<cvars, notify_list, dvars, cur, history>>

Timeout ==
    /\ wpc = "asleep"
    /\ wpc' = "lock"
    /\ UNCHANGED <<cvars, qlock, notify_list, dvars, cur, history>>

\* list_first_entry, list_del, kfree, mutex_unlock.
TakeFirst ==
    /\ wpc = "take"
    /\ notify_list # <<>>
    /\ cur' = Head(notify_list)
    /\ notify_list' = Tail(notify_list)
    /\ qlock' = Nobody
    /\ wpc' = "write"
    /\ UNCHANGED <<cvars, dvars, history>>

\* The same lines on an empty list: list_first_entry returns the list head
\* itself, list_del poisons it and kfree is given a static address.  The task
\* dies with notify_q_lock held.
TakeEmpty ==
    /\ wpc = "take"
    /\ notify_list = <<>>
    /\ wpc' = "oops"
    /\ UNCHANGED <<cvars, qlock, notify_list, dvars, cur, history>>

Write ==
    /\ wpc = "write"
    /\ Call(Worker, Notification(cur))
    /\ wpc' = "call"
    /\ UNCHANGED <<qlock, notify_list, dvars, cur, history>>

Written ==
    /\ wpc = "call"
    /\ CReturn(Worker)
    /\ unserved' = IF st[Worker] = "answered" THEN unserved
                                              ELSE Append(unserved, cur)
    /\ wpc' = "back"
    /\ UNCHANGED <<qlock, notify_list, dvars, cur, posted, kicked>>

\* Mutants: the worker never stops; the test of valid_eventfd is inverted.
BackNoBreak ==
    /\ wpc = "back"
    /\ qlock = Nobody
    /\ wpc' = "check" /\ qlock' = Worker
    /\ UNCHANGED <<cvars, notify_list, dvars, cur, history>>

BackInverted ==
    /\ wpc = "back"
    /\ qlock = Nobody
    /\ \/ ~Valid /\ wpc' = "check" /\ qlock' = Worker
       \/ Valid /\ wpc' = "end" /\ UNCHANGED qlock
    /\ UNCHANGED <<cvars, notify_list, dvars, cur, history>>

\* lock; if (!valid_eventfd) { unlock; break; }
Back ==
    /\ wpc = "back"
    /\ qlock = Nobody
    /\ \/ Valid /\ wpc' = "check" /\ qlock' = Worker
       \/ ~Valid /\ wpc' = "end" /\ UNCHANGED qlock
    /\ UNCHANGED <<cvars, notify_list, dvars, cur, history>>

WorkerStep ==
    \/ Lock \/ GoToSleep \/ Go \/ Doze \/ Timeout
    \/ TakeFirst \/ TakeEmpty \/ Write \/ Written \/ Back

-----------------------------------------------------------------------------
(* The adapter.                                                            *)

others == <<qlock, notify_list, dvars, wvars>>

AdapterServes ==
    \/ (CTake(Worker) \/ \E w \in Words : CServe(Worker, w)) /\ UNCHANGED <<others, history>>
    \/ /\ CAnswer(Worker)
       /\ kicked' = Append(kicked, handled.data)
       /\ UNCHANGED <<others, posted, unserved>>

AdapterLives == (Arrive \/ Depart \/ Disappear) /\ UNCHANGED <<others, history>>

Next ==
    \/ \E d \in Drivers : (\E q \in Queues : Notify(d, q)) \/ Enqueue(d) \/ Wake(d)
    \/ StartWorker \/ WorkerStep \/ AdapterServes \/ AdapterLives

Spec == Init /\ [][Next]_vars

(* Threads run and timers fire; an adapter that is there serves; a release *)
(* that has begun ends.  The adapter need neither come nor leave.           *)
FairSpec ==
    /\ Spec
    /\ \A d \in Drivers : SF_vars(Enqueue(d)) /\ WF_vars(Wake(d))
    /\ WF_vars(WorkerStep) /\ SF_vars(Lock) /\ SF_vars(Back)
    /\ WF_vars(AdapterServes)
    /\ WF_vars(Disappear /\ UNCHANGED <<others, history>>)

-----------------------------------------------------------------------------
(* Properties.                                                             *)

\* The index the worker has taken from the list and not yet seen handled.
InHand ==
    IF wpc = "write" \/ (wpc = "call" /\ st[Worker] # "answered") THEN <<cur>> ELSE <<>>

\* No notification is lost, doubled or overtaken: what vm_notify appended is,
\* in order, what the adapter was told, what it went away without being told,
\* what the worker holds and what waits in notify_list.
Fifo == posted = kicked \o unserved \o InHand \o notify_list

\* The worker reads the head of an empty list only after the adapter has
\* closed the device, whatever wakes it and whoever appends meanwhile.
EmptyTakeOnlyAfterClose == wpc = "oops" => ~Valid

\* After the adapter is gone the worker ends: at most one write is still made
\* into the void.
StopsAfterClose == Len(unserved) <= 1

\* Every notification reaches an adapter that stays.
Delivered ==
    \A n \in 1..MaxNotifies :
        Len(posted) >= n ~> Len(kicked) >= n \/ adapter # "serving"

\* vm_notify returns, unless the worker died with notify_q_lock in its hands.
NotifyReturns ==
    \A d \in Drivers : dpc[d] = "lock" ~> dpc[d] = "idle" \/ wpc = "oops"
=============================================================================
