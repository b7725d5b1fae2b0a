--------------------------- MODULE InterruptPath ---------------------------
(***************************************************************************)
(* Interrupts (loopback_driver0.c).  A thread of the adapter that has      *)
(* completed buffers calls the IRQ ioctl; the ioctl runs vm_interrupt in   *)
(* that thread: under interrupt_lock it reads INTERRUPT_STATUS and writes  *)
(* INTERRUPT_ACK - two procedure calls that the adapter has to serve while *)
(* this thread of it is inside the ioctl - and then calls back every       *)
(* virtqueue under vm_dev->lock.                                           *)
(***************************************************************************)
EXTENDS AdapterCall

CONSTANTS Irqers,   \* threads of the adapter that raise interrupts
          Drivers,  \* kernel threads that use the transport meanwhile
          Server,   \* the adapter's thread that serves the calls
          Nobody,   \* "the lock is free"
          Queues,   \* virtqueues of the device
          IntStatus, IntAck  \* VIRTIO_MMIO_INTERRUPT_STATUS and _ACK

ASSUME InterruptAssumption ==
    /\ Threads = Irqers \cup Drivers /\ Irqers \cap Drivers = {}
    /\ Nobody \notin Irqers /\ Server \notin Drivers
    /\ Words = 0..3 /\ {0, IntStatus, IntAck} \subseteq Fns
    /\ IntStatus # IntAck /\ 0 \notin {IntStatus, IntAck}

VARIABLES isr,      \* the device's interrupt status
          used,     \* queues with completed buffers the driver has not seen
          cfg,      \* the configuration changed and the driver has not seen it
          vqs,      \* the queues on vm_dev->virtqueues
          ilock,    \* holder of interrupt_lock
          vlock,    \* holder of vm_dev->lock across a callback loop
          ipc,      \* where each interrupting thread is
          status,   \* per interrupting thread: status in vm_interrupt
          todo,     \* per interrupting thread: queues not yet called back
          killed    \* the adapter process was killed or exits

device == <<isr, used, cfg>>
intr   == <<ilock, vlock, ipc, status, todo>>
vars   == <<cvars, device, vqs, intr, killed>>

\* VIRTIO_MMIO_INT_VRING and VIRTIO_MMIO_INT_CONFIG
Bits == {1, 2}
InWord(b, w) == (w \div b) % 2 = 1
AsWord(S) == (IF 1 \in S THEN 1 ELSE 0) + (IF 2 \in S THEN 2 ELSE 0)

InKernel == {"lock", "status", "statusWait", "ack", "ackWait", "config",
             "vring", "callback", "unlock"}

TypeOK ==
    /\ CTypeOK
    /\ isr \subseteq Bits /\ used \subseteq Queues /\ cfg \in BOOLEAN
    /\ vqs \subseteq Queues
    /\ ilock \in Irqers \cup {Nobody} /\ vlock \in Irqers \cup {Nobody}
    /\ ipc \in [Irqers -> {"user", "raise", "exited"} \cup InKernel]
    /\ status \in [Irqers -> Words]
    /\ todo \in [Irqers -> SUBSET Queues]
    /\ killed \in BOOLEAN

Init ==
    /\ CInit
    /\ isr = {} /\ used = {} /\ cfg = FALSE
    /\ vqs = {}
    /\ ilock = Nobody /\ vlock = Nobody
    /\ ipc = [i \in Irqers |-> "user"]
    /\ status = [i \in Irqers |-> 0]
    /\ todo = [i \in Irqers |-> {}]
    /\ killed = FALSE

Read(f)       == [fn |-> f, data |-> 0, read |-> TRUE]
WriteTo(f, w) == [fn |-> f, data |-> w, read |-> FALSE]
Goto(i, from, to) == ipc[i] = from /\ ipc' = [ipc EXCEPT ![i] = to]

-----------------------------------------------------------------------------
(* The device side of an interrupting thread.                              *)

Complete(i, q) ==
    /\ q \in vqs /\ adapter = "serving" /\ ~killed
    /\ Goto(i, "user", "raise")
    /\ used' = used \cup {q}
    /\ isr' = isr \cup {1}
    /\ UNCHANGED <<cvars, cfg, vqs, ilock, vlock, status, todo, killed>>

ChangeConfig(i) ==
    /\ adapter = "serving" /\ ~killed
    /\ Goto(i, "user", "raise")
    /\ cfg' = TRUE
    /\ isr' = isr \cup {2}
    /\ UNCHANGED <<cvars, used, vqs, ilock, vlock, status, todo, killed>>

-----------------------------------------------------------------------------
(* The IRQ ioctl: vm_interrupt in the calling thread.                      *)

Ioctl(i) ==
    /\ Goto(i, "raise", "lock")
    /\ UNCHANGED <<cvars, device, vqs, ilock, vlock, status, todo, killed>>

LockInterrupt(i) ==
    /\ ilock = Nobody
    /\ Goto(i, "lock", "status")
    /\ ilock' = i
    /\ UNCHANGED <<cvars, device, vqs, vlock, status, todo, killed>>

AskStatus(i) ==
    /\ Goto(i, "status", "statusWait")
    /\ Call(i, Read(IntStatus))
    /\ UNCHANGED <<device, vqs, ilock, vlock, status, todo, killed>>

GetStatus(i) ==
    /\ Goto(i, "statusWait", "ack")
    /\ CReturn(i)
    /\ status' = [status EXCEPT ![i] = word[i]]
    /\ UNCHANGED <<device, vqs, ilock, vlock, todo, killed>>

\* Mutant: every status bit is acknowledged, not only those that were read.
AckAll(i) ==
    /\ Goto(i, "ack", "ackWait")
    /\ Call(i, WriteTo(IntAck, 3))
    /\ UNCHANGED <<device, vqs, ilock, vlock, status, todo, killed>>

Ack(i) ==
    /\ Goto(i, "ack", "ackWait")
    /\ Call(i, WriteTo(IntAck, status[i]))
    /\ UNCHANGED <<device, vqs, ilock, vlock, status, todo, killed>>

Acked(i) ==
    /\ Goto(i, "ackWait", "config")
    /\ CReturn(i)
    /\ UNCHANGED <<device, vqs, ilock, vlock, status, todo, killed>>

\* Mutant: a configuration change hides the queues' interrupt.
ConfigInstead(i) ==
    /\ Goto(i, "config", IF status[i] = 1 THEN "vring" ELSE "unlock")
    /\ cfg' = IF InWord(2, status[i]) THEN FALSE ELSE cfg
    /\ UNCHANGED <<cvars, isr, used, vqs, ilock, vlock, status, todo, killed>>

\* virtio_config_changed has the driver read the configuration again.
ConfigChanged(i) ==
    /\ Goto(i, "config", IF InWord(1, status[i]) THEN "vring" ELSE "unlock")
    /\ cfg' = IF InWord(2, status[i]) THEN FALSE ELSE cfg
    /\ UNCHANGED <<cvars, isr, used, vqs, ilock, vlock, status, todo, killed>>

LockQueues(i) ==
    /\ vlock = Nobody
    /\ Goto(i, "vring", "callback")
    /\ vlock' = i
    /\ todo' = [todo EXCEPT ![i] = vqs]
    /\ UNCHANGED <<cvars, device, vqs, ilock, status, killed>>

\* vring_interrupt: the queue's callback consumes what has been used.
Callback(i) ==
    /\ ipc[i] = "callback"
    /\ \E q \in todo[i] :
          /\ used' = used \ {q}
          /\ todo' = [todo EXCEPT ![i] = @ \ {q}]
    /\ UNCHANGED <<cvars, isr, cfg, vqs, ilock, vlock, ipc, status, killed>>

UnlockQueues(i) ==
    /\ todo[i] = {}
    /\ Goto(i, "callback", "unlock")
    /\ vlock' = Nobody
    /\ UNCHANGED <<cvars, device, vqs, ilock, status, todo, killed>>

\* The ioctl returns; a thread of a killed process then exits.
UnlockInterrupt(i) ==
    /\ Goto(i, "unlock", IF killed THEN "exited" ELSE "user")
    /\ ilock' = Nobody
    /\ UNCHANGED <<cvars, device, vqs, vlock, status, todo, killed>>

Interrupt(i) ==
    \/ Ioctl(i) \/ LockInterrupt(i) \/ AskStatus(i) \/ GetStatus(i) \/ Ack(i)
    \/ Acked(i) \/ ConfigChanged(i) \/ LockQueues(i) \/ Callback(i)
    \/ UnlockQueues(i) \/ UnlockInterrupt(i)

-----------------------------------------------------------------------------
(* Kernel threads that use the transport at the same time.                 *)

\* vm_get and its like: any other register access.
Use(d) == adapter # "absent" /\ Call(d, Read(0)) /\ UNCHANGED <<device, vqs, intr, killed>>

Used(d) == CReturn(d) /\ UNCHANGED <<device, vqs, intr, killed>>

\* vm_setup_vq puts a queue on the list under vm_dev->lock ...
AddVq(q) ==
    /\ adapter # "absent"
    /\ q \notin vqs /\ vlock = Nobody
    /\ vqs' = vqs \cup {q}
    /\ UNCHANGED <<cvars, device, intr, killed>>

\* Mutant: list_del without the lock.
DelVqUnlocked(q) ==
    /\ q \in vqs
    /\ vqs' = vqs \ {q}
    /\ used' = used \ {q}
    /\ UNCHANGED <<cvars, isr, cfg, intr, killed>>

\* ... and vm_del_vq takes it off; what was used in it is gone with it.
DelVq(q) ==
    /\ q \in vqs /\ vlock = Nobody
    /\ vqs' = vqs \ {q}
    /\ used' = used \ {q}
    /\ UNCHANGED <<cvars, isr, cfg, intr, killed>>

-----------------------------------------------------------------------------
(* The adapter: one thread serves the calls, and it cannot while it is     *)
(* itself inside an ioctl or in the middle of raising an interrupt.        *)

ServerFree == ~killed /\ (Server \in Irqers => ipc[Server] = "user")

ServeStatus(t) ==
    /\ handled.fn = IntStatus
    /\ CServe(t, AsWord(isr))
    /\ UNCHANGED device

ServeAck(t) ==
    /\ handled.fn = IntAck
    /\ CServe(t, word[t])
    /\ isr' = {b \in isr : ~InWord(b, handled.data)}
    /\ UNCHANGED <<used, cfg>>

ServeOther(t) ==
    /\ handled.fn \notin {IntStatus, IntAck}
    /\ CServe(t, 0)
    /\ UNCHANGED device

Serve(t) ==
    /\ ServerFree
    /\ \/ CTake(t) /\ UNCHANGED device
       \/ ServeStatus(t) \/ ServeAck(t) \/ ServeOther(t)
       \/ CAnswer(t) /\ UNCHANGED device
    /\ UNCHANGED <<vqs, intr, killed>>

Start == Arrive /\ UNCHANGED <<device, vqs, intr, killed>>

\* A fatal signal ends the threads in user mode at once.  A thread inside the
\* ioctl sleeps uninterruptibly and goes on until the ioctl returns.
Kill ==
    /\ adapter = "serving" /\ ~killed
    /\ killed' = TRUE
    /\ ipc' = [i \in Irqers |-> IF ipc[i] \in {"user", "raise"} THEN "exited" ELSE ipc[i]]
    /\ UNCHANGED <<cvars, device, vqs, ilock, vlock, status, todo>>

\* The file is released with the last thread that shares the file table.
Release ==
    /\ killed /\ \A i \in Irqers : ipc[i] = "exited"
    /\ Depart
    /\ UNCHANGED <<device, vqs, intr, killed>>

ReleaseFinish == Disappear /\ UNCHANGED <<device, vqs, intr, killed>>

Next ==
    \/ \E i \in Irqers :
          (\E q \in Queues : Complete(i, q)) \/ ChangeConfig(i) \/ Interrupt(i)
    \/ \E d \in Drivers : Use(d) \/ Used(d)
    \/ \E q \in Queues : AddVq(q) \/ DelVq(q)
    \/ \E t \in Threads : Serve(t)
    \/ Start \/ Kill \/ Release \/ ReleaseFinish

Spec == Init /\ [][Next]_vars

(* Threads run, mutexes are handed on, every posted call is taken in turn  *)
(* by a server that is free.  Nothing makes the device raise interrupts.    *)
FairSpec ==
    /\ Spec
    /\ \A i \in Irqers : WF_vars(Interrupt(i)) /\ SF_vars(LockInterrupt(i))
    /\ \A d \in Drivers : WF_vars(Used(d))
    /\ \A t \in Threads : SF_vars(Serve(t))
    /\ WF_vars(Release) /\ WF_vars(ReleaseFinish)

-----------------------------------------------------------------------------
(* Properties.                                                             *)

\* The point of acknowledging before calling back: when no thread is on its way
\* through an interrupt, the driver has seen every completion and every change
\* of the configuration, whatever was completed between the status and the ack.
NothingMissed ==
    ~killed /\ (\A i \in Irqers : ipc[i] = "user") => used = {} /\ ~cfg

\* The callback loop never reaches a queue whose vm_del_vq has run, which has
\* freed its entry.
CallbackOnLiveQueue == \A i \in Irqers : todo[i] \subseteq vqs

\* A completed buffer reaches the driver, unless the adapter is killed.
CompletionsSeen == \A q \in Queues : q \in used ~> q \notin used \/ killed
=============================================================================
