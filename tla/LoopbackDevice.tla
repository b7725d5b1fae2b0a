--------------------------- MODULE LoopbackDevice ---------------------------
(***************************************************************************)
(* One loopback device from the loading of its module to the unloading     *)
(* (loopback_driver1.c, the same text as loopback_driver0.c built with     *)
(* MULTDEV): the adapter opens and starts the device, the transport probes *)
(* it, a virtio driver is bound, sets up its queues and posts requests,    *)
(* the worker forwards the kicks, the adapter's device serves the rings it *)
(* mapped and raises interrupts, the driver is unbound and bound again,    *)
(* and the adapter may exit at any time.  A register access is one step    *)
(* (AdapterCall), and so are the accesses to one queue's registers         *)
(* (VirtQueues) and the sections under notify_q_lock (NotifyQueue); this   *)
(* module is about how those parts fit together.                           *)
(***************************************************************************)
EXTENDS Naturals, FiniteSets, Sequences

CONSTANTS Count,     \* queues, as the device's configuration says
          Devices,   \* the adapter's devices: magic, version, id, VERSION_1
          None,      \* no frame
          Zero,      \* frame number zero
          Depth,     \* bound on the requests outstanding in a queue
          MaxPosts,  \* bound on the requests of a behaviour
          MaxBinds   \* bound on the times the driver is bound

ASSUME LoopbackAssumption ==
    /\ {Count, Depth, MaxPosts, MaxBinds} \subseteq Nat /\ Count > 0
    /\ Devices \subseteq [magic : BOOLEAN, version : Nat, id : Nat, modern : BOOLEAN]

Queues == 0..(Count - 1)
Frames == (1..MaxBinds) \X Queues      \* the ring of a queue in one bind
ASSUME NoFrameAssumption == {None, Zero} \cap Frames = {}

VARIABLES adapter,      \* how far the adapter has come with the device
          ram,          \* its mapping of RAM: "none", "mapped", "touched"
          attrs,        \* which device it serves
          active,       \* per queue: QUEUE_PFN, or the ring made ready
          driver_ok,    \* its device's STATUS has DRIVER_OK
          kicked,       \* queues its device was notified of
          interrupt,    \* the ring bit of INTERRUPT_STATUS
          mapped,       \* per queue: the frame it mapped for the ring
          irq, status,  \* its thread in the IRQ ioctl, what that thread read
          irq_dev,      \* whether there was a vm_dev when that thread began
          pc,           \* the thread that registers, probes and binds
          vm_dev_irq,   \* "null", "live" or "freed"
          version,      \* vm_dev->version
          modern,       \* VERSION_1 was offered when the driver was bound
          nvqs,         \* the queues it read from the configuration
          next,         \* the queue vm_find_vqs is at
          vq_pfns,      \* frames recorded so far
          rings,        \* per queue: the frame of the driver's ring
          virtqueues,   \* queues in vm_dev->virtqueues
          avail, used,  \* per queue: requests posted, and served
          notify_list, wpc, cur,   \* the worker and its list
          binds, posts

registers == <<active, driver_ok, kicked, interrupt>>
maps == <<ram, mapped>>
irqvars == <<irq, status, irq_dev>>
probe == <<vm_dev_irq, version>>
binding == <<modern, nvqs>>
queues == <<next, vq_pfns, rings, virtqueues>>
requests == <<avail, used>>
worker == <<notify_list, wpc, cur>>
vars == <<adapter, attrs, maps, registers, irqvars, pc, probe, binding, queues, requests,
          worker, binds, posts>>

Phases == {"out", "absent", "opened", "wired", "sharing", "paged", "started", "gone"}
Pcs == {"none", "start", "probe", "magic", "version", "id", "core", "device", "features",
        "finalize", "check", "config", "queues", "activating", "running", "del",
        "noprobe", "unloaded"}

TypeOK ==
    /\ adapter \in Phases /\ attrs \in Devices
    /\ ram \in {"none", "mapped", "touched"}
    /\ active \in [Queues -> Frames \cup {None}]
    /\ mapped \in [Queues -> Frames \cup {Zero, None}]
    /\ {driver_ok, interrupt, status, irq_dev} \subseteq BOOLEAN /\ kicked \subseteq Queues
    /\ irq \in {"no", "status", "ack", "walk", "oops"} /\ pc \in Pcs
    /\ vm_dev_irq \in {"null", "live", "freed"} /\ version \in Nat
    /\ modern \in BOOLEAN /\ nvqs \in {0, Count}
    /\ next \in 0..Count /\ vq_pfns \in Seq(Frames)
    /\ rings \in [Queues -> Frames \cup {None}]
    /\ virtqueues \subseteq {q \in Queues : rings[q] # None}
    /\ avail \in [Queues -> 0..Depth] /\ used \in [Queues -> 0..Depth]
    /\ notify_list \in Seq(Queues) /\ cur \in Queues
    /\ wpc \in {"off", "wait", "write", "back", "end", "oops"}
    /\ binds \in 0..MaxBinds /\ posts \in 0..MaxPosts

\* The globals of the module as it is loaded.
Init ==
    /\ adapter = "out" /\ attrs \in Devices /\ ram = "none"
    /\ active = [q \in Queues |-> None] /\ mapped = [q \in Queues |-> None]
    /\ driver_ok = FALSE /\ kicked = {} /\ interrupt = FALSE
    /\ irq = "no" /\ status = FALSE /\ irq_dev = FALSE
    /\ pc = "none" /\ vm_dev_irq = "null" /\ version = 0
    /\ modern = FALSE /\ nvqs = 0
    /\ next = 0 /\ vq_pfns = <<>> /\ rings = [q \in Queues |-> None]
    /\ virtqueues = {}
    /\ avail = [q \in Queues |-> 0] /\ used = [q \in Queues |-> 0]
    /\ notify_list = <<>> /\ wpc = "off" /\ cur = 0
    /\ binds = 0 /\ posts = 0

valid_eventfd == adapter # "gone"
Serving == adapter = "started"

\* A read of a register that holds w; a write that turns the register from old
\* to new.  Without an adapter the first is zero, the second does nothing.
read_adapter(w, zero) == IF Serving THEN w ELSE zero
write_adapter(new, old) == IF Serving THEN new ELSE old

-----------------------------------------------------------------------------
(* The adapter prepares the device.                                         *)

Prepare(from, to) ==
    /\ adapter = from /\ adapter' = to
    /\ UNCHANGED <<attrs, maps, registers, irqvars, probe, binding, queues, requests,
                   binds, posts>>

\* loopback_init when all goes well (DriverLife has what may not).
Load == Prepare("out", "absent") /\ UNCHANGED <<pc, worker>>
Open == Prepare("absent", "opened") /\ UNCHANGED <<pc, worker>>
EfdInit == Prepare("opened", "wired") /\ UNCHANGED <<pc, worker>>
ShareComStruct == Prepare("wired", "sharing") /\ UNCHANGED <<pc, worker>>
MmapPage == Prepare("sharing", "paged") /\ UNCHANGED <<pc, worker>>

\* START_LOOPBACK queues the worker and starts the thread start_loopback.
StartLoopback ==
    /\ Prepare("paged", "started")
    /\ wpc' = "wait" /\ pc' = "start"
    /\ UNCHANGED <<notify_list, cur>>

\* op_mmap maps the shared page first, then RAM and rings, by their length.
SharedPageMapped == adapter \in {"paged", "started"}

\* The mapping of RAM, whose pages come with the first access.
MmapRam ==
    /\ SharedPageMapped /\ ram = "none"
    /\ ram' = "mapped"
    /\ UNCHANGED <<adapter, attrs, mapped, registers, irqvars, pc, probe, binding,
                   queues, requests, worker, binds, posts>>

\* The frame of a page is found in the record of its mapping.
RamRecorded == ram # "none"

\* The adapter's device touches a buffer of a request, in a page not there yet.
Fault ==
    /\ RamRecorded /\ ram # "touched" /\ kicked # {}
    /\ ram' = "touched"
    /\ UNCHANGED <<adapter, attrs, mapped, registers, irqvars, pc, probe, binding,
                   queues, requests, worker, binds, posts>>

-----------------------------------------------------------------------------
(* start_loopback and virtio_mmio_probe.                                    *)

Probing == UNCHANGED <<adapter, attrs, maps, registers, irqvars, binding, queues,
                       requests, worker, binds, posts>>

\* The platform device meets the driver of its name.
start_loopback ==
    /\ pc = "start" /\ pc' = "probe"
    /\ UNCHANGED probe
    /\ Probing

\* The new vm_dev is the one interrupts go to, from before it is any good.
Allocate ==
    /\ pc = "probe"
    /\ \/ pc' = "magic" /\ vm_dev_irq' = "live"
       \/ pc' = "noprobe" /\ UNCHANGED vm_dev_irq
    /\ UNCHANGED version
    /\ Probing

\* A probe that fails frees what devm_kzalloc gave it; vm_dev_irq stays.
ProbeStep(here, passes, there) ==
    /\ pc = here
    /\ IF passes THEN pc' = there /\ UNCHANGED vm_dev_irq
                 ELSE pc' = "noprobe" /\ vm_dev_irq' = "freed"
    /\ Probing

CheckMagic == ProbeStep("magic", read_adapter(attrs.magic, FALSE), "version")
              /\ UNCHANGED version

CheckVersion == /\ version' = read_adapter(attrs.version, 0)
                /\ ProbeStep("version", version' \in {1, 2}, "id")

\* ... and the vendor and GUEST_PAGE_SIZE, which decide nothing.
CheckId == ProbeStep("id", read_adapter(attrs.id, 0) # 0, "core") /\ UNCHANGED version

\* register_virtio_device resets the device; when it fails the last reference
\* goes, and virtio_mmio_release_dev frees vm_dev.
RegisterVirtio == (\E ok \in BOOLEAN : ProbeStep("core", ok, "device")) /\ UNCHANGED version

-----------------------------------------------------------------------------
(* A virtio driver is bound and unbound.                                    *)

Bound == UNCHANGED <<adapter, attrs, ram, irqvars, probe, worker, posts>>

Negotiating == Bound /\ UNCHANGED <<mapped, registers, queues, requests, binds>>

\* Status zero: the device forgets its queues, its notifications and interrupts,
\* and the adapter unmaps the rings.
vm_reset ==
    /\ active' = write_adapter([q \in Queues |-> None], active)
    /\ mapped' = write_adapter([q \in Queues |-> None], mapped)
    /\ kicked' = write_adapter({}, kicked)
    /\ interrupt' = write_adapter(FALSE, interrupt)
    /\ driver_ok' = write_adapter(FALSE, driver_ok)

Bind ==
    /\ pc = "device" /\ binds < MaxBinds
    /\ binds' = binds + 1
    /\ vm_reset
    /\ pc' = "features" /\ next' = 0
    /\ Bound /\ UNCHANGED <<binding, vq_pfns, rings, virtqueues, requests>>

\* The features and the configuration, whose words are in ConfigSpace.
GetFeatures ==
    /\ pc = "features" /\ pc' = "finalize"
    /\ modern' = read_adapter(attrs.modern, FALSE)
    /\ UNCHANGED nvqs /\ Negotiating

FinalizeFeatures ==
    /\ pc = "finalize"
    /\ pc' = IF modern THEN "check" ELSE IF version = 2 THEN "device" ELSE "config"
    /\ UNCHANGED binding /\ Negotiating

\* The status of an adapter that is gone has no FEATURES_OK; a device may refuse.
CheckFeaturesOk ==
    /\ pc = "check"
    /\ pc' \in IF Serving THEN {"config", "device"} ELSE {"device"}
    /\ UNCHANGED binding /\ Negotiating

\* The driver asks for as many queues as the configuration says, and gives up
\* when it says none.
ReadConfig ==
    /\ pc = "config"
    /\ nvqs' = read_adapter(Count, 0)
    /\ pc' = IF nvqs' = 0 THEN "device" ELSE "queues"
    /\ UNCHANGED modern /\ Negotiating

\* vm_setup_vq of the next queue, up to the write that activates it.
SetupVq ==
    /\ pc = "queues" /\ next < nvqs
    /\ Serving /\ active[next] = None
    /\ rings' = [rings EXCEPT ![next] = <<binds, next>>]
    /\ vq_pfns' = IF version = 1 THEN Append(vq_pfns, rings'[next]) ELSE vq_pfns
    /\ active' = [active EXCEPT ![next] = rings'[next]]
    /\ pc' = "activating"
    /\ Bound /\ UNCHANGED binding
    /\ UNCHANGED <<mapped, driver_ok, kicked, interrupt, next, virtqueues, requests, binds>>

\* Its errors: the queue is in use, QUEUE_NUM_MAX reads zero, memory.
SetupVqFails ==
    /\ pc = "queues" /\ next < nvqs
    /\ active' = write_adapter([active EXCEPT ![next] = None], active)
    /\ pc' = "del"
    /\ Bound /\ UNCHANGED binding
    /\ UNCHANGED <<mapped, driver_ok, kicked, interrupt, queues, requests, binds>>

\* SHARE_VQS and mmap of the ring, while the adapter handles the activation.
ShareVqs(q) == IF version = 1 THEN vq_pfns[q + 1] ELSE Zero

MmapRing ==
    /\ pc = "activating" /\ Serving /\ mapped[next] = None
    /\ mapped' = [mapped EXCEPT ![next] = ShareVqs(next)]
    /\ Bound /\ UNCHANGED <<binding, registers, pc, queues, requests, binds>>

Activated ==
    /\ pc = "activating" /\ (Serving => mapped[next] # None)
    /\ virtqueues' = virtqueues \cup {next}
    /\ next' = next + 1 /\ pc' = "queues"
    /\ Bound /\ UNCHANGED <<binding, mapped, registers, vq_pfns, rings, requests, binds>>

\* vm_find_vqs is through; the driver sets DRIVER_OK.
SetDriverOk ==
    /\ pc = "queues" /\ next = nvqs
    /\ driver_ok' = write_adapter(TRUE, driver_ok)
    /\ pc' = "running"
    /\ Bound /\ UNCHANGED <<binding, mapped, active, kicked, interrupt, queues, requests, binds>>

\* The driver's remove, after an unbind or with the platform device.
Unbind ==
    /\ pc = "running"
    /\ vm_reset
    /\ pc' = "del"
    /\ Bound /\ UNCHANGED <<binding, queues, requests, binds>>

\* vm_del_vqs, the queues in their order; the requests die with the rings.
DelVq(q) ==
    /\ pc = "del"
    /\ rings[q] # None /\ \A p \in 0..(q - 1) : rings[p] = None
    /\ virtqueues' = virtqueues \ {q}
    /\ active' = write_adapter([active EXCEPT ![q] = None], active)
    /\ mapped' = write_adapter([mapped EXCEPT ![q] = None], mapped)
    /\ rings' = [rings EXCEPT ![q] = None]
    /\ avail' = [avail EXCEPT ![q] = 0] /\ used' = [used EXCEPT ![q] = 0]
    /\ Bound /\ UNCHANGED <<binding, driver_ok, kicked, interrupt, pc, next, vq_pfns, binds>>

Deleted ==
    /\ pc = "del" /\ \A q \in Queues : rings[q] = None
    /\ pc' = "device"
    /\ Bound /\ UNCHANGED <<binding, mapped, registers, queues, requests, binds>>

-----------------------------------------------------------------------------
(* Requests: vm_notify, the worker, the device, the interrupt.              *)

Path == UNCHANGED <<adapter, attrs, mapped, active, driver_ok, pc, probe, binding,
                    queues, binds>>

\* A request is put into the ring and its queue kicked.  The lock of a worker
\* that died is never free again.
Post(q) ==
    /\ pc = "running" /\ wpc # "oops"
    /\ posts < MaxPosts /\ avail[q] + used[q] < Depth
    /\ posts' = posts + 1
    /\ avail' = [avail EXCEPT ![q] = @ + 1]
    /\ notify_list' = Append(notify_list, q)
    /\ Path /\ UNCHANGED <<ram, kicked, interrupt, irqvars, used, wpc, cur>>

TakeFirst ==
    /\ wpc = "wait" /\ notify_list # <<>>
    /\ cur' = Head(notify_list) /\ notify_list' = Tail(notify_list)
    /\ wpc' = "write"
    /\ Path /\ UNCHANGED <<ram, kicked, interrupt, irqvars, requests, posts>>

\* Once the adapter has gone the worker no longer waits for an element.
TakeEmpty ==
    /\ wpc = "wait" /\ notify_list = <<>> /\ ~valid_eventfd
    /\ wpc' = "oops"
    /\ Path /\ UNCHANGED <<ram, kicked, interrupt, irqvars, requests, notify_list, cur, posts>>

\* QUEUE_NOTIFY.  A device that was not told DRIVER_OK, or not of the queue,
\* does not serve it: the kick may be one of an earlier bind.
WriteNotify ==
    /\ wpc = "write"
    /\ kicked' = IF Serving /\ driver_ok /\ active[cur] # None THEN kicked \cup {cur} ELSE kicked
    /\ wpc' = "back"
    /\ Path /\ UNCHANGED <<ram, interrupt, irqvars, requests, notify_list, cur, posts>>

\* Mutant: the test inverted.
BackInverted ==
    /\ wpc = "back"
    /\ wpc' = IF valid_eventfd THEN "end" ELSE "wait"
    /\ Path /\ UNCHANGED <<ram, kicked, interrupt, irqvars, requests, notify_list, cur, posts>>

Back ==
    /\ wpc = "back"
    /\ wpc' = IF valid_eventfd THEN "wait" ELSE "end"
    /\ Path /\ UNCHANGED <<ram, kicked, interrupt, irqvars, requests, notify_list, cur, posts>>

\* The device serves all it finds in the ring it has mapped; nothing is found
\* in a frame that is not the ring.
Serve(q) ==
    /\ Serving /\ q \in kicked /\ ram = "touched"
    /\ kicked' = kicked \ {q}
    /\ IF mapped[q] = rings[q] /\ avail[q] > 0
       THEN /\ used' = [used EXCEPT ![q] = @ + avail[q]]
            /\ avail' = [avail EXCEPT ![q] = 0]
            /\ interrupt' = TRUE
       ELSE UNCHANGED <<used, avail, interrupt>>
    /\ Path /\ UNCHANGED <<ram, irqvars, worker, posts>>

\* The IRQ ioctl, and vm_interrupt up to the status read.  Nothing keeps the adapter
\* from it when its device has raised no interrupt, before the probe has a vm_dev or
\* after one that failed; the thread takes vm_dev_irq as it is.
Irq ==
    /\ Serving /\ irq = "no"
    /\ irq' = "status" /\ irq_dev' = (vm_dev_irq # "null")
    /\ Path /\ UNCHANGED <<ram, kicked, interrupt, status, requests, worker, posts>>

ReadStatus ==
    /\ irq = "status"
    /\ status' = read_adapter(interrupt, FALSE)
    /\ irq' = "ack"
    /\ Path /\ UNCHANGED <<ram, kicked, interrupt, irq_dev, requests, worker, posts>>

AckStatus ==
    /\ irq = "ack"
    /\ interrupt' = write_adapter(interrupt /\ ~status, interrupt)
    /\ irq' = "walk"
    /\ Path /\ UNCHANGED <<ram, kicked, status, irq_dev, requests, worker, posts>>

\* Mutant: the first queue with something to say ends the walk.
WalkFirst ==
    /\ irq = "walk"
    /\ used' = [q \in Queues |->
          IF status /\ q \in virtqueues /\ \A p \in 0..(q - 1) : used[p] = 0 THEN 0 ELSE used[q]]
    /\ irq' = "no" /\ irq_dev' = FALSE
    /\ Path /\ UNCHANGED <<ram, kicked, interrupt, status, avail, worker, posts>>

\* Every queue of the list is called back, under vm_dev->lock.  Without a status
\* vm_dev is not looked at.
Walk ==
    /\ irq = "walk" /\ (status => irq_dev)
    /\ used' = [q \in Queues |-> IF status /\ q \in virtqueues THEN 0 ELSE used[q]]
    /\ irq' = "no" /\ irq_dev' = FALSE
    /\ Path /\ UNCHANGED <<ram, kicked, interrupt, status, avail, worker, posts>>

\* A thread that began before there was a vm_dev and reads the status of a bound one
\* follows a null pointer, and dies with interrupt_lock held.
WalkNull ==
    /\ irq = "walk" /\ status /\ ~irq_dev
    /\ irq' = "oops"
    /\ Path /\ UNCHANGED <<ram, kicked, interrupt, status, irq_dev, requests, worker, posts>>

-----------------------------------------------------------------------------
(* The end.                                                                 *)

\* Every mapping that is closed takes its record with it.
CloseMappings == ram' = "none" /\ mapped' = [q \in Queues |-> None]

\* The adapter exits: its mappings are closed and the file is released, as soon
\* as none of its threads is inside an ioctl, or died there.
Exit ==
    /\ adapter \notin {"out", "absent", "gone"} /\ irq = "no"
    /\ adapter' = "gone"
    /\ CloseMappings
    /\ UNCHANGED <<attrs, registers, irqvars, pc, probe, binding, queues, requests, worker,
                   binds, posts>>

\* Mutant: the file operations have no owner.
UnloadAnytime == TRUE

\* fops.owner: not while the device is open.
MayUnload == adapter = "gone"

\* loopback_exit: the platform device's remove unbinds the driver, deletes its
\* queues and frees vm_dev.
Unload ==
    /\ pc \in {"device", "noprobe", "running"} /\ MayUnload
    /\ pc' = "unloaded"
    /\ vm_dev_irq' = IF pc = "noprobe" THEN vm_dev_irq ELSE "freed"
    /\ virtqueues' = {} /\ rings' = [q \in Queues |-> None]
    /\ avail' = [q \in Queues |-> 0] /\ used' = [q \in Queues |-> 0]
    /\ UNCHANGED <<adapter, attrs, maps, registers, irqvars, version, binding, next,
                   vq_pfns, worker, binds, posts>>

Adapter == Load \/ Open \/ EfdInit \/ ShareComStruct \/ MmapPage \/ StartLoopback

Probe == start_loopback \/ Allocate \/ CheckMagic \/ CheckVersion \/ CheckId \/ RegisterVirtio

Driver ==
    \/ Bind \/ GetFeatures \/ FinalizeFeatures \/ CheckFeaturesOk \/ ReadConfig
    \/ SetupVq \/ SetupVqFails \/ MmapRing \/ Activated
    \/ SetDriverOk \/ Unbind \/ (\E q \in Queues : DelVq(q)) \/ Deleted

Worker == TakeFirst \/ TakeEmpty \/ WriteNotify \/ Back
Device == MmapRam \/ Fault \/ \E q \in Queues : Serve(q)
Handling == ReadStatus \/ AckStatus \/ Walk \/ WalkNull
Interrupt == Irq \/ Handling

Next ==
    \/ Adapter \/ Probe \/ Driver
    \/ (\E q \in Queues : Post(q)) \/ Worker \/ Device \/ Interrupt
    \/ Exit \/ Unload

Spec == Init /\ [][Next]_vars

\* The kernel runs the worker, and an adapter that stays runs its device and
\* its interrupt thread, which is bound to take the interrupts the device raised and
\* no others.  Nobody has to bind, post, unbind or exit.
FairSpec ==
    Spec /\ WF_vars(Worker) /\ WF_vars(Device) /\ WF_vars((Irq /\ interrupt) \/ Handling)

-----------------------------------------------------------------------------
(* Properties.                                                             *)

\* Nothing is stranded between two parts.  A request in a ring has its kick in
\* notify_list, in the worker's hands or at the device, and a served one has its
\* interrupt pending or its walk to come: across unbinds, with kicks and
\* interrupts of an earlier bind still under way, with interrupts nothing was served
\* for, and until the adapter goes or its interrupt thread dies.  Only a ring the
\* device has not mapped keeps requests nobody will see.
NothingStranded ==
    Serving /\ pc = "running" => \A q \in Queues :
        /\ avail[q] > 0 /\ mapped[q] = rings[q] =>
              \/ \E n \in 1..Len(notify_list) : notify_list[n] = q
              \/ wpc = "write" /\ cur = q
              \/ q \in kicked
        /\ used[q] > 0 => interrupt \/ (irq = "walk" /\ status) \/ irq = "oops"

\* vm_interrupt never looks at a vm_dev that was freed: probes that fail and devices
\* that are removed leave vm_dev_irq dangling, and the ioctl may come at any time, but
\* a thread that has read a status finds the vm_dev there is alive.  Its own copy may
\* be null all the same (WalkNull).
IrqOnLiveDevice == irq = "walk" /\ status => vm_dev_irq = "live"

\* In the first bind to a version 1 device every request is called back, unless
\* the driver is unbound, the adapter goes or its interrupt thread dies: the kick
\* passes the list, the worker and the notify register, the device finds the ring and
\* the buffer in its mappings, and the interrupt finds the queue.
RequestsComplete ==
    \A q \in Queues :
        avail[q] > 0 /\ version = 1 /\ binds = 1
            ~> (avail[q] = 0 /\ used[q] = 0) \/ pc # "running" \/ ~Serving \/ irq = "oops"
=============================================================================
