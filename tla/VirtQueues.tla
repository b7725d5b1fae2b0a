----------------------------- MODULE VirtQueues -----------------------------
(***************************************************************************)
(* The life of the virtqueues (loopback_driver0.c): vm_find_vqs and        *)
(* vm_setup_vq select a queue at the adapter's device, size it, tell the   *)
(* device where the ring is and keep the frame in vq_pfns for the ioctl    *)
(* SHARE_VQS, with which the adapter maps the ring into its own memory;    *)
(* vm_del_vqs takes everything back.  A register access is one step: the   *)
(* callers' requests are served one at a time (AdapterCall), and a read of *)
(* an adapter that is gone returns zero.  While the device handles the     *)
(* write that activates a queue, or the status write DRIVER_OK, the        *)
(* adapter may share and map rings before it answers.                      *)
(***************************************************************************)
EXTENDS Naturals, FiniteSets

CONSTANTS Entries,     \* length of the driver's arrays vqs[] and names[]
          Frames,      \* page frames a ring can be given
          HighFrames,  \* those whose number does not fit in 32 bits
          Zero,        \* frame number 0, what vq_pfns and vq_pfn start with
          None,        \* no ring in hand; a queue the adapter has not mapped
          NumMax,      \* bound on what QUEUE_NUM_MAX reads
          Slots,       \* length of vq_pfns (16)
          Versions,    \* device versions that probe accepts, or some of them
          MaxBinds     \* bound on how often a driver calls find_vqs

ASSUME VqAssumption ==
    /\ Entries \in Nat \ {0} /\ Slots \in Nat /\ Entries <= Slots
    /\ HighFrames \subseteq Frames /\ Zero \notin Frames
    /\ None \notin Frames \cup {Zero}
    /\ NumMax \in Nat /\ Versions \subseteq {1, 2} /\ MaxBinds \in Nat

Indices == 0..(Entries - 1)
NoQueue == Entries

VARIABLES adapter,             \* "serving" or "gone"
          version,             \* what VIRTIO_MMIO_VERSION reads
          num_max,             \* per queue: what QUEUE_NUM_MAX reads
          sel, queue,          \* the device's QUEUE_SEL and queue registers
          vq_index, vq_pfns,   \* globals of the driver
          vq_pfn,
          mapping, mapped,     \* adapter: queue to map next, frame per queue
          pc, names, i,        \* where the driver is, its names[], the entry
          queue_idx,           \* queues vm_find_vqs has asked for
          ring,                \* the virtqueue being set up or deleted
          rings,               \* vdev->vqs
          virtqueues,          \* vm_dev->virtqueues
          binds                \* calls of find_vqs so far

device == <<num_max, sel, queue>>
globals == <<vq_index, vq_pfns, vq_pfn>>
maps == <<mapping, mapped>>
find == <<names, i, queue_idx>>
lists == <<ring, rings, virtqueues>>
vars == <<adapter, version, device, globals, maps, pc, find, lists, binds>>

Ring == [index : Indices, frame : Frames, size : 1..NumMax]
Registers == [num : 0..NumMax, addr : Frames \cup {Zero}, ready : BOOLEAN]
Idle == [num |-> 0, addr |-> Zero, ready |-> FALSE]

Pcs == {"unbound", "next", "sel", "avail", "max", "num", "addr", "activate",
        "activating", "unset", "del", "delsel", "ok", "status", "running"}

TypeOK ==
    /\ adapter \in {"serving", "gone"} /\ version \in Versions
    /\ num_max \in [Indices -> 0..NumMax]
    /\ sel \in Indices /\ queue \in [Indices -> Registers]
    /\ vq_index \in Nat
    /\ vq_pfns \in [0..(Slots - 1) -> Frames \cup {Zero}]
    /\ vq_pfn \in Frames \cup {Zero}
    /\ mapping \in Indices \cup {NoQueue}
    /\ mapped \in [Indices -> Frames \cup {Zero, None}]
    /\ pc \in Pcs /\ names \in [1..Entries -> BOOLEAN]
    /\ i \in 1..(Entries + 1) /\ queue_idx \in 0..Entries
    /\ ring \in Ring \cup {None} /\ rings \subseteq Ring
    /\ virtqueues \subseteq rings /\ binds \in 0..MaxBinds

Init ==
    /\ adapter = "serving" /\ version \in Versions
    /\ num_max \in [Indices -> 0..NumMax]
    /\ sel = 0 /\ queue = [q \in Indices |-> Idle]
    /\ vq_index = 0 /\ vq_pfn = Zero
    /\ vq_pfns = [s \in 0..(Slots - 1) |-> Zero]
    /\ mapping = NoQueue /\ mapped = [q \in Indices |-> None]
    /\ pc = "unbound" /\ names = [n \in 1..Entries |-> FALSE]
    /\ i = 1 /\ queue_idx = 0
    /\ ring = None /\ rings = {} /\ virtqueues = {} /\ binds = 0

Serving == adapter = "serving"

\* A write to a register of the selected queue.
WriteSelected(regs) ==
    queue' = IF Serving THEN [queue EXCEPT ![sel] = regs] ELSE queue

\* The index vm_find_vqs passed to vm_setup_vq.
index == queue_idx - 1

-----------------------------------------------------------------------------
(* vm_find_vqs and vm_setup_vq.                                            *)

Bind(n) ==
    /\ pc = "unbound" /\ binds < MaxBinds
    /\ binds' = binds + 1
    /\ names' = n /\ i' = 1 /\ queue_idx' = 0
    /\ pc' = "next"
    /\ UNCHANGED <<adapter, version, device, globals, maps, lists>>

\* The loop of vm_find_vqs: an entry without a name takes no queue index.
FindNext ==
    /\ pc = "next"
    /\ \/ i > Entries /\ pc' = "ok" /\ UNCHANGED <<i, queue_idx>>
       \/ i <= Entries /\ ~names[i] /\ i' = i + 1 /\ UNCHANGED <<pc, queue_idx>>
       \/ /\ i <= Entries /\ names[i]
          /\ queue_idx' = queue_idx + 1
          /\ pc' = "sel" /\ UNCHANGED i
    /\ UNCHANGED <<adapter, version, device, globals, maps, names, lists, binds>>

Select ==
    /\ pc = "sel"
    /\ sel' = IF Serving THEN index ELSE sel
    /\ pc' = "avail"
    /\ UNCHANGED <<adapter, version, num_max, queue, globals, maps, find, lists, binds>>

\* Mutant: the queues already set up are not deleted.
KeepOnError ==
    /\ pc = "avail"
    /\ pc' \in IF Serving /\ queue[sel].ready THEN {"unbound"} ELSE {"max", "unbound"}
    /\ UNCHANGED <<adapter, version, device, globals, maps, find, lists, binds>>

\* QUEUE_PFN or QUEUE_READY must read zero; kmalloc may fail.  Either error
\* ends in vm_del_vqs.
CheckFree ==
    /\ pc = "avail"
    /\ pc' \in IF Serving /\ queue[sel].ready THEN {"del"} ELSE {"max", "del"}
    /\ UNCHANGED <<adapter, version, device, globals, maps, find, lists, binds>>

\* vring_create_virtqueue may make the ring smaller than the device allows.
Create ==
    /\ pc = "max"
    /\ Serving
    /\ \E f \in Frames \ {r.frame : r \in rings}, s \in 1..num_max[sel] :
          ring' = [index |-> index, frame |-> f, size |-> s]
    /\ rings' = rings \cup {ring'}
    /\ pc' = "num"
    /\ UNCHANGED <<adapter, version, device, globals, maps, find, virtqueues, binds>>

\* QUEUE_NUM_MAX reads zero, or vring_create_virtqueue fails.
CreateFails ==
    /\ pc = "max"
    /\ pc' = "unset"
    /\ UNCHANGED <<adapter, version, device, globals, maps, find, lists, binds>>

\* Mutant: the size the device allows in place of the size of the ring.
SetNumToMax ==
    /\ pc = "num" /\ version = 2
    /\ WriteSelected([queue[sel] EXCEPT !.num = num_max[sel]])
    /\ pc' = "addr"
    /\ UNCHANGED <<adapter, version, num_max, sel, globals, maps, find, lists, binds>>

\* QUEUE_NUM, version 2.
SetNum ==
    /\ pc = "num" /\ version = 2
    /\ WriteSelected([queue[sel] EXCEPT !.num = ring.size])
    /\ pc' = "addr"
    /\ UNCHANGED <<adapter, version, num_max, sel, globals, maps, find, lists, binds>>

\* Mutant: the index is advanced before the slot is taken.
SetNumPreIncrement ==
    /\ pc = "num" /\ version = 1
    /\ WriteSelected([queue[sel] EXCEPT !.num = ring.size])
    /\ vq_pfn' = ring.frame
    /\ vq_pfns' = IF vq_index + 1 < Slots THEN [vq_pfns EXCEPT ![vq_index + 1] = ring.frame]
                                          ELSE vq_pfns
    /\ vq_index' = vq_index + 1
    /\ \/ /\ ring.frame \in HighFrames /\ pc' = "unset"
          /\ rings' = rings \ {ring}
       \/ /\ ring.frame \notin HighFrames /\ pc' = "activate"
          /\ UNCHANGED rings
    /\ UNCHANGED <<adapter, version, num_max, sel, maps, find, ring, virtqueues, binds>>

\* QUEUE_NUM, version 1, and what follows before the next register access: the
\* frame goes to vq_pfn and to the next slot of vq_pfns (past the array's end
\* it goes nowhere a reader of vq_pfns would find it), and a frame too high for
\* QUEUE_PFN frees the ring.
SetNumKeepFrame ==
    /\ pc = "num" /\ version = 1
    /\ WriteSelected([queue[sel] EXCEPT !.num = ring.size])
    /\ vq_pfn' = ring.frame
    /\ vq_pfns' = IF vq_index < Slots THEN [vq_pfns EXCEPT ![vq_index] = ring.frame]
                                      ELSE vq_pfns
    /\ vq_index' = vq_index + 1
    /\ \/ /\ ring.frame \in HighFrames /\ pc' = "unset"
          /\ rings' = rings \ {ring}
       \/ /\ ring.frame \notin HighFrames /\ pc' = "activate"
          /\ UNCHANGED rings
    /\ UNCHANGED <<adapter, version, num_max, sel, maps, find, ring, virtqueues, binds>>

\* Version 2: the halves of the three addresses of the ring.
SetAddresses ==
    /\ pc = "addr"
    /\ WriteSelected([queue[sel] EXCEPT !.addr = ring.frame])
    /\ pc' = "activate"
    /\ UNCHANGED <<adapter, version, num_max, sel, globals, maps, find, lists, binds>>

\* QUEUE_ALIGN and QUEUE_PFN, or QUEUE_READY: the device starts to handle it.
Activate ==
    /\ pc = "activate"
    /\ WriteSelected([queue[sel] EXCEPT !.ready = TRUE,
                                        !.addr = IF version = 1 THEN ring.frame ELSE @])
    /\ pc' = "activating"
    /\ UNCHANGED <<adapter, version, num_max, sel, globals, maps, find, lists, binds>>

\* The device has answered; the queue joins vm_dev->virtqueues.
Activated ==
    /\ pc = "activating" /\ mapping = NoQueue
    /\ virtqueues' = virtqueues \cup {ring}
    /\ i' = i + 1
    /\ pc' = "next"
    /\ UNCHANGED <<adapter, version, device, globals, maps, names, queue_idx, ring, rings, binds>>

\* The error paths behind kmalloc: QUEUE_PFN or QUEUE_READY is set to zero.
Unset ==
    /\ pc = "unset"
    /\ WriteSelected([queue[sel] EXCEPT !.ready = FALSE,
                                        !.addr = IF version = 1 THEN Zero ELSE @])
    /\ pc' = "del"
    /\ UNCHANGED <<adapter, version, num_max, sel, globals, maps, find, lists, binds>>

-----------------------------------------------------------------------------
(* vm_del_vqs: vm_del_vq of every queue of vdev->vqs, in their order.       *)

DeleteNext(r) ==
    /\ pc = "del"
    /\ r \in rings /\ \A s \in rings : r.index <= s.index
    /\ ring' = r
    /\ virtqueues' = virtqueues \ {r}
    /\ sel' = IF Serving THEN r.index ELSE sel
    /\ pc' = "delsel"
    /\ UNCHANGED <<adapter, version, num_max, queue, globals, maps, find, rings, binds>>

\* Mutant: the ring is freed and the device is not told.
DeactivateNot ==
    /\ pc = "delsel"
    /\ rings' = rings \ {ring}
    /\ pc' = "del"
    /\ UNCHANGED <<adapter, version, device, globals, maps, find, ring, virtqueues, binds>>

\* The adapter drops its mapping of a queue that is deactivated.
Deactivate ==
    /\ pc = "delsel"
    /\ WriteSelected([queue[sel] EXCEPT !.ready = FALSE,
                                        !.addr = IF version = 1 THEN Zero ELSE @])
    /\ mapped' = IF Serving THEN [mapped EXCEPT ![sel] = None] ELSE mapped
    /\ rings' = rings \ {ring}
    /\ pc' = "del"
    /\ UNCHANGED <<adapter, version, num_max, sel, globals, mapping, find, ring, virtqueues, binds>>

Deleted ==
    /\ pc = "del" /\ rings = {}
    /\ pc' = "unbound"
    /\ UNCHANGED <<adapter, version, device, globals, maps, find, lists, binds>>

-----------------------------------------------------------------------------
(* vm_set_status(DRIVER_OK) after find_vqs, vm_reset before del_vqs.        *)

DriverOk ==
    /\ pc = "ok"
    /\ pc' = "status"
    /\ UNCHANGED <<adapter, version, device, globals, maps, find, lists, binds>>

StatusWritten ==
    /\ pc = "status" /\ mapping = NoQueue
    /\ pc' = "running"
    /\ UNCHANGED <<adapter, version, device, globals, maps, find, lists, binds>>

Reset ==
    /\ pc = "running"
    /\ queue' = IF Serving THEN [q \in Indices |-> Idle] ELSE queue
    /\ sel' = IF Serving THEN 0 ELSE sel
    /\ mapped' = IF Serving THEN [q \in Indices |-> None] ELSE mapped
    /\ pc' = "del"
    /\ UNCHANGED <<adapter, version, num_max, globals, mapping, find, lists, binds>>

-----------------------------------------------------------------------------
(* The adapter: SHARE_VQS and mmap (mmap_mix) of queues it is told about.   *)

ShareVqs(q) ==
    /\ Serving /\ mapping = NoQueue
    /\ \/ pc = "activating" /\ q = sel
       \/ pc = "status" /\ queue[q].ready
    /\ vq_pfn' = vq_pfns[q]
    /\ mapping' = q
    /\ UNCHANGED <<adapter, version, device, vq_index, vq_pfns, mapped, pc, find, lists, binds>>

Mmap ==
    /\ mapping # NoQueue
    /\ mapped' = [mapped EXCEPT ![mapping] = vq_pfn]
    /\ mapping' = NoQueue
    /\ UNCHANGED <<adapter, version, device, globals, pc, find, lists, binds>>

\* The adapter maps the queue it was just told about without selecting it.
MmapActivated ==
    /\ Serving /\ mapping = NoQueue
    /\ pc = "activating"
    /\ mapped' = [mapped EXCEPT ![sel] = vq_pfn]
    /\ UNCHANGED <<adapter, version, device, globals, mapping, pc, find, lists, binds>>

Exit ==
    /\ Serving
    /\ adapter' = "gone"
    /\ mapping' = NoQueue
    /\ UNCHANGED <<version, device, globals, mapped, pc, find, lists, binds>>

Setup ==
    \/ FindNext \/ Select \/ CheckFree \/ Create \/ CreateFails \/ SetNum
    \/ SetNumKeepFrame \/ SetAddresses \/ Activate \/ Activated \/ Unset

Next ==
    \/ \E n \in [1..Entries -> BOOLEAN] : Bind(n)
    \/ Setup
    \/ (\E r \in rings : DeleteNext(r)) \/ Deactivate \/ Deleted
    \/ DriverOk \/ StatusWritten \/ Reset
    \/ (\E q \in Indices : ShareVqs(q)) \/ Mmap \/ MmapActivated \/ Exit

Spec == Init /\ [][Next]_vars

-----------------------------------------------------------------------------
(* Properties.                                                             *)

\* The device knows every queue in vm_dev->virtqueues by the frame and the
\* size of its own ring, whatever was selected, failed or deleted meanwhile.
RegistersMatch ==
    Serving /\ pc \notin {"del", "delsel"} =>
        \A r \in virtqueues :
            queue[r.index] = [num |-> r.size, addr |-> r.frame, ready |-> TRUE]

\* The device never holds an active queue whose ring is freed, or another's.
NoDanglingRing ==
    Serving => \A q \in Indices :
        queue[q].ready => \E r \in rings : r.index = q /\ r.frame = queue[q].addr

\* vm_find_vqs sets up every named entry under consecutive indices, or leaves
\* nothing behind, at the driver or at the device.
AllOrNothing ==
    /\ pc \in {"ok", "status", "running"} =>
          /\ virtqueues = rings
          /\ {r.index : r \in rings} = 0..(Cardinality({n \in 1..Entries : names[n]}) - 1)
    /\ pc = "unbound" =>
          /\ rings = {} /\ virtqueues = {}
          /\ Serving => \A q \in Indices : ~queue[q].ready

\* What the adapter maps for a queue is the ring the device was told of.
MapsItsRing ==
    \A q \in Indices :
        Serving /\ queue[q].ready => mapped[q] \in {None, queue[q].addr}

\* Every frame the driver recorded is in the array: vq_pfns is long enough for
\* Slots \div Entries calls of find_vqs.
SlotsSuffice == vq_index <= Slots

\* No setup writes past vq_pfns.  And while a driver of a version 1 device is bound
\* for the first time, the frame SHARE_VQS selects for a queue is the frame of its
\* ring, although the slot is counted by one variable and the queue by another, and
\* although a setup that fails leaves its slot behind.
FramesKept ==
    /\ SlotsSuffice
    /\ version = 1 /\ binds <= 1 => MapsItsRing
=============================================================================
