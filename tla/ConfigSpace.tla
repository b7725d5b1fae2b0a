---------------------------- MODULE ConfigSpace ----------------------------
(***************************************************************************)
(* The configuration operations of the virtio-mmio transport               *)
(* (loopback_driver0.c) as virtio core and a device driver use them:       *)
(* features read and written in two halves, the status, a shared memory    *)
(* region read in four words, and a field of the configuration space read  *)
(* or written in as many register accesses as the device's version and the *)
(* width ask for, while the device changes the space and says so with an   *)
(* interrupt.  A register access is one step (AdapterCall); selecting a    *)
(* half and accessing it are one, since nobody else selects.  A read of an *)
(* adapter that is gone returns zero and a write does nothing.             *)
(***************************************************************************)
EXTENDS Naturals

CONSTANTS LowFeatures,   \* feature bits 0-31
          HighFeatures,  \* feature bits 32-63, VERSION_1 among them
          Version1,      \* VIRTIO_F_VERSION_1
          Supported,     \* the features the device driver knows
          Devices,       \* a device's version, and the field its driver accesses:
                         \* count items of bytes each
          Ones,          \* the 32-bit word with every bit set
          Regions,       \* memory regions: length low, high, address low, high
          MaxChanges,    \* bound on the device's changes of its space
          MaxBinds       \* bound on the times a driver is bound

ASSUME ConfigAssumption ==
    /\ LowFeatures \cap HighFeatures = {} /\ Version1 \in HighFeatures
    /\ Devices \subseteq {1, 2} \X [count : Nat \ {0}, bytes : {1, 2, 4, 8}]
    /\ Ones \in Nat \ {0} /\ Regions \subseteq [1..4 -> Nat]
    /\ MaxChanges \in Nat /\ MaxBinds \in Nat

Features == LowFeatures \cup HighFeatures

VARIABLES adapter,      \* "serving" or "gone"
          version,      \* VIRTIO_MMIO_VERSION
          offered,      \* the device: DEVICE_FEATURES
          accepted,     \* the device: DRIVER_FEATURES
          status,       \* the device: the highest STATUS it was given
          shm,          \* the device: length and address of its region
          config,       \* the device: who wrote each byte of the field last
          changes,      \* the device's changes so far: CONFIG_GENERATION
          interrupt,    \* the device: the configuration bit of INTERRUPT_STATUS
          irq,          \* a thread between the status read and the acknowledgement
          pc, features, \* the driver, vdev->features
          region,       \* the region vm_get_shm_region returned
          field,        \* the field it accesses
          op, k, gen,   \* access in progress, number in it, generation before it
          buf, copy,    \* bytes accessed, what the driver believes the field is
          reread,       \* config_changed was called, the field is not read yet
          undisturbed,  \* history: no change since the last write began
          done,         \* history: the access finished last
          binds

device == <<offered, accepted, status, shm>>
space == <<config, changes, interrupt>>
access == <<op, k, gen, buf, copy, undisturbed, done>>
vars == <<adapter, version, device, space, irq, pc, features, region, field,
          access, reread, binds>>

Bytes == 0..(field.count * field.bytes - 1)
Driver == MaxChanges + 1        \* the writer's mark of the driver
Marks == 0..Driver
Unread == [b \in Bytes |-> 0]
Missing(r) == r[1] = Ones /\ r[2] = Ones
Statuses == {"reset", "driver", "features_ok", "driver_ok", "failed"}

TypeOK ==
    /\ adapter \in {"serving", "gone"} /\ <<version, field>> \in Devices
    /\ {offered, accepted, features} \subseteq SUBSET Features
    /\ status \in Statuses /\ shm \in Regions /\ region \in [1..4 -> Nat]
    /\ {config, buf, copy} \subseteq [Bytes -> Marks]
    /\ changes \in 0..MaxChanges /\ gen \in 0..MaxChanges
    /\ {interrupt, irq, reread, undisturbed} \subseteq BOOLEAN
    /\ pc \in {"unbound", "driver", "high", "low", "finalize", "puthigh", "putlow",
               "featuresok", "check", "shm", "probing", "running", "failed"}
    /\ op \in {"none", "read", "write"} /\ done \in {"none", "read", "write"}
    /\ k \in IF op = "none" /\ pc # "shm" THEN {0} ELSE 0..(field.count * field.bytes + 3)
    /\ binds \in 0..MaxBinds

Init ==
    /\ adapter = "serving"
    /\ \E d \in Devices : version = d[1] /\ field = d[2]
    /\ offered \in SUBSET Features /\ accepted = {} /\ status = "reset"
    /\ shm \in Regions
    /\ config = [b \in Bytes |-> 0] /\ changes = 0 /\ interrupt = FALSE
    /\ irq = FALSE /\ pc = "unbound" /\ features = {} /\ region = [w \in 1..4 |-> 0]
    /\ op = "none" /\ k = 0 /\ gen = 0
    /\ buf = Unread /\ copy = Unread
    /\ reread = FALSE /\ undisturbed = TRUE /\ done = "none" /\ binds = 0

Serving == adapter = "serving"

vm_set_status(s) == status' = IF Serving THEN s ELSE status

-----------------------------------------------------------------------------
(* virtio core binds a driver: reset, DRIVER, the features, FEATURES_OK.    *)

vm_reset ==
    /\ vm_set_status("reset")
    /\ accepted' = IF Serving THEN {} ELSE accepted
    /\ interrupt' = (interrupt /\ ~Serving)

Bind ==
    /\ pc = "unbound" /\ binds < MaxBinds
    /\ binds' = binds + 1
    /\ vm_reset
    /\ pc' = "driver"
    /\ region' = [w \in 1..4 |-> 0] /\ copy' = Unread /\ done' = "none"
    /\ UNCHANGED <<adapter, version, offered, shm, config, changes, irq, features,
                   field, op, k, gen, buf, undisturbed, reread>>

SetDriver ==
    /\ pc = "driver"
    /\ vm_set_status("driver")
    /\ pc' = "high"
    /\ UNCHANGED <<adapter, version, offered, accepted, shm, space, irq, features,
                   region, field, access, reread, binds>>

\* What DEVICE_FEATURES reads with one of the halves selected.
Offers(half) == IF Serving THEN offered \cap half ELSE {}

GetHigh ==
    /\ pc = "high"
    /\ features' = Offers(HighFeatures)
    /\ pc' = "low"
    /\ UNCHANGED <<adapter, version, device, space, irq, region, field, access, reread, binds>>

\* The second half; virtio core keeps what the driver supports.
GetLow ==
    /\ pc = "low"
    /\ features' = (features \cup Offers(LowFeatures)) \cap Supported
    /\ pc' = "finalize"
    /\ UNCHANGED <<adapter, version, device, space, irq, region, field, access, reread, binds>>

\* Mutant: a version 2 device may do without VERSION_1.
FinalizeAny ==
    /\ pc = "finalize"
    /\ pc' = "puthigh"
    /\ UNCHANGED <<adapter, version, device, space, irq, features, region, field,
                   access, reread, binds>>

\* vm_finalize_features refuses a version 2 device without VERSION_1.
Finalize ==
    /\ pc = "finalize"
    /\ pc' = IF version = 2 /\ Version1 \notin features THEN "failed" ELSE "puthigh"
    /\ UNCHANGED <<adapter, version, device, space, irq, features, region, field,
                   access, reread, binds>>

PutHalf(half) == accepted' = IF Serving THEN (accepted \ half) \cup (features \cap half)
                                        ELSE accepted

PutHigh ==
    /\ pc = "puthigh"
    /\ PutHalf(HighFeatures)
    /\ pc' = "putlow"
    /\ UNCHANGED <<adapter, version, offered, status, shm, space, irq, features,
                   region, field, access, reread, binds>>

PutLow ==
    /\ pc = "putlow"
    /\ PutHalf(LowFeatures)
    /\ pc' = IF Version1 \in features THEN "featuresok" ELSE "shm"
    /\ UNCHANGED <<adapter, version, offered, status, shm, space, irq, features,
                   region, field, access, reread, binds>>

\* The device may refuse the choice: the bit does not stay set.
SetFeaturesOk ==
    /\ pc = "featuresok"
    /\ vm_set_status("features_ok") \/ UNCHANGED status
    /\ pc' = "check"
    /\ UNCHANGED <<adapter, version, offered, accepted, shm, space, irq, features,
                   region, field, access, reread, binds>>

\* vm_get_status: the status of an adapter that is gone reads zero.
CheckFeaturesOk ==
    /\ pc = "check"
    /\ pc' = IF Serving /\ status = "features_ok" THEN "shm" ELSE "failed"
    /\ UNCHANGED <<adapter, version, device, space, irq, features, region, field,
                   access, reread, binds>>

Fail ==
    /\ pc = "failed"
    /\ vm_set_status("failed")
    /\ pc' = "unbound"
    /\ UNCHANGED <<adapter, version, offered, accepted, shm, space, irq, features,
                   region, field, access, reread, binds>>

-----------------------------------------------------------------------------
(* The driver's probe: a memory region, then the field; DRIVER_OK.          *)

\* vm_get_shm_region, a word at a time: a length of all ones ends it.
GetShmWord ==
    /\ pc = "shm"
    /\ region' = [region EXCEPT ![k + 1] = IF Serving THEN shm[k + 1] ELSE 0]
    /\ LET last == k = 3 \/ (k = 1 /\ Missing(region'))
       IN  /\ pc' = IF last THEN "probing" ELSE "shm"
           /\ k' = IF last THEN 0 ELSE k + 1
    /\ UNCHANGED <<adapter, version, device, space, irq, features, field,
                   op, gen, buf, copy, undisturbed, done, reread, binds>>

DriverOk ==
    /\ pc = "probing" /\ op = "none"
    /\ vm_set_status("driver_ok")
    /\ pc' = "running"
    /\ UNCHANGED <<adapter, version, offered, accepted, shm, space, irq, features,
                   region, field, access, reread, binds>>

Unbind ==
    /\ pc = "running" /\ op = "none"
    /\ vm_reset
    /\ pc' = "unbound" /\ reread' = FALSE
    /\ UNCHANGED <<adapter, version, offered, shm, config, changes, irq, features,
                   region, field, access, binds>>

-----------------------------------------------------------------------------
(* Accesses to the field.                                                   *)

\* The bytes of the n-th register access, in vm_get and vm_set: version 1 goes
\* byte by byte, version 2 by the width, eight bytes as two times four.
Chunk(n) ==
    IF version = 1 THEN {n}
    ELSE IF field.bytes = 8 THEN n * 4..n * 4 + 3
    ELSE n * field.bytes..n * field.bytes + field.bytes - 1

\* The accesses that cover the field; vm_get and vm_set are called per item.
Accesses ==
    field.count * (IF version = 1 THEN field.bytes ELSE IF field.bytes = 8 THEN 2 ELSE 1)

\* Mutant: the generation of a version 2 device is not read either.
NoGeneration == 0

vm_generation == IF version = 2 /\ Serving THEN changes ELSE 0

\* virtio core reads one item of up to four bytes without the generation.
Guarded == field.count > 1 \/ field.bytes = 8

\* The driver reads in its probe, or when config_changed was called.
StartRead ==
    /\ op = "none"
    /\ pc = "probing" \/ (pc = "running" /\ reread)
    /\ op' = "read" /\ k' = 0 /\ reread' = FALSE
    /\ gen' = IF Guarded THEN vm_generation ELSE gen
    /\ UNCHANGED <<adapter, version, device, space, irq, pc, features, region, field,
                   buf, copy, undisturbed, done, binds>>

vm_get ==
    /\ op = "read" /\ k < Accesses
    /\ buf' = [b \in Bytes |-> IF b \in Chunk(k) THEN IF Serving THEN config[b] ELSE 0
                                                 ELSE buf[b]]
    /\ k' = k + 1
    /\ UNCHANGED <<adapter, version, device, space, irq, pc, features, region, field,
                   op, gen, copy, undisturbed, done, reread, binds>>

\* The loop of virtio core: read again until the generation stays.
FinishRead ==
    /\ op = "read" /\ k = Accesses
    /\ \/ /\ Guarded /\ gen # vm_generation
          /\ gen' = vm_generation /\ k' = 0
          /\ UNCHANGED <<op, copy, done>>
       \/ /\ Guarded => gen = vm_generation
          /\ op' = "none" /\ k' = 0 /\ copy' = buf /\ done' = "read"
          /\ gen' = 0
    /\ buf' = Unread
    /\ UNCHANGED <<adapter, version, device, space, irq, pc, features, region, field,
                   undisturbed, reread, binds>>

\* A field that has to be read again is read first.
StartWrite ==
    /\ op = "none" /\ pc = "running" /\ ~reread
    /\ op' = "write" /\ k' = 0
    /\ buf' = [b \in Bytes |-> Driver]
    /\ undisturbed' = TRUE
    /\ UNCHANGED <<adapter, version, device, space, irq, pc, features, region, field,
                   gen, copy, done, reread, binds>>

vm_set ==
    /\ op = "write" /\ k < Accesses
    /\ config' = [b \in Bytes |-> IF Serving /\ b \in Chunk(k) THEN buf[b] ELSE config[b]]
    /\ k' = k + 1
    /\ UNCHANGED <<adapter, version, device, changes, interrupt, irq, pc, features, region,
                   field, op, gen, buf, copy, undisturbed, done, reread, binds>>

FinishWrite ==
    /\ op = "write" /\ k = Accesses
    /\ op' = "none" /\ k' = 0 /\ copy' = buf /\ done' = "write"
    /\ buf' = Unread
    /\ UNCHANGED <<adapter, version, device, space, irq, pc, features, region, field,
                   gen, undisturbed, reread, binds>>

-----------------------------------------------------------------------------
(* The device.                                                              *)

\* A change is one step for the device and says so once the driver runs.
Change ==
    /\ Serving /\ changes < MaxChanges
    /\ changes' = changes + 1
    /\ config' = [b \in Bytes |-> changes']
    /\ interrupt' = (interrupt \/ status = "driver_ok")
    /\ undisturbed' = FALSE
    /\ UNCHANGED <<adapter, version, device, irq, pc, features, region, field,
                   op, k, gen, buf, copy, done, reread, binds>>

\* vm_interrupt reads INTERRUPT_STATUS.
IrqStatus ==
    /\ Serving /\ interrupt /\ ~irq
    /\ irq' = TRUE
    /\ UNCHANGED <<adapter, version, device, space, pc, features, region, field,
                   access, reread, binds>>

\* Mutant: an interrupt during a read is acknowledged only.
IrqAckBusy ==
    /\ irq
    /\ irq' = FALSE
    /\ interrupt' = (interrupt /\ ~Serving)
    /\ reread' = (reread \/ (pc = "running" /\ op = "none"))
    /\ UNCHANGED <<adapter, version, device, config, changes, pc, features, region, field,
                   access, binds>>

\* ... acknowledges it and calls config_changed.
IrqAck ==
    /\ irq
    /\ irq' = FALSE
    /\ interrupt' = (interrupt /\ ~Serving)
    /\ reread' = (reread \/ pc = "running")
    /\ UNCHANGED <<adapter, version, device, config, changes, pc, features, region, field,
                   access, binds>>

Exit ==
    /\ Serving
    /\ adapter' = "gone"
    /\ UNCHANGED <<version, device, space, irq, pc, features, region, field,
                   access, reread, binds>>

Negotiate ==
    \/ SetDriver \/ GetHigh \/ GetLow \/ Finalize \/ PutHigh \/ PutLow
    \/ SetFeaturesOk \/ CheckFeaturesOk \/ Fail

Access == StartRead \/ vm_get \/ FinishRead \/ vm_set \/ FinishWrite

Next ==
    \/ Bind \/ Negotiate \/ GetShmWord \/ DriverOk \/ Unbind
    \/ Access \/ StartWrite
    \/ Change \/ IrqStatus \/ IrqAck \/ Exit

Spec == Init /\ [][Next]_vars

\* The driver's thread goes on with what it began, the adapter's with the
\* interrupt it raised.
FairSpec == Spec /\ WF_vars(Access) /\ WF_vars(IrqStatus \/ IrqAck)

-----------------------------------------------------------------------------
(* Properties.                                                             *)

\* A device that is told DRIVER_OK offered every feature the driver uses and
\* knows which they are, in both halves; a version 2 device has VERSION_1; and
\* one that has it was asked and did not refuse.
NegotiatedBeforeUse ==
    Serving /\ status = "driver_ok" =>
        /\ accepted = features /\ features \subseteq offered \cap Supported
        /\ version = 2 => Version1 \in features

RegionWhole ==
    Serving /\ pc \in {"probing", "running"} =>
        IF Missing(shm) THEN Missing(region) ELSE region = shm

NoTornRead ==
    Serving /\ version = 2 /\ done = "read" /\ op = "none" =>
        \/ \A b, c \in Bytes : copy[b] = copy[c]
        \/ Driver \in {copy[b] : b \in Bytes}

WriteArrives ==
    Serving /\ done = "write" /\ op = "none" /\ undisturbed =>
        \A b \in Bytes : config[b] = Driver

\* What takes several accesses arrives whole.  The region the driver uses is the
\* device's, all four words of it, unless the length says there is none.  However
\* wide the field and however often the device changes it meanwhile, a read from a
\* version 2 device that stays returns bytes of one moment.  A write that the device
\* did not interfere with is in the device whole.
ArrivesWhole == RegionWhole /\ NoTornRead /\ WriteArrives

\* A change the device announced ends up with the driver, also a version 1
\* device's, whose fields are read byte by byte, and also when it comes during
\* a read, a write or the handling of an earlier one.
ChangeNoticed ==
    interrupt ~> (copy = config \/ pc # "running" \/ ~Serving)
=============================================================================
