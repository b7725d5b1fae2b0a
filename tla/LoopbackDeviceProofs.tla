------------------------- MODULE LoopbackDeviceProofs -------------------------
(***************************************************************************)
(* Proofs about LoopbackDevice, for any number of queues, requests, binds  *)
(* and any devices of the adapter.  Shapes are the types that matter,      *)
(* Alive says when vm_dev_irq is good, Built what the driver and the       *)
(* device have of the queues at each point of a bind, and Stranded, the    *)
(* property itself, is inductive with them.  Points, Recorded and          *)
(* Outstanding complete the types: Recorded says that the frame the        *)
(* adapter asks for by a queue's number has been recorded.                 *)
(***************************************************************************)
EXTENDS LoopbackDevice, SequenceTheorems, TLAPS

-----------------------------------------------------------------------------
(* Types.                                                                  *)

\* A driver is bound, or has been and the device is still there.
BoundPcs == {"device", "features", "finalize", "check", "config", "queues",
             "activating", "running", "del"}
Attached == BoundPcs \ {"device"}

Shapes ==
    /\ active \in [Queues -> Frames \cup {None}]
    /\ rings \in [Queues -> Frames \cup {None}]
    /\ mapped = [q \in Queues |-> mapped[q]]
    /\ {driver_ok, interrupt, status} \subseteq BOOLEAN
    /\ kicked \subseteq Queues /\ cur \in Queues
    /\ avail \in [Queues -> Nat] /\ used \in [Queues -> Nat]
    /\ next \in Nat /\ nvqs \in {0, Count} /\ binds \in 0..MaxBinds
    /\ pc \in Attached => binds # 0
    /\ notify_list \in Seq(Queues)

LEMMA Sizes == Count \in Nat \ {0} /\ MaxBinds \in Nat /\ Queues = 0..(Count - 1)
               /\ None \notin Frames /\ Frames = (1..MaxBinds) \X Queues
BY LoopbackAssumption, NoFrameAssumption DEF Queues, Frames

LEMMA ShapesInit == Init => Shapes
<1>1. Init => /\ active \in [Queues -> Frames \cup {None}] /\ rings \in [Queues -> Frames \cup {None}]
              /\ avail \in [Queues -> Nat] /\ used \in [Queues -> Nat]
              /\ mapped = [q \in Queues |-> mapped[q]]
  BY DEF Init
<1>2. Init => notify_list \in Seq(Queues)
  BY DEF Init
<1> QED
  BY <1>1, <1>2, Sizes DEF Init, Shapes, Attached, BoundPcs

LEMMA ShapesNext ==
    ASSUME Shapes, [Next]_vars
    PROVE  Shapes'
<1> USE Sizes DEF registers, maps, irqvars, probe, binding, queues, requests, worker,
           Prepare, Probing, ProbeStep, Bound, Negotiating, Path, vm_reset,
           write_adapter, read_adapter, CloseMappings
<1>1. CASE Load
  BY <1>1 DEF Load, Shapes, Attached, BoundPcs
<1>2. CASE Open
  BY <1>2 DEF Open, Shapes, Attached, BoundPcs
<1>3. CASE EfdInit
  BY <1>3 DEF EfdInit, Shapes, Attached, BoundPcs
<1>4. CASE ShareComStruct
  BY <1>4 DEF ShareComStruct, Shapes, Attached, BoundPcs
<1>5. CASE MmapPage
  BY <1>5 DEF MmapPage, Shapes, Attached, BoundPcs
<1>6. CASE StartLoopback
  BY <1>6 DEF StartLoopback, Shapes, Attached, BoundPcs
<1>7. CASE start_loopback
  BY <1>7 DEF start_loopback, Shapes, Attached, BoundPcs
<1>8. CASE Allocate
  BY <1>8 DEF Allocate, Shapes, Attached, BoundPcs
<1>9. CASE CheckMagic
  BY <1>9 DEF CheckMagic, Shapes, Attached, BoundPcs
<1>10. CASE CheckVersion
  BY <1>10 DEF CheckVersion, Shapes, Attached, BoundPcs
<1>11. CASE CheckId
  BY <1>11 DEF CheckId, Shapes, Attached, BoundPcs
<1>12. CASE RegisterVirtio
  BY <1>12 DEF RegisterVirtio, Shapes, Attached, BoundPcs
<1>13. CASE Bind
  <2>1. active' \in [Queues -> Frames \cup {None}] /\ mapped' = [q \in Queues |-> mapped'[q]]
    BY <1>13 DEF Bind, Shapes
  <2>2. kicked' \subseteq Queues /\ {driver_ok', interrupt'} \subseteq BOOLEAN
    BY <1>13 DEF Bind, Shapes
  <2>3. binds' \in 0..MaxBinds /\ binds' # 0
    BY <1>13, Sizes DEF Bind, Shapes
  <2> QED
    BY <1>13, <2>1, <2>2, <2>3 DEF Bind, Shapes, Attached, BoundPcs
<1>14. CASE GetFeatures
  BY <1>14 DEF GetFeatures, Shapes, Attached, BoundPcs
<1>15. CASE FinalizeFeatures
  BY <1>15 DEF FinalizeFeatures, Shapes, Attached, BoundPcs
<1>16. CASE CheckFeaturesOk
  BY <1>16 DEF CheckFeaturesOk, Shapes, Attached, BoundPcs
<1>17. CASE ReadConfig
  BY <1>17 DEF ReadConfig, Shapes, Attached, BoundPcs
<1>18. CASE SetupVq
  <2>1. next \in Queues /\ binds \in 1..MaxBinds
    BY <1>18 DEF SetupVq, Shapes, Attached, BoundPcs
  <2>2. <<binds, next>> \in Frames
    BY <2>1, Sizes
  <2>3. rings' \in [Queues -> Frames \cup {None}] /\ rings'[next] \in Frames
    BY <1>18, <2>1, <2>2 DEF SetupVq, Shapes
  <2>4. active' \in [Queues -> Frames \cup {None}]
    BY <1>18, <2>3 DEF SetupVq, Shapes
  <2> QED
    BY <1>18, <2>1, <2>2, <2>3, <2>4 DEF SetupVq, Shapes, Attached, BoundPcs
<1>19. CASE SetupVqFails
  BY <1>19 DEF SetupVqFails, Shapes, Attached, BoundPcs
<1>20. CASE MmapRing
  BY <1>20 DEF MmapRing, Shapes, Attached, BoundPcs
<1>21. CASE Activated
  BY <1>21, SMTT(40) DEF Activated, Shapes, Attached, BoundPcs
<1>22. CASE SetDriverOk
  BY <1>22 DEF SetDriverOk, Shapes, Attached, BoundPcs
<1>23. CASE Unbind
  BY <1>23 DEF Unbind, Shapes, Attached, BoundPcs
<1>24. ASSUME NEW q \in Queues, DelVq(q)
      PROVE  Shapes'
  BY <1>24 DEF DelVq, Shapes, Attached, BoundPcs
<1>25. CASE Deleted
  BY <1>25 DEF Deleted, Shapes, Attached, BoundPcs
<1>26. ASSUME NEW q \in Queues, Post(q)
      PROVE  Shapes'
  <2>1. avail' \in [Queues -> Nat]
    BY <1>26, SMTT(40) DEF Post, Shapes
  <2>2. notify_list' \in Seq(Queues)
    BY <1>26 DEF Post, Shapes
  <2> QED
    BY <1>26, <2>1, <2>2 DEF Post, Shapes, Attached, BoundPcs
<1>27. CASE TakeFirst
  <2>1. cur' \in Queues /\ notify_list' \in Seq(Queues)
    BY <1>27, HeadTailProperties DEF TakeFirst, Shapes
  <2> QED
    BY <1>27, <2>1 DEF TakeFirst, Shapes, Attached, BoundPcs
<1>28. CASE TakeEmpty
  BY <1>28 DEF TakeEmpty, Shapes, Attached, BoundPcs
<1>29. CASE WriteNotify
  <2>1. kicked' \subseteq Queues
    BY <1>29 DEF WriteNotify, Shapes
  <2> QED
    BY <1>29, <2>1 DEF WriteNotify, Shapes, Attached, BoundPcs
<1>30. CASE Back
  BY <1>30 DEF Back, Shapes, Attached, BoundPcs
<1>31. CASE MmapRam
  BY <1>31 DEF MmapRam, Shapes, Attached, BoundPcs
<1>32. CASE Fault
  BY <1>32 DEF Fault, Shapes, Attached, BoundPcs
<1>33. ASSUME NEW q \in Queues, Serve(q)
      PROVE  Shapes'
  <2>1. avail[q] \in Nat /\ used[q] \in Nat
    BY <1>33 DEF Shapes
  <2>2. /\ \/ avail' = avail
           \/ avail' = [avail EXCEPT ![q] = 0]
        /\ \/ used' = used
           \/ used' = [used EXCEPT ![q] = used[q] + avail[q]]
    BY <1>33 DEF Serve
  <2>3. avail' \in [Queues -> Nat]
    <3>1. CASE avail' = avail
      BY <3>1 DEF Shapes
    <3>2. CASE avail' = [avail EXCEPT ![q] = 0]
      BY <3>2 DEF Shapes
    <3> QED
      BY <2>2, <3>1, <3>2
  <2>4. used[q] + avail[q] \in Nat
    BY <2>1
  <2>5. used' \in [Queues -> Nat]
    BY <2>2, <2>4 DEF Shapes
  <2>6. interrupt' \in BOOLEAN /\ kicked' \subseteq Queues
    BY <1>33 DEF Serve, Shapes
  <2> QED
    BY <1>33, <2>3, <2>5, <2>6 DEF Serve, Shapes, Attached, BoundPcs
<1>34. CASE Irq
  BY <1>34 DEF Irq, Shapes, Attached, BoundPcs
<1>35. CASE ReadStatus
  <2>1. status' \in BOOLEAN
    BY <1>35 DEF ReadStatus, Shapes
  <2> QED
    BY <1>35, <2>1 DEF ReadStatus, Shapes, Attached, BoundPcs
<1>36. CASE AckStatus
  BY <1>36 DEF AckStatus, Shapes, Attached, BoundPcs
<1>37. CASE Walk
  BY <1>37 DEF Walk, Shapes, Attached, BoundPcs
<1>38. CASE Exit
  BY <1>38 DEF Exit, Shapes, Attached, BoundPcs
<1>39. CASE Unload
  BY <1>39 DEF Unload, Shapes, Attached, BoundPcs
<1>40. CASE UNCHANGED vars
  BY <1>40 DEF vars, Shapes, Attached, BoundPcs
<1>41. CASE WalkNull
  BY <1>41 DEF WalkNull, Shapes, Attached, BoundPcs
<1> QED
  BY <1>1, <1>2, <1>3, <1>4, <1>5, <1>6, <1>7, <1>8, <1>9, <1>10, <1>11, <1>12, <1>13,
     <1>14, <1>15, <1>16, <1>17, <1>18, <1>19, <1>20, <1>21, <1>22, <1>23, <1>24, <1>25,
     <1>26, <1>27, <1>28, <1>29, <1>30, <1>31, <1>32, <1>33, <1>34, <1>35, <1>36, <1>37,
     <1>38, <1>39, <1>40, <1>41 DEF Next, Adapter, Probe, Driver, Worker, Device, Interrupt, Handling

-----------------------------------------------------------------------------
(* Interrupts go to a device that is there.                                *)

\* An interrupt is raised only where a request was served, in a ring of a bound driver,
\* so only then can a thread read a status, whenever it began; and vm_dev lives from
\* its allocation till the probe fails or the device is removed.
Alive ==
    /\ irq # "no" => Serving
    /\ irq \in {"ack", "walk"} /\ status => pc \in BoundPcs
    /\ Serving /\ interrupt => pc \in BoundPcs
    /\ \A q \in Queues : avail[q] > 0 => pc \in BoundPcs
    /\ pc \in BoundPcs => vm_dev_irq = "live"
    /\ pc \in {"magic", "version", "id", "core"} => vm_dev_irq = "live"
    /\ adapter \notin {"started", "gone"} => pc = "none" /\ ~interrupt
    /\ Serving => pc # "unloaded"

LEMMA AliveInit == Init => Alive
BY DEF Init, Alive, Serving, BoundPcs

LEMMA AliveNext ==
    ASSUME Shapes, Alive, [Next]_vars
    PROVE  Alive'
<1> USE Sizes DEF registers, maps, irqvars, probe, binding, queues, requests, worker,
           Prepare, Probing, ProbeStep, Bound, Negotiating, Path, vm_reset,
           write_adapter, read_adapter, CloseMappings
<1>1. CASE Load
  BY <1>1 DEF Load, Shapes, Alive, Serving, BoundPcs
<1>2. CASE Open
  BY <1>2 DEF Open, Shapes, Alive, Serving, BoundPcs
<1>3. CASE EfdInit
  BY <1>3 DEF EfdInit, Shapes, Alive, Serving, BoundPcs
<1>4. CASE ShareComStruct
  BY <1>4 DEF ShareComStruct, Shapes, Alive, Serving, BoundPcs
<1>5. CASE MmapPage
  BY <1>5 DEF MmapPage, Shapes, Alive, Serving, BoundPcs
<1>6. CASE StartLoopback
  BY <1>6 DEF StartLoopback, Shapes, Alive, Serving, BoundPcs
<1>7. CASE start_loopback
  BY <1>7 DEF start_loopback, Shapes, Alive, Serving, BoundPcs
<1>8. CASE Allocate
  BY <1>8 DEF Allocate, Shapes, Alive, Serving, BoundPcs
<1>9. CASE CheckMagic
  BY <1>9 DEF CheckMagic, Shapes, Alive, Serving, BoundPcs
<1>10. CASE CheckVersion
  BY <1>10 DEF CheckVersion, Shapes, Alive, Serving, BoundPcs
<1>11. CASE CheckId
  BY <1>11 DEF CheckId, Shapes, Alive, Serving, BoundPcs
<1>12. CASE RegisterVirtio
  BY <1>12 DEF RegisterVirtio, Shapes, Alive, Serving, BoundPcs
<1>13. CASE Bind
  BY <1>13 DEF Bind, Shapes, Alive, Serving, BoundPcs
<1>14. CASE GetFeatures
  BY <1>14 DEF GetFeatures, Shapes, Alive, Serving, BoundPcs
<1>15. CASE FinalizeFeatures
  BY <1>15 DEF FinalizeFeatures, Shapes, Alive, Serving, BoundPcs
<1>16. CASE CheckFeaturesOk
  BY <1>16 DEF CheckFeaturesOk, Shapes, Alive, Serving, BoundPcs
<1>17. CASE ReadConfig
  BY <1>17 DEF ReadConfig, Shapes, Alive, Serving, BoundPcs
<1>18. CASE SetupVq
  BY <1>18 DEF SetupVq, Shapes, Alive, Serving, BoundPcs
<1>19. CASE SetupVqFails
  BY <1>19 DEF SetupVqFails, Shapes, Alive, Serving, BoundPcs
<1>20. CASE MmapRing
  BY <1>20 DEF MmapRing, Shapes, Alive, Serving, BoundPcs
<1>21. CASE Activated
  BY <1>21 DEF Activated, Shapes, Alive, Serving, BoundPcs
<1>22. CASE SetDriverOk
  BY <1>22 DEF SetDriverOk, Shapes, Alive, Serving, BoundPcs
<1>23. CASE Unbind
  BY <1>23 DEF Unbind, Shapes, Alive, Serving, BoundPcs
<1>24. ASSUME NEW q \in Queues, DelVq(q)
      PROVE  Alive'
  BY <1>24 DEF DelVq, Shapes, Alive, Serving, BoundPcs
<1>25. CASE Deleted
  BY <1>25 DEF Deleted, Shapes, Alive, Serving, BoundPcs
<1>26. ASSUME NEW q \in Queues, Post(q)
      PROVE  Alive'
  BY <1>26 DEF Post, Shapes, Alive, Serving, BoundPcs
<1>27. CASE TakeFirst
  BY <1>27 DEF TakeFirst, Shapes, Alive, Serving, BoundPcs
<1>28. CASE TakeEmpty
  BY <1>28 DEF TakeEmpty, Shapes, Alive, Serving, BoundPcs
<1>29. CASE WriteNotify
  BY <1>29 DEF WriteNotify, Shapes, Alive, Serving, BoundPcs
<1>30. CASE Back
  BY <1>30 DEF Back, Shapes, Alive, Serving, BoundPcs
<1>31. CASE MmapRam
  BY <1>31 DEF MmapRam, Shapes, Alive, Serving, BoundPcs
<1>32. CASE Fault
  BY <1>32 DEF Fault, Shapes, Alive, Serving, BoundPcs
<1>33. ASSUME NEW q \in Queues, Serve(q)
      PROVE  Alive'
  BY <1>33 DEF Serve, Shapes, Alive, Serving, BoundPcs
<1>34. CASE Irq
  BY <1>34 DEF Irq, Shapes, Alive, Serving, BoundPcs
<1>35. CASE ReadStatus
  BY <1>35 DEF ReadStatus, Shapes, Alive, Serving, BoundPcs
<1>36. CASE AckStatus
  BY <1>36 DEF AckStatus, Shapes, Alive, Serving, BoundPcs
<1>37. CASE Walk
  BY <1>37 DEF Walk, Shapes, Alive, Serving, BoundPcs
<1>38. CASE Exit
  BY <1>38 DEF Exit, Shapes, Alive, Serving, BoundPcs
<1>39. CASE Unload
  <2>1. irq = "no" /\ irq' = irq /\ pc' = "unloaded" /\ adapter' = "gone" /\ adapter = "gone"
    BY <1>39 DEF Unload, MayUnload, Alive, Serving
  <2>2. \A q \in Queues : avail'[q] = 0
    BY <1>39 DEF Unload
  <2> QED
    BY <2>1, <2>2 DEF Alive, Serving, BoundPcs
<1>40. CASE UNCHANGED vars
  BY <1>40 DEF vars, Shapes, Alive, Serving, BoundPcs
<1>41. CASE WalkNull
  BY <1>41 DEF WalkNull, Shapes, Alive, Serving, BoundPcs
<1> QED
  BY <1>1, <1>2, <1>3, <1>4, <1>5, <1>6, <1>7, <1>8, <1>9, <1>10, <1>11, <1>12, <1>13,
     <1>14, <1>15, <1>16, <1>17, <1>18, <1>19, <1>20, <1>21, <1>22, <1>23, <1>24, <1>25,
     <1>26, <1>27, <1>28, <1>29, <1>30, <1>31, <1>32, <1>33, <1>34, <1>35, <1>36, <1>37,
     <1>38, <1>39, <1>40, <1>41 DEF Next, Adapter, Probe, Driver, Worker, Device, Interrupt, Handling

\* vm_interrupt never looks at a freed vm_dev, whatever probes fail, whenever the ioctl
\* is called and whenever the device is removed.
THEOREM IrqFindsDevice == Spec => []IrqOnLiveDevice
<1>1. Alive => IrqOnLiveDevice
  BY DEF Alive, IrqOnLiveDevice
<1> QED
  BY <1>1, ShapesInit, AliveInit, ShapesNext, AliveNext, PTL DEF Spec

-----------------------------------------------------------------------------
(* What there is of the queues.                                            *)

Below(n) == {q \in Queues : q < n}

\* Where the driver is in a bind decides which queues have rings, which are in
\* vm_dev->virtqueues and which the device was told of; only those hold requests.
Built ==
    /\ \A q \in virtqueues : q \in Queues /\ rings[q] # None
    /\ pc \notin {"running", "del"} => \A q \in Queues : avail[q] = 0 /\ used[q] = 0
    /\ \A q \in Queues : rings[q] = None => avail[q] = 0 /\ used[q] = 0
    /\ pc \notin {"queues", "activating", "running", "del"} =>
          \A q \in Queues : rings[q] = None
    /\ pc \notin {"queues", "activating", "running", "del"} => virtqueues = {}
    /\ pc \in {"queues", "activating"} => virtqueues = Below(next) /\ nvqs = Count
    /\ pc \in {"features", "finalize", "check", "config"} => next = 0
    /\ pc = "queues" => next <= Count /\ \A q \in Queues : rings[q] # None <=> q < next
    /\ pc = "activating" => next < Count /\ \A q \in Queues : rings[q] # None <=> q <= next
    /\ pc = "running" => virtqueues = Queues /\ \A q \in Queues : rings[q] # None
    /\ Serving /\ pc \in {"queues", "activating", "running"} =>
          \A q \in Queues : rings[q] # None => active[q] = rings[q]
    /\ Serving /\ pc = "running" => driver_ok

LEMMA BuiltInit == Init => Built
BY DEF Init, Built

LEMMA BuiltNext ==
    ASSUME Shapes, Alive, Built, [Next]_vars
    PROVE  Built'
<1> USE Sizes DEF registers, maps, irqvars, probe, binding, queues, requests, worker,
           Prepare, Probing, ProbeStep, Bound, Negotiating, Path, vm_reset,
           write_adapter, read_adapter, CloseMappings
<1>1. CASE Load
  BY <1>1 DEF Load, Shapes, Built, Serving, Below
<1>2. CASE Open
  BY <1>2 DEF Open, Shapes, Built, Serving, Below
<1>3. CASE EfdInit
  BY <1>3 DEF EfdInit, Shapes, Built, Serving, Below
<1>4. CASE ShareComStruct
  BY <1>4 DEF ShareComStruct, Shapes, Built, Serving, Below
<1>5. CASE MmapPage
  BY <1>5 DEF MmapPage, Shapes, Built, Serving, Below
<1>6. CASE StartLoopback
  BY <1>6 DEF StartLoopback, Shapes, Built, Serving, Below, Alive
<1>7. CASE start_loopback
  BY <1>7 DEF start_loopback, Shapes, Built, Serving, Below
<1>8. CASE Allocate
  BY <1>8 DEF Allocate, Shapes, Built, Serving, Below
<1>9. CASE CheckMagic
  BY <1>9 DEF CheckMagic, Shapes, Built, Serving, Below
<1>10. CASE CheckVersion
  BY <1>10 DEF CheckVersion, Shapes, Built, Serving, Below
<1>11. CASE CheckId
  BY <1>11 DEF CheckId, Shapes, Built, Serving, Below
<1>12. CASE RegisterVirtio
  BY <1>12 DEF RegisterVirtio, Shapes, Built, Serving, Below
<1>13. CASE Bind
  BY <1>13 DEF Bind, Shapes, Built, Serving, Below
<1>14. CASE GetFeatures
  BY <1>14 DEF GetFeatures, Shapes, Built, Serving, Below
<1>15. CASE FinalizeFeatures
  BY <1>15 DEF FinalizeFeatures, Shapes, Built, Serving, Below
<1>16. CASE CheckFeaturesOk
  BY <1>16 DEF CheckFeaturesOk, Shapes, Built, Serving, Below
<1>17. CASE ReadConfig
  BY <1>17 DEF ReadConfig, Shapes, Built, Serving, Below
<1>18. CASE SetupVq
  <2>1. /\ next \in Queues /\ next < Count /\ binds \in 1..MaxBinds
        /\ pc = "queues" /\ pc' = "activating"
        /\ next' = next /\ virtqueues' = virtqueues /\ nvqs' = nvqs
        /\ avail' = avail /\ used' = used /\ Serving' = Serving
        /\ rings' = [rings EXCEPT ![next] = <<binds, next>>]
        /\ active' = [active EXCEPT ![next] = rings'[next]]
    BY <1>18 DEF SetupVq, Shapes, Attached, BoundPcs, Serving
  <2>2. <<binds, next>> # None
    BY <2>1, Sizes
  <2>3. /\ rings'[next] # None /\ active'[next] = rings'[next]
        /\ \A q \in Queues \ {next} : rings'[q] = rings[q] /\ active'[q] = active[q]
    BY <2>1, <2>2 DEF Shapes
  <2>4. \A q \in Queues : rings'[q] # None <=> q <= next
    BY <2>1, <2>3 DEF Built, Shapes
  <2>5. \A q \in Queues : avail[q] = 0 /\ used[q] = 0
    BY <2>1 DEF Built
  <2>6. Serving => \A q \in Queues : rings'[q] # None => active'[q] = rings'[q]
    BY <2>1, <2>3 DEF Built
  <2>7. /\ virtqueues = Below(next) /\ nvqs = Count
        /\ \A q \in virtqueues : q \in Queues /\ rings'[q] # None
    BY <2>1, <2>4 DEF Built, Below, Shapes
  <2> QED
    BY <2>1, <2>4, <2>5, <2>6, <2>7 DEF Built, Below
<1>19. CASE SetupVqFails
  BY <1>19 DEF SetupVqFails, Shapes, Built, Serving, Below
<1>20. CASE MmapRing
  BY <1>20 DEF MmapRing, Shapes, Built, Serving, Below
<1>21. CASE Activated
  BY <1>21 DEF Activated, Shapes, Built, Serving, Below
<1>22. CASE SetDriverOk
  <2>1. next = Count /\ virtqueues = Below(Count) /\ \A q \in Queues : rings[q] # None <=> q < Count
    BY <1>22 DEF SetDriverOk, Built
  <2>2. virtqueues = Queues /\ \A q \in Queues : rings[q] # None
    BY <2>1, Sizes DEF Below
  <2> QED
    BY <1>22, <2>2 DEF SetDriverOk, Built, Serving
<1>23. CASE Unbind
  BY <1>23 DEF Unbind, Shapes, Built, Serving, Below
<1>24. ASSUME NEW q \in Queues, DelVq(q)
      PROVE  Built'
  <2>1. /\ pc = "del" /\ pc' = "del" /\ virtqueues' = virtqueues \ {q}
        /\ rings' = [rings EXCEPT ![q] = None]
        /\ avail' = [avail EXCEPT ![q] = 0] /\ used' = [used EXCEPT ![q] = 0]
    BY <1>24 DEF DelVq
  <2>2. /\ rings'[q] = None /\ avail'[q] = 0 /\ used'[q] = 0
        /\ \A p \in Queues \ {q} : rings'[p] = rings[p] /\ avail'[p] = avail[p] /\ used'[p] = used[p]
    BY <2>1 DEF Shapes
  <2>3. /\ \A p \in virtqueues' : p \in Queues /\ rings'[p] # None
        /\ \A p \in Queues : rings'[p] = None => avail'[p] = 0 /\ used'[p] = 0
    BY <2>1, <2>2 DEF Built
  <2> QED
    BY <2>1, <2>3 DEF Built
<1>25. CASE Deleted
  <2>1. virtqueues = {} /\ \A q \in Queues : rings[q] = None /\ avail[q] = 0 /\ used[q] = 0
    BY <1>25 DEF Deleted, Built
  <2> QED
    BY <1>25, <2>1 DEF Deleted, Built, Serving
<1>26. ASSUME NEW q \in Queues, Post(q)
      PROVE  Built'
  BY <1>26 DEF Post, Shapes, Built, Serving, Below
<1>27. CASE TakeFirst
  BY <1>27 DEF TakeFirst, Shapes, Built, Serving, Below
<1>28. CASE TakeEmpty
  BY <1>28 DEF TakeEmpty, Shapes, Built, Serving, Below
<1>29. CASE WriteNotify
  BY <1>29 DEF WriteNotify, Shapes, Built, Serving, Below
<1>30. CASE Back
  BY <1>30 DEF Back, Shapes, Built, Serving, Below
<1>31. CASE MmapRam
  BY <1>31 DEF MmapRam, Shapes, Built, Serving, Below
<1>32. CASE Fault
  BY <1>32 DEF Fault, Shapes, Built, Serving, Below
<1>33. ASSUME NEW q \in Queues, Serve(q)
      PROVE  Built'
  <2>1. CASE avail' = avail /\ used' = used
    BY <1>33, <2>1 DEF Serve, Built, Serving, Below
  <2>2. CASE ~(avail' = avail /\ used' = used)
    <3>1. /\ mapped[q] = rings[q] /\ avail[q] > 0
          /\ avail' = [avail EXCEPT ![q] = 0] /\ used' = [used EXCEPT ![q] = @ + avail[q]]
      BY <1>33, <2>2 DEF Serve
    <3>2. rings[q] # None /\ pc \in {"running", "del"}
      BY <3>1 DEF Built, Shapes
    <3>3. \A p \in Queues \ {q} : avail'[p] = avail[p] /\ used'[p] = used[p]
      BY <3>1 DEF Shapes
    <3> QED
      BY <1>33, <3>2, <3>3 DEF Serve, Built, Serving, Below
  <2> QED
    BY <2>1, <2>2
<1>34. CASE Irq
  BY <1>34 DEF Irq, Shapes, Built, Serving, Below
<1>35. CASE ReadStatus
  BY <1>35 DEF ReadStatus, Shapes, Built, Serving, Below
<1>36. CASE AckStatus
  BY <1>36 DEF AckStatus, Shapes, Built, Serving, Below
<1>37. CASE Walk
  BY <1>37 DEF Walk, Shapes, Built, Serving, Below
<1>38. CASE Exit
  BY <1>38 DEF Exit, Shapes, Built, Serving, Below
<1>39. CASE Unload
  BY <1>39 DEF Unload, Shapes, Built, Serving, Below
<1>40. CASE UNCHANGED vars
  BY <1>40 DEF vars, Shapes, Built, Serving, Below
<1>41. CASE WalkNull
  BY <1>41 DEF WalkNull, Shapes, Built, Serving, Below
<1> QED
  BY <1>1, <1>2, <1>3, <1>4, <1>5, <1>6, <1>7, <1>8, <1>9, <1>10, <1>11, <1>12, <1>13,
     <1>14, <1>15, <1>16, <1>17, <1>18, <1>19, <1>20, <1>21, <1>22, <1>23, <1>24, <1>25,
     <1>26, <1>27, <1>28, <1>29, <1>30, <1>31, <1>32, <1>33, <1>34, <1>35, <1>36, <1>37,
     <1>38, <1>39, <1>40, <1>41 DEF Next, Adapter, Probe, Driver, Worker, Device, Interrupt, Handling

-----------------------------------------------------------------------------
(* Nothing is stranded.                                                    *)

LEMMA StrandedInit == Init => NothingStranded
BY DEF Init, NothingStranded

LEMMA StrandedNext ==
    ASSUME Shapes, Built, NothingStranded, [Next]_vars
    PROVE  NothingStranded'
<1> USE Sizes DEF registers, maps, irqvars, probe, binding, queues, requests, worker,
           Prepare, Probing, ProbeStep, Bound, Negotiating, Path, vm_reset,
           write_adapter, read_adapter, CloseMappings
<1>1. CASE Load
  BY <1>1 DEF Load, Shapes, Built, NothingStranded, Serving
<1>2. CASE Open
  BY <1>2 DEF Open, Shapes, Built, NothingStranded, Serving
<1>3. CASE EfdInit
  BY <1>3 DEF EfdInit, Shapes, Built, NothingStranded, Serving
<1>4. CASE ShareComStruct
  BY <1>4 DEF ShareComStruct, Shapes, Built, NothingStranded, Serving
<1>5. CASE MmapPage
  BY <1>5 DEF MmapPage, Shapes, Built, NothingStranded, Serving
<1>6. CASE StartLoopback
  BY <1>6 DEF StartLoopback, Shapes, Built, NothingStranded, Serving
<1>7. CASE start_loopback
  BY <1>7 DEF start_loopback, Shapes, Built, NothingStranded, Serving
<1>8. CASE Allocate
  BY <1>8 DEF Allocate, Shapes, Built, NothingStranded, Serving
<1>9. CASE CheckMagic
  BY <1>9 DEF CheckMagic, Shapes, Built, NothingStranded, Serving
<1>10. CASE CheckVersion
  BY <1>10 DEF CheckVersion, Shapes, Built, NothingStranded, Serving
<1>11. CASE CheckId
  BY <1>11 DEF CheckId, Shapes, Built, NothingStranded, Serving
<1>12. CASE RegisterVirtio
  BY <1>12 DEF RegisterVirtio, Shapes, Built, NothingStranded, Serving
<1>13. CASE Bind
  BY <1>13 DEF Bind, Shapes, Built, NothingStranded, Serving
<1>14. CASE GetFeatures
  BY <1>14 DEF GetFeatures, Shapes, Built, NothingStranded, Serving
<1>15. CASE FinalizeFeatures
  BY <1>15 DEF FinalizeFeatures, Shapes, Built, NothingStranded, Serving
<1>16. CASE CheckFeaturesOk
  BY <1>16 DEF CheckFeaturesOk, Shapes, Built, NothingStranded, Serving
<1>17. CASE ReadConfig
  BY <1>17 DEF ReadConfig, Shapes, Built, NothingStranded, Serving
<1>18. CASE SetupVq
  BY <1>18 DEF SetupVq, Shapes, Built, NothingStranded, Serving
<1>19. CASE SetupVqFails
  BY <1>19 DEF SetupVqFails, Shapes, Built, NothingStranded, Serving
<1>20. CASE MmapRing
  BY <1>20 DEF MmapRing, Shapes, Built, NothingStranded, Serving
<1>21. CASE Activated
  BY <1>21 DEF Activated, Shapes, Built, NothingStranded, Serving
<1>22. CASE SetDriverOk
  <2>1. \A q \in Queues : avail'[q] = 0 /\ used'[q] = 0
    BY <1>22 DEF SetDriverOk, Built
  <2> QED
    BY <2>1 DEF NothingStranded
<1>23. CASE Unbind
  BY <1>23 DEF Unbind, Shapes, Built, NothingStranded, Serving
<1>24. ASSUME NEW q \in Queues, DelVq(q)
      PROVE  NothingStranded'
  BY <1>24 DEF DelVq, Shapes, Built, NothingStranded, Serving
<1>25. CASE Deleted
  BY <1>25 DEF Deleted, Shapes, Built, NothingStranded, Serving
<1>26. ASSUME NEW q \in Queues, Post(q)
      PROVE  NothingStranded'
  <2>1. /\ notify_list \in Seq(Queues) /\ notify_list' = Append(notify_list, q)
        /\ mapped' = mapped /\ rings' = rings /\ used' = used /\ wpc' = wpc /\ cur' = cur
        /\ kicked' = kicked /\ interrupt' = interrupt /\ irq' = irq /\ status' = status
        /\ Serving' = Serving /\ pc' = pc
    BY <1>26 DEF Post, Shapes, Serving
  <2>2. /\ Len(notify_list') = Len(notify_list) + 1 /\ Len(notify_list) \in Nat
        /\ notify_list'[Len(notify_list) + 1] = q
        /\ \A n \in 1..Len(notify_list) : notify_list'[n] = notify_list[n]
    BY <2>1, AppendProperties, LenProperties
  <2>3. \A p \in Queues \ {q} : avail'[p] = avail[p]
    BY <1>26 DEF Post, Shapes
  <2>4. \E n \in 1..Len(notify_list') : notify_list'[n] = q
    BY <2>2
  <2>5. ASSUME NEW p \in Queues, \E n \in 1..Len(notify_list) : notify_list[n] = p
        PROVE  \E n \in 1..Len(notify_list') : notify_list'[n] = p
    BY <2>2, <2>5
  <2> QED
    BY <2>1, <2>3, <2>4, <2>5 DEF NothingStranded
<1>27. CASE TakeFirst
  <2>1. /\ notify_list \in Seq(Queues) /\ notify_list # <<>> /\ notify_list' = Tail(notify_list)
        /\ cur' = Head(notify_list) /\ wpc = "wait" /\ wpc' = "write"
        /\ mapped' = mapped /\ rings' = rings /\ avail' = avail /\ used' = used
        /\ kicked' = kicked /\ interrupt' = interrupt /\ irq' = irq /\ status' = status
        /\ Serving' = Serving /\ pc' = pc
    BY <1>27 DEF TakeFirst, Shapes, Serving
  <2>2. /\ Len(notify_list') = Len(notify_list) - 1 /\ Len(notify_list) \in Nat
        /\ cur' = notify_list[1]
        /\ \A n \in 1..(Len(notify_list) - 1) : notify_list'[n] = notify_list[n + 1]
    BY <2>1, HeadTailProperties, LenProperties
  <2>3. ASSUME NEW p \in Queues, NEW n \in 1..Len(notify_list), notify_list[n] = p, p # cur'
        PROVE  \E m \in 1..Len(notify_list') : notify_list'[m] = p
    <3>1. n # 1 /\ n - 1 \in 1..(Len(notify_list) - 1)
      BY <2>2, <2>3
    <3>2. notify_list'[n - 1] = notify_list[(n - 1) + 1]
      BY <2>2, <3>1
    <3> QED
      BY <2>2, <2>3, <3>1, <3>2
  <2> QED
    BY <2>1, <2>3 DEF NothingStranded
<1>28. CASE TakeEmpty
  BY <1>28 DEF TakeEmpty, Shapes, Built, NothingStranded, Serving
<1>29. CASE WriteNotify
  <2>1. /\ notify_list' = notify_list /\ wpc = "write" /\ cur' = cur /\ mapped' = mapped
        /\ rings' = rings /\ irq' = irq /\ status' = status /\ Serving' = Serving /\ pc' = pc
        /\ avail' = avail /\ used' = used /\ interrupt' = interrupt /\ kicked \subseteq kicked'
    BY <1>29 DEF WriteNotify, Serving
  <2>2. Serving /\ pc = "running" => cur \in kicked'
    <3>1. Serving /\ pc = "running" => driver_ok /\ active[cur] = rings[cur] /\ rings[cur] # None
      BY DEF Built, Shapes
    <3> QED
      BY <1>29, <3>1 DEF WriteNotify
  <2> QED
    BY <2>1, <2>2 DEF NothingStranded
<1>30. CASE Back
  BY <1>30 DEF Back, Shapes, Built, NothingStranded, Serving
<1>31. CASE MmapRam
  BY <1>31 DEF MmapRam, Shapes, Built, NothingStranded, Serving
<1>32. CASE Fault
  BY <1>32 DEF Fault, Shapes, Built, NothingStranded, Serving
<1>33. ASSUME NEW q \in Queues, Serve(q)
      PROVE  NothingStranded'
  <2>1. /\ notify_list' = notify_list /\ wpc' = wpc /\ cur' = cur /\ mapped' = mapped
        /\ rings' = rings /\ irq' = irq /\ status' = status /\ Serving' = Serving /\ pc' = pc
        /\ kicked' = kicked \ {q}
    BY <1>33 DEF Serve, Serving
  <2>2. CASE mapped[q] = rings[q] /\ avail[q] > 0
    <3>1. interrupt' /\ avail' = [avail EXCEPT ![q] = 0]
      BY <1>33, <2>2 DEF Serve
    <3>2. avail'[q] = 0 /\ \A p \in Queues \ {q} : avail'[p] = avail[p]
      BY <3>1 DEF Shapes
    <3> QED
      BY <2>1, <3>1, <3>2 DEF NothingStranded
  <2>3. CASE ~(mapped[q] = rings[q] /\ avail[q] > 0)
    <3>1. avail' = avail /\ used' = used /\ interrupt' = interrupt
      BY <1>33, <2>3 DEF Serve
    <3> QED
      BY <2>1, <2>3, <3>1 DEF NothingStranded
  <2> QED
    BY <2>2, <2>3
<1>34. CASE Irq
  BY <1>34 DEF Irq, Shapes, Built, NothingStranded, Serving
<1>35. CASE ReadStatus
  BY <1>35 DEF ReadStatus, Shapes, Built, NothingStranded, Serving
<1>36. CASE AckStatus
  BY <1>36 DEF AckStatus, Shapes, Built, NothingStranded, Serving
<1>37. CASE Walk
  <2>1. /\ notify_list' = notify_list /\ wpc' = wpc /\ cur' = cur /\ mapped' = mapped
        /\ rings' = rings /\ status' = status /\ Serving' = Serving /\ pc' = pc
        /\ kicked' = kicked /\ avail' = avail /\ interrupt' = interrupt /\ irq = "walk"
        /\ used' = [p \in Queues |-> IF status /\ p \in virtqueues THEN 0 ELSE used[p]]
    BY <1>37 DEF Walk, Serving
  <2>2. Serving /\ pc = "running" => \A p \in Queues : used'[p] = (IF status THEN 0 ELSE used[p])
    BY <2>1 DEF Built
  <2> QED
    BY <2>1, <2>2 DEF NothingStranded
<1>38. CASE Exit
  BY <1>38 DEF Exit, Shapes, Built, NothingStranded, Serving
<1>39. CASE Unload
  BY <1>39 DEF Unload, Shapes, Built, NothingStranded, Serving
<1>40. CASE UNCHANGED vars
  BY <1>40 DEF vars, Shapes, Built, NothingStranded, Serving
<1>41. CASE WalkNull
  BY <1>41 DEF WalkNull, Shapes, Built, NothingStranded, Serving
<1> QED
  BY <1>1, <1>2, <1>3, <1>4, <1>5, <1>6, <1>7, <1>8, <1>9, <1>10, <1>11, <1>12, <1>13,
     <1>14, <1>15, <1>16, <1>17, <1>18, <1>19, <1>20, <1>21, <1>22, <1>23, <1>24, <1>25,
     <1>26, <1>27, <1>28, <1>29, <1>30, <1>31, <1>32, <1>33, <1>34, <1>35, <1>36, <1>37,
     <1>38, <1>39, <1>40, <1>41 DEF Next, Adapter, Probe, Driver, Worker, Device, Interrupt, Handling

\* Every request in a mapped ring has its kick on the way to the device and every
\* served one its interrupt on the way to the driver, across unbinds and binds.
THEOREM NothingIsStranded == Spec => []NothingStranded
BY ShapesInit, AliveInit, BuiltInit, StrandedInit, ShapesNext, AliveNext, BuiltNext,
   StrandedNext, PTL DEF Spec
-----------------------------------------------------------------------------
(* All types.                                                              *)

LEMMA Constants ==
    /\ Depth \in Nat /\ MaxPosts \in Nat
    /\ \A d \in Devices : d.version \in Nat /\ d.modern \in BOOLEAN
BY LoopbackAssumption

\* Where the threads are and what they hold of the device.
Points ==
    /\ adapter \in Phases /\ attrs \in Devices
    /\ ram \in {"none", "mapped", "touched"}
    /\ irq \in {"no", "status", "ack", "walk", "oops"} /\ irq_dev \in BOOLEAN /\ pc \in Pcs
    /\ vm_dev_irq \in {"null", "live", "freed"} /\ version \in Nat
    /\ modern \in BOOLEAN /\ posts \in 0..MaxPosts
    /\ wpc \in {"off", "wait", "write", "back", "end", "oops"}

LEMMA PointsNext ==
    ASSUME Points, Shapes, [Next]_vars
    PROVE  Points'
<1> USE Constants DEF registers, maps, irqvars, probe, binding, queues, requests, worker,
           Prepare, Probing, ProbeStep, Bound, Negotiating, Path, CloseMappings,
           read_adapter, Points, Phases, Pcs
<1>1. CASE Adapter
  BY <1>1 DEF Adapter, Load, Open, EfdInit, ShareComStruct, MmapPage, StartLoopback
<1>2. CASE Probe
  BY <1>2 DEF Probe, start_loopback, Allocate, CheckMagic, CheckVersion, CheckId, RegisterVirtio
<1>3. CASE Bind \/ GetFeatures \/ FinalizeFeatures \/ CheckFeaturesOk \/ ReadConfig
  BY <1>3 DEF Bind, GetFeatures, FinalizeFeatures, CheckFeaturesOk, ReadConfig
<1>4. CASE SetupVq \/ SetupVqFails \/ MmapRing \/ Activated \/ SetDriverOk \/ Unbind \/ Deleted
  BY <1>4 DEF SetupVq, SetupVqFails, MmapRing, Activated, SetDriverOk, Unbind, Deleted
<1>5. ASSUME NEW q \in Queues, DelVq(q) \/ Post(q) \/ Serve(q)
      PROVE  Points'
  BY <1>5 DEF DelVq, Post, Serve
<1>6. CASE Worker \/ MmapRam \/ Fault
  BY <1>6 DEF Worker, TakeFirst, TakeEmpty, WriteNotify, Back, MmapRam, Fault
<1>7. CASE Irq \/ ReadStatus \/ AckStatus
  BY <1>7 DEF Irq, ReadStatus, AckStatus
<1>8. CASE Walk \/ WalkNull
  BY <1>8 DEF Walk, WalkNull
<1>9. CASE Exit \/ Unload
  BY <1>9 DEF Exit, Unload
<1>10. CASE UNCHANGED vars
  BY <1>10 DEF vars
<1> QED
  BY <1>1, <1>2, <1>3, <1>4, <1>5, <1>6, <1>7, <1>8, <1>9, <1>10
  DEF Next, Driver, Device, Interrupt, Handling

\* A version 1 device's frames are recorded up to the queue vm_find_vqs is at, also
\* in a later bind, in which the record only grows; the adapter maps one of them.
Recorded ==
    /\ vq_pfns \in Seq(Frames) /\ mapped \in [Queues -> Frames \cup {Zero, None}]
    /\ next \in 0..Count
    /\ version = 1 => /\ pc = "queues" => next <= Len(vq_pfns)
                      /\ pc = "activating" => next < Len(vq_pfns)

\* The steps that have something to do with it.
LEMMA RecordKept ==
    ASSUME [Next]_vars
    PROVE  \/ Bind \/ ReadConfig \/ SetupVq \/ MmapRing \/ Activated \/ Unbind \/ Exit
           \/ \E q \in Queues : DelVq(q)
           \/ UNCHANGED <<vq_pfns, mapped, next, version, pc>>
           \/ UNCHANGED <<vq_pfns, mapped, next>> /\ pc' \notin {"queues", "activating"}
<1> USE DEF registers, maps, irqvars, probe, binding, queues, requests, worker,
           Prepare, Probing, ProbeStep, Bound, Negotiating, Path
<1>1. CASE Adapter
  BY <1>1 DEF Adapter, Load, Open, EfdInit, ShareComStruct, MmapPage, StartLoopback
<1>2. CASE Probe
  BY <1>2 DEF Probe, start_loopback, Allocate, CheckMagic, CheckVersion, CheckId, RegisterVirtio
<1>3. CASE GetFeatures
  BY <1>3 DEF GetFeatures
<1>4. CASE FinalizeFeatures
  BY <1>4 DEF FinalizeFeatures
<1>5. CASE CheckFeaturesOk
  BY <1>5 DEF CheckFeaturesOk
<1>6. CASE SetupVqFails \/ SetDriverOk \/ Deleted
  BY <1>6 DEF SetupVqFails, SetDriverOk, Deleted
<1>7. ASSUME NEW q \in Queues, Post(q) \/ Serve(q)
      PROVE  UNCHANGED <<vq_pfns, mapped, next, version, pc>>
  BY <1>7 DEF Post, Serve
<1>8. CASE Worker \/ MmapRam \/ Fault
  BY <1>8 DEF Worker, TakeFirst, TakeEmpty, WriteNotify, Back, MmapRam, Fault
<1>9. CASE Interrupt \/ Unload
  BY <1>9 DEF Interrupt, Handling, Irq, ReadStatus, AckStatus, Walk, WalkNull, Unload
<1>10. CASE UNCHANGED vars
  BY <1>10 DEF vars
<1> QED
  BY <1>1, <1>2, <1>3, <1>4, <1>5, <1>6, <1>7, <1>8, <1>9, <1>10 DEF Next, Driver, Device

\* The queue that is set up next has a frame.
LEMMA NextFrame ==
    ASSUME Shapes, pc = "queues", next < nvqs
    PROVE  next \in Queues /\ <<binds, next>> \in Frames
<1>1. next \in Queues /\ binds \in 1..MaxBinds
  BY Sizes DEF Shapes, Attached, BoundPcs
<1> QED
  BY <1>1, Sizes

LEMMA RecordedNext ==
    ASSUME Recorded, Shapes, Built, [Next]_vars
    PROVE  Recorded'
<1> USE Sizes DEF maps, probe, binding, queues, Bound, Negotiating, Path
<1>1. CASE Bind
  BY <1>1 DEF Bind, vm_reset, write_adapter, Recorded
<1>2. CASE ReadConfig
  <2>1. next = 0 /\ UNCHANGED <<vq_pfns, mapped, next>> /\ pc' \in {"device", "queues"}
    BY <1>2 DEF ReadConfig, Built
  <2>2. Len(vq_pfns) \in Nat
    BY DEF Recorded
  <2> QED
    BY <2>1, <2>2 DEF Recorded
<1>3. CASE SetupVq
  <2>1. next \in Queues /\ <<binds, next>> \in Frames
    BY <1>3, NextFrame DEF SetupVq
  <2>2. /\ mapped' = mapped /\ next' = next /\ version' = version
        /\ pc = "queues" /\ pc' = "activating"
        /\ rings' = [rings EXCEPT ![next] = <<binds, next>>]
        /\ vq_pfns' = IF version = 1 THEN Append(vq_pfns, rings'[next]) ELSE vq_pfns
    BY <1>3 DEF SetupVq
  <2>3. rings'[next] = <<binds, next>>
    BY <2>1, <2>2 DEF Shapes
  <2>4. vq_pfns' \in Seq(Frames) /\ (version = 1 => Len(vq_pfns') = Len(vq_pfns) + 1)
    BY <2>1, <2>2, <2>3 DEF Recorded
  <2> QED
    BY <2>2, <2>4 DEF Recorded
<1>4. CASE MmapRing
  <2>1. pc = "activating" /\ next \in Queues
    BY <1>4 DEF MmapRing, Recorded, Built
  <2>2. ShareVqs(next) \in Frames \cup {Zero, None}
    <3>1. CASE version = 1
      <4>1. next + 1 \in 1..Len(vq_pfns)
        BY <2>1, <3>1 DEF Recorded
      <4> QED
        BY <3>1, <4>1 DEF ShareVqs, Recorded
    <3>2. CASE version # 1
      BY <3>2 DEF ShareVqs
    <3> QED
      BY <3>1, <3>2
  <2>3. mapped' \in [Queues -> Frames \cup {Zero, None}]
    BY <1>4, <2>2 DEF MmapRing, Recorded
  <2> QED
    BY <1>4, <2>3 DEF MmapRing, Recorded
<1>5. CASE Activated
  BY <1>5 DEF Activated, Recorded, Built
<1>6. CASE Unbind
  BY <1>6 DEF Unbind, vm_reset, write_adapter, Recorded
<1>7. CASE Exit
  BY <1>7 DEF Exit, CloseMappings, Recorded
<1>8. ASSUME NEW q \in Queues, DelVq(q)
      PROVE  Recorded'
  BY <1>8 DEF DelVq, write_adapter, Recorded
<1>9. CASE UNCHANGED <<vq_pfns, mapped, next, version, pc>>
  BY <1>9 DEF Recorded
<1>10. CASE UNCHANGED <<vq_pfns, mapped, next>> /\ pc' \notin {"queues", "activating"}
  BY <1>10 DEF Recorded
<1> QED
  BY <1>1, <1>2, <1>3, <1>4, <1>5, <1>6, <1>7, <1>8, <1>9, <1>10, RecordKept

\* What is in a ring, posted or served, is at most what the ring was made for.
Outstanding ==
    /\ avail \in [Queues -> 0..Depth] /\ used \in [Queues -> 0..Depth]
    /\ \A q \in Queues : avail[q] + used[q] <= Depth

LEMMA RequestsKept ==
    ASSUME [Next]_vars
    PROVE  \/ \E q \in Queues : DelVq(q) \/ Post(q) \/ Serve(q)
           \/ Walk \/ Unload \/ UNCHANGED requests
<1> USE DEF registers, maps, irqvars, probe, binding, queues, requests, worker,
           Prepare, Probing, ProbeStep, Bound, Negotiating, Path
<1>1. CASE Adapter
  BY <1>1 DEF Adapter, Load, Open, EfdInit, ShareComStruct, MmapPage, StartLoopback
<1>2. CASE Probe
  BY <1>2 DEF Probe, start_loopback, Allocate, CheckMagic, CheckVersion, CheckId, RegisterVirtio
<1>3. CASE Bind \/ GetFeatures \/ FinalizeFeatures \/ CheckFeaturesOk \/ ReadConfig
  BY <1>3 DEF Bind, GetFeatures, FinalizeFeatures, CheckFeaturesOk, ReadConfig
<1>4. CASE SetupVq \/ SetupVqFails \/ MmapRing \/ Activated \/ SetDriverOk \/ Unbind \/ Deleted
  BY <1>4 DEF SetupVq, SetupVqFails, MmapRing, Activated, SetDriverOk, Unbind, Deleted
<1>5. CASE Worker \/ MmapRam \/ Fault
  BY <1>5 DEF Worker, TakeFirst, TakeEmpty, WriteNotify, Back, MmapRam, Fault
<1>6. CASE Irq \/ ReadStatus \/ AckStatus \/ WalkNull \/ Exit
  BY <1>6 DEF Irq, ReadStatus, AckStatus, WalkNull, Exit
<1>7. CASE UNCHANGED vars
  BY <1>7 DEF vars
<1> QED
  BY <1>1, <1>2, <1>3, <1>4, <1>5, <1>6, <1>7 DEF Next, Driver, Device, Interrupt, Handling

LEMMA OutstandingNext ==
    ASSUME Outstanding, [Next]_vars
    PROVE  Outstanding'
<1> USE Constants
<1>1. ASSUME NEW q \in Queues, DelVq(q)
      PROVE  Outstanding'
  BY <1>1 DEF DelVq, Outstanding
<1>2. ASSUME NEW q \in Queues, Post(q)
      PROVE  Outstanding'
  <2>1. avail[q] + 1 \in 0..Depth /\ avail[q] + 1 + used[q] <= Depth
    BY <1>2 DEF Post, Outstanding
  <2> QED
    BY <1>2, <2>1 DEF Post, Outstanding
<1>3. ASSUME NEW q \in Queues, Serve(q)
      PROVE  Outstanding'
  <2>1. CASE UNCHANGED <<avail, used>>
    BY <2>1 DEF Outstanding
  <2>2. CASE /\ used' = [used EXCEPT ![q] = used[q] + avail[q]]
             /\ avail' = [avail EXCEPT ![q] = 0]
    <3>1. used[q] + avail[q] \in 0..Depth
      BY DEF Outstanding
    <3> QED
      BY <2>2, <3>1 DEF Outstanding
  <2> QED
    BY <1>3, <2>1, <2>2 DEF Serve
<1>4. CASE Walk
  BY <1>4 DEF Walk, Outstanding
<1>5. CASE Unload
  BY <1>5 DEF Unload, Outstanding
<1>6. CASE UNCHANGED requests
  BY <1>6 DEF requests, Outstanding
<1> QED
  BY <1>1, <1>2, <1>3, <1>4, <1>5, <1>6, RequestsKept

LEMMA TypeInit == Init => Points /\ Recorded /\ Outstanding
<1> SUFFICES ASSUME Init PROVE Points /\ Recorded /\ Outstanding
  OBVIOUS
<1>1. Points
  <2>1. posts \in 0..MaxPosts /\ version \in Nat
    BY Constants DEF Init
  <2> QED
    BY <2>1 DEF Init, Points, Phases, Pcs
<1>2. Recorded
  BY Sizes DEF Init, Recorded
<1>3. Outstanding
  BY Constants DEF Init, Outstanding
<1> QED
  BY <1>1, <1>2, <1>3

\* The whole device's variables keep their types, for any queues, requests, binds and
\* devices of the adapter.
THEOREM DeviceTypes == Spec => []TypeOK
<1>1. Shapes /\ Built /\ Points /\ Recorded /\ Outstanding => TypeOK
  BY DEF Shapes, Built, Points, Recorded, Outstanding, TypeOK
<1> QED
  BY <1>1, ShapesInit, AliveInit, BuiltInit, TypeInit, ShapesNext, AliveNext, BuiltNext,
     PointsNext, RecordedNext, OutstandingNext, PTL DEF Spec
=============================================================================
