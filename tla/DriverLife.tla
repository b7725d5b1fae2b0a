----------------------------- MODULE DriverLife -----------------------------
(***************************************************************************)
(* The two loopback modules in one kernel, loading and unloading:          *)
(* loopback_init with its unchecked calls, the character device and its    *)
(* exclusive open, START_LOOPBACK and the thread that registers a platform *)
(* driver and a platform device, the probe, and loopback_exit.  Both       *)
(* modules are built from one text (loopback_driver0.c, and                *)
(* loopback_driver1.c with MULTDEV) and share the kernel's tables of       *)
(* majors, classes, nodes, drivers and devices.  What the transport does   *)
(* once it is probed is in LoopbackDevice.                                 *)
(***************************************************************************)
EXTENDS Naturals, FiniteSets, Functions

CONSTANTS Modules,    \* the modules, those built with MULTDEV among them
          Multdev,
          Majors,     \* majors of character devices
          Procs,      \* processes that open the devices
          Nobody,     \* no process, no module
          MaxLoads,   \* bound on the loads of each module
          MaxStarts,  \* bound on its START_LOOPBACKs per load
          MaxAll      \* bound on the loads, and on the START_LOOPBACKs, of all modules

ASSUME LifeAssumption ==
    /\ Multdev \subseteq Modules /\ Nobody \notin Modules \cup Procs
    /\ Majors # {} /\ {MaxLoads, MaxStarts, MaxAll} \subseteq Nat

VARIABLES regions,          \* majors handed out by alloc_chrdev_region
          classes,          \* majors in the name of a class, loopback-<major>
          nodes,            \* majors with a node in /dev
          cdevs,            \* per major: the modules whose cdev it leads to
          stage,            \* per module: out, or where in init or exit
          dev_major,        \* the module's globals: its major,
          in_use, info,     \* IN_USE_BIT, whose session the shared page is of
          pdrv, pdev,       \* its platform driver and its platform device
          bound,            \* the module whose driver probed its device
          thread, worker,   \* start_loopback, async_work
          files,            \* per module: the processes that have it open
          loads, starts,
          orderly           \* history: one START that did not fail, an exit after its end

tables == <<regions, classes, nodes, cdevs>>
session == <<in_use, info, files>>
platform == <<pdrv, pdev, bound>>
tasks == <<thread, worker>>
vars == <<tables, stage, dev_major, session, platform, tasks, loads, starts, orderly>>

Loading == {"region", "class", "cdev", "node"}
Exiting == {"del", "unregister", "destroy", "free"}
Each(S) == [Modules -> S]

TypeOK ==
    /\ {regions, classes, nodes} \subseteq SUBSET Majors
    /\ cdevs \in [Majors -> SUBSET Modules]
    /\ stage \in Each({"out", "in", "oops"} \cup Loading \cup Exiting)
    /\ dev_major \in Each(Majors)
    /\ in_use \in Each(BOOLEAN) /\ info \in Each(Procs \cup {Nobody})
    /\ pdrv \in Each(BOOLEAN) /\ pdev \in Each({"new", "registered", "twice"})
    /\ bound \in Each(Modules \cup {Nobody})
    /\ thread \in Each({"none", "driver", "device", "probe"})
    /\ worker \in Each(BOOLEAN) /\ files \in Each(SUBSET Procs)
    /\ loads \in Each(0..MaxLoads) /\ starts \in Each(0..MaxStarts)
    /\ orderly \in Each(BOOLEAN)

Init ==
    /\ regions = {} /\ classes = {} /\ nodes = {}
    /\ cdevs = [n \in Majors |-> {}]
    /\ stage = [m \in Modules |-> "out"] /\ dev_major \in Each(Majors)
    /\ in_use = [m \in Modules |-> FALSE] /\ info = [m \in Modules |-> Nobody]
    /\ pdrv = [m \in Modules |-> FALSE] /\ pdev = [m \in Modules |-> "new"]
    /\ bound = [m \in Modules |-> Nobody]
    /\ thread = [m \in Modules |-> "none"] /\ worker = [m \in Modules |-> FALSE]
    /\ files = [m \in Modules |-> {}]
    /\ loads = [m \in Modules |-> 0] /\ starts = [m \in Modules |-> 0]
    /\ orderly = [m \in Modules |-> TRUE]

\* The names of virtio_loopback_device and virtio_mmio_driver.
TransportName(m) == IF m \in Multdev THEN "loopback-transport-1" ELSE "loopback-transport-0"

\* Whether all modules together may do once more what f counts.
Spare(f) == FoldFunction(+, 0, f) < MaxAll

Goes(m, from, to) == stage[m] = from /\ stage' = [stage EXCEPT ![m] = to]

-----------------------------------------------------------------------------
(* loopback_init.                                                           *)

\* A module begins with the initial values of its globals, those it has while it is out.
Load(m) ==
    /\ Goes(m, "out", "region") /\ loads[m] < MaxLoads /\ Spare(loads)
    /\ loads' = [loads EXCEPT ![m] = @ + 1]
    /\ UNCHANGED <<tables, dev_major, session, platform, tasks, starts, orderly>>

\* alloc_chrdev_region, with a second name when the first call fails.  When both
\* fail dev stays uninitialised and dev_major is any number.
AllocRegion(m) ==
    /\ Goes(m, "region", "class")
    /\ \E n \in Majors :
          /\ dev_major' = [dev_major EXCEPT ![m] = n]
          /\ \/ n \notin regions /\ regions' = regions \cup {n}
             \/ UNCHANGED regions
    /\ UNCHANGED <<classes, nodes, cdevs, session, platform, tasks, loads, starts, orderly>>

\* Mutant: an error of class_create is not looked at.
ClassCreateUnchecked(m) ==
    /\ Goes(m, "class", "cdev")
    /\ classes' = classes \cup {dev_major[m]}
    /\ UNCHANGED <<regions, nodes, cdevs, dev_major, session, platform, tasks,
                   loads, starts, orderly>>

\* The class is named for the major and there cannot be two of a name.  A load
\* that fails here leaves its region behind.
ClassCreate(m) ==
    /\ \/ /\ dev_major[m] \notin classes
          /\ Goes(m, "class", "cdev")
          /\ classes' = classes \cup {dev_major[m]}
       \/ Goes(m, "class", "out") /\ UNCHANGED classes
    /\ UNCHANGED <<regions, nodes, cdevs, dev_major, session, platform, tasks,
                   loads, starts, orderly>>

\* Neither cdev_add nor device_create is checked.
CdevAdd(m) ==
    /\ Goes(m, "cdev", "node")
    /\ \/ cdevs' = [cdevs EXCEPT ![dev_major[m]] = @ \cup {m}]
       \/ UNCHANGED cdevs
    /\ UNCHANGED <<regions, classes, nodes, dev_major, session, platform, tasks,
                   loads, starts, orderly>>

DeviceCreate(m) ==
    /\ Goes(m, "node", "in")
    /\ nodes' = nodes \cup {dev_major[m]} \/ UNCHANGED nodes
    /\ UNCHANGED <<regions, classes, cdevs, dev_major, session, platform, tasks,
                   loads, starts, orderly>>

-----------------------------------------------------------------------------
(* Sessions.                                                                *)

\* A process that opens a node reaches a module with its cdev there, as long as
\* the module is not on its way out.
Reaches(n, m) == n \in nodes /\ m \in cdevs[n] /\ stage[m] \in {"node", "in"}

\* Mutant: the page is taken before the bit is tested.
OpenInfoFirst(m, p) ==
    /\ \E n \in Majors : Reaches(n, m)
    /\ p \notin files[m]
    /\ info' = [info EXCEPT ![m] = p]
    /\ in_use' = [in_use EXCEPT ![m] = TRUE]
    /\ files' = IF in_use[m] THEN files ELSE [files EXCEPT ![m] = @ \cup {p}]
    /\ UNCHANGED <<tables, stage, dev_major, platform, tasks, loads, starts, orderly>>

\* A second open returns EBUSY and changes nothing.
loopback_open(m, p) ==
    /\ \E n \in Majors : Reaches(n, m)
    /\ ~in_use[m]
    /\ in_use' = [in_use EXCEPT ![m] = TRUE]
    /\ info' = [info EXCEPT ![m] = p]
    /\ files' = [files EXCEPT ![m] = @ \cup {p}]
    /\ UNCHANGED <<tables, stage, dev_major, platform, tasks, loads, starts, orderly>>

loopback_release(m, p) ==
    /\ p \in files[m]
    /\ in_use' = [in_use EXCEPT ![m] = FALSE]
    /\ files' = [files EXCEPT ![m] = @ \ {p}]
    /\ UNCHANGED <<tables, stage, dev_major, info, platform, tasks, loads, starts, orderly>>

\* START_LOOPBACK; another one is given at the earliest when the thread of the
\* one before has ended.  The ioctl succeeds also when kthread_run made no thread.
Start(m) ==
    /\ files[m] # {} /\ starts[m] < MaxStarts /\ Spare(starts) /\ thread[m] = "none"
    /\ worker' = [worker EXCEPT ![m] = TRUE]
    /\ starts' = [starts EXCEPT ![m] = @ + 1]
    /\ \/ /\ thread' = [thread EXCEPT ![m] = "driver"]
          /\ orderly' = [orderly EXCEPT ![m] = starts[m] = 0]
       \/ orderly' = [orderly EXCEPT ![m] = FALSE] /\ UNCHANGED thread
    /\ UNCHANGED <<tables, stage, dev_major, session, platform, loads>>

\* async_work_handler ends some time after the device was closed.
WorkerEnds(m) ==
    /\ worker[m] /\ files[m] = {}
    /\ worker' = [worker EXCEPT ![m] = FALSE]
    /\ UNCHANGED <<tables, stage, dev_major, session, platform, thread, loads, starts, orderly>>

-----------------------------------------------------------------------------
(* start_loopback; the results of both calls are ignored.                   *)

Registering == UNCHANGED <<tables, stage, dev_major, session, worker, loads, starts>>

\* Who has the device after a probe by a driver of its name, which may fail: the
\* adapter's device, memory, and what the driver of the virtio device does decide.
Probed(m, drivers) ==
    {Nobody} \cup {d \in drivers : TransportName(d) = TransportName(m)}

\* A driver whose name is taken is refused, and another may not be registered either
\* (memory).  A new one probes the devices of its name that have no driver.
RegisterDriver(m) ==
    /\ thread[m] = "driver"
    /\ thread' = [thread EXCEPT ![m] = "device"]
    /\ \/ UNCHANGED <<pdrv, bound>>
       \/ /\ \A d \in Modules : pdrv[d] => TransportName(d) # TransportName(m)
          /\ pdrv' = [pdrv EXCEPT ![m] = TRUE]
          /\ \E b \in Each(Modules \cup {Nobody}) :
                /\ \A d \in Modules :
                      IF pdev[d] # "new" /\ bound[d] = Nobody THEN b[d] \in Probed(d, {m})
                                                             ELSE b[d] = bound[d]
                /\ bound' = b
    /\ UNCHANGED <<pdev, orderly>>
    /\ Registering

\* The device is static: registering it again initialises a live object anew.
\* One whose name is taken is refused, and another may fail (memory): in either case
\* it is not registered, and nobody is told.
RegisterDevice(m) ==
    /\ thread[m] = "device"
    /\ thread' = [thread EXCEPT ![m] = "probe"]
    /\ \/ /\ pdev[m] # "new"
          /\ pdev' = [pdev EXCEPT ![m] = "twice"] /\ UNCHANGED <<bound, orderly>>
       \/ /\ pdev[m] = "new"
          /\ IF \E d \in Modules : pdev[d] # "new" /\ TransportName(d) = TransportName(m)
             THEN UNCHANGED <<pdev, bound>>
             ELSE /\ pdev' = [pdev EXCEPT ![m] = "registered"]
                  /\ \E d \in Probed(m, {e \in Modules : pdrv[e]}) :
                        bound' = [bound EXCEPT ![m] = d]
          /\ UNCHANGED orderly
       \/ /\ pdev[m] = "new"
          /\ orderly' = [orderly EXCEPT ![m] = FALSE] /\ UNCHANGED <<pdev, bound>>
    /\ UNCHANGED pdrv
    /\ Registering

\* platform_device_register has returned, and so does start_loopback.
ThreadEnds(m) ==
    /\ thread[m] = "probe"
    /\ thread' = [thread EXCEPT ![m] = "none"]
    /\ UNCHANGED <<platform, orderly>>
    /\ Registering

-----------------------------------------------------------------------------
(* loopback_exit.                                                           *)

\* Not while a process has the device open: the file operations have an owner.
Unload(m) ==
    /\ Goes(m, "in", "del") /\ files[m] = {}
    /\ orderly' = [orderly EXCEPT ![m] =
                      @ /\ starts[m] = 1 /\ thread[m] = "none" /\ ~worker[m]]
    /\ UNCHANGED <<tables, dev_major, session, platform, tasks, loads, starts>>

\* virtio_mmio_remove for the devices in gone.
Removed(gone) == [d \in Modules |-> IF d \in gone THEN Nobody ELSE bound[d]]

\* A device that was never registered, or whose registration failed, has nothing
\* platform_device_del could take apart, one registered twice is no longer what it was.
PlatformDeviceDel(m) ==
    /\ IF pdev[m] = "registered" THEN Goes(m, "del", "unregister") ELSE Goes(m, "del", "oops")
    /\ IF pdev[m] = "registered"
       THEN pdev' = [pdev EXCEPT ![m] = "new"] /\ bound' = Removed({m})
       ELSE UNCHANGED <<pdev, bound>>
    /\ UNCHANGED <<tables, dev_major, session, pdrv, tasks, loads, starts, orderly>>

\* Mutant: the driver stays on the bus.
DriverStays(m) ==
    /\ Goes(m, "unregister", "destroy")
    /\ UNCHANGED <<tables, dev_major, session, platform, tasks, loads, starts, orderly>>

DriverUnregister(m) ==
    /\ Goes(m, "unregister", "destroy")
    /\ pdrv' = [pdrv EXCEPT ![m] = FALSE]
    /\ bound' = Removed({d \in Modules : bound[d] = m})
    /\ UNCHANGED <<tables, dev_major, session, pdev, tasks, loads, starts, orderly>>

\* device_destroy, cdev_del and class_destroy; the region is kept.
Destroy(m) ==
    /\ Goes(m, "destroy", "free")
    /\ nodes' = nodes \ {dev_major[m]}
    /\ classes' = classes \ {dev_major[m]}
    /\ cdevs' = [cdevs EXCEPT ![dev_major[m]] = @ \ {m}]
    /\ UNCHANGED <<regions, dev_major, session, platform, tasks, loads, starts, orderly>>

\* The kernel frees the module's text and data, which no thread may be in and no
\* list may lead to.
Free(m) ==
    /\ \/ /\ Goes(m, "free", "out")
          /\ thread[m] = "none" /\ ~worker[m] /\ ~pdrv[m] /\ pdev[m] = "new"
          /\ in_use' = [in_use EXCEPT ![m] = FALSE] /\ info' = [info EXCEPT ![m] = Nobody]
          /\ starts' = [starts EXCEPT ![m] = 0] /\ orderly' = [orderly EXCEPT ![m] = TRUE]
       \/ /\ Goes(m, "free", "oops")
          /\ thread[m] # "none" \/ worker[m] \/ pdrv[m] \/ pdev[m] # "new"
          /\ UNCHANGED <<in_use, info, starts, orderly>>
    /\ UNCHANGED <<tables, dev_major, files, platform, tasks, loads>>

Loads(m) == Load(m) \/ AllocRegion(m) \/ ClassCreate(m) \/ CdevAdd(m) \/ DeviceCreate(m)

Starts(m) == Start(m) \/ WorkerEnds(m) \/ RegisterDriver(m) \/ RegisterDevice(m) \/ ThreadEnds(m)

Exits(m) ==
    Unload(m) \/ PlatformDeviceDel(m) \/ DriverUnregister(m) \/ Destroy(m) \/ Free(m)

Next ==
    \E m \in Modules :
        \/ Loads(m) \/ Starts(m) \/ Exits(m)
        \/ \E p \in Procs : loopback_open(m, p) \/ loopback_release(m, p)

Spec == Init /\ [][Next]_vars

-----------------------------------------------------------------------------
(* Properties.                                                             *)

NodesApart ==
    \A n \in Majors :
        /\ Cardinality(cdevs[n]) <= 1
        /\ \A m \in cdevs[n] : stage[m] \notin {"out", "region", "class"}
        /\ n \in nodes => \E m \in Modules : dev_major[m] = n /\ stage[m] # "out"

\* Every node leads to one module at most, and that one is there: also after
\* loads that failed half way, with calls of loopback_init that failed unseen,
\* and with a major that was never allocated, which only the name of the class
\* keeps apart from the other module's.  A platform device that has a driver has the
\* one of its own module, and both are registered.
ModulesApart ==
    /\ NodesApart
    /\ \A m \in Modules :
          bound[m] # Nobody => bound[m] = m /\ pdrv[m] /\ pdev[m] # "new"

\* One process uses a device at a time, and the page shared with it is its own.
OneSession ==
    \A m \in Modules :
        /\ Cardinality(files[m]) <= 1
        /\ \A p \in files[m] : info[m] = p

\* A module that was started once, by a thread that could be made and a device that
\* the kernel had the memory to register, and is unloaded when that thread and its
\* worker have ended, goes without a crash and leaves no driver, device or thread to
\* its freed memory, whether its driver could be registered or not and whatever the
\* other module does meanwhile.  After a failure of the other two, whose results
\* nothing looks at, an exit as orderly crashes: of it nothing is said.
OrderlyExit == \A m \in Modules : orderly[m] => stage[m] # "oops"
=============================================================================
