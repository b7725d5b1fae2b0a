---------------------------- MODULE DriverProofs ----------------------------
(***************************************************************************)
(* Proofs about the two modules' lives and the mappings they give out:     *)
(* DriverLife for any modules, majors and processes, any number of loads   *)
(* and of START_LOOPBACKs; MmapTable for any table, addresses and sizes,   *)
(* any number of mappings and sessions.                                    *)
(***************************************************************************)
EXTENDS DriverLife, MmapTable, FiniteSetTheorems, WellFoundedInduction, TLAPS

-----------------------------------------------------------------------------
(* Types.                                                                  *)

LEMMA TypeInit == Init => TypeOK
BY LifeAssumption DEF Init, TypeOK, Each

LEMMA TypeLoads ==
    ASSUME TypeOK, NEW m \in Modules, Loads(m)
    PROVE  TypeOK'
<1> USE LifeAssumption DEF TypeOK, Each, Loading, Exiting, Goes, tables, session, platform, tasks
<1>1. CASE Load(m)
  <2>1. loads[m] + 1 \in 0..MaxLoads
    BY <1>1 DEF Load
  <2> QED
    BY <1>1, <2>1 DEF Load
<1>2. CASE AllocRegion(m)
  BY <1>2 DEF AllocRegion
<1>3. CASE ClassCreate(m)
  BY <1>3 DEF ClassCreate
<1>4. CASE CdevAdd(m)
  BY <1>4 DEF CdevAdd
<1>5. CASE DeviceCreate(m)
  BY <1>5 DEF DeviceCreate
<1> QED
  BY <1>1, <1>2, <1>3, <1>4, <1>5 DEF Loads

LEMMA TypeStarts ==
    ASSUME TypeOK, NEW m \in Modules, Starts(m)
    PROVE  TypeOK'
<1> USE LifeAssumption DEF TypeOK, Each, Loading, Exiting, Goes, tables, session, platform,
                           tasks, Registering
<1>1. CASE Start(m)
  <2>1. /\ starts[m] + 1 \in 0..MaxStarts /\ starts' = [starts EXCEPT ![m] = @ + 1]
        /\ worker' = [worker EXCEPT ![m] = TRUE]
        /\ UNCHANGED <<tables, stage, dev_major, session, platform, loads>>
    BY <1>1 DEF Start
  <2>2. thread' \in Each({"none", "driver", "device", "probe"}) /\ orderly' \in Each(BOOLEAN)
    BY <1>1 DEF Start
  <2> QED
    BY <2>1, <2>2
<1>2. CASE WorkerEnds(m)
  BY <1>2 DEF WorkerEnds
<1>3. CASE RegisterDriver(m)
  BY <1>3 DEF RegisterDriver, Probed
<1>4. CASE RegisterDevice(m)
  <2>1. pdev' \in Each({"new", "registered", "twice"}) /\ orderly' \in Each(BOOLEAN)
    BY <1>4 DEF RegisterDevice
  <2>2. bound' \in Each(Modules \cup {Nobody})
    BY <1>4 DEF RegisterDevice, Probed
  <2>3. /\ thread' = [thread EXCEPT ![m] = "probe"]
        /\ UNCHANGED <<tables, stage, dev_major, session, pdrv, worker, loads, starts>>
    BY <1>4 DEF RegisterDevice
  <2> QED
    BY <2>1, <2>2, <2>3
<1>5. CASE ThreadEnds(m)
  BY <1>5 DEF ThreadEnds
<1> QED
  BY <1>1, <1>2, <1>3, <1>4, <1>5 DEF Starts

LEMMA TypeExits ==
    ASSUME TypeOK, NEW m \in Modules, Exits(m)
    PROVE  TypeOK'
<1> USE LifeAssumption DEF TypeOK, Each, Loading, Exiting, Goes, tables, session, platform, tasks
<1>1. CASE Unload(m)
  BY <1>1 DEF Unload
<1>2. CASE PlatformDeviceDel(m)
  BY <1>2 DEF PlatformDeviceDel, Removed
<1>3. CASE DriverUnregister(m)
  BY <1>3 DEF DriverUnregister, Removed
<1>4. CASE Destroy(m)
  BY <1>4 DEF Destroy
<1>5. CASE Free(m)
  <2>1. stage' \in Each({"out", "in", "oops"} \cup Loading \cup Exiting) /\ 0 \in 0..MaxStarts
    BY <1>5 DEF Free
  <2>2. CASE UNCHANGED <<in_use, info, starts, orderly>>
    BY <1>5, <2>1, <2>2 DEF Free
  <2>3. CASE /\ in_use' = [in_use EXCEPT ![m] = FALSE] /\ info' = [info EXCEPT ![m] = Nobody]
             /\ starts' = [starts EXCEPT ![m] = 0] /\ orderly' = [orderly EXCEPT ![m] = TRUE]
    BY <1>5, <2>1, <2>3 DEF Free
  <2> QED
    BY <1>5, <2>2, <2>3 DEF Free
<1> QED
  BY <1>1, <1>2, <1>3, <1>4, <1>5 DEF Exits

LEMMA TypeNext == TypeOK /\ [Next]_vars => TypeOK'
<1> SUFFICES ASSUME TypeOK, [Next]_vars
             PROVE  TypeOK'
  OBVIOUS
<1>1. ASSUME NEW m \in Modules, NEW p \in Procs, loopback_open(m, p)
      PROVE  TypeOK'
  BY <1>1 DEF loopback_open, TypeOK, Each, tables, platform, tasks, Loading, Exiting
<1>2. ASSUME NEW m \in Modules, NEW p \in Procs, loopback_release(m, p)
      PROVE  TypeOK'
  BY <1>2 DEF loopback_release, TypeOK, Each, tables, platform, tasks, Loading, Exiting
<1>3. CASE UNCHANGED vars
  BY <1>3 DEF vars, tables, session, platform, tasks, TypeOK, Each
<1> QED
  BY <1>1, <1>2, <1>3, TypeLoads, TypeStarts, TypeExits DEF Next

\* The modules' variables and the kernel's tables keep their types.
THEOREM LifeTypes == Spec => []TypeOK
BY TypeInit, TypeNext, PTL DEF Spec
-----------------------------------------------------------------------------
(* Sessions.                                                               *)

\* IN_USE_BIT is set while a process has the device open, it is the only one, and
\* the page is its own; a module that is not there, or goes, is not open.
Sessions ==
    \A m \in Modules :
        /\ files[m] = {} \/ (in_use[m] /\ files[m] = {info[m]})
        /\ stage[m] \notin {"node", "in"} => files[m] = {}

LEMMA SessionsInit == Init => Sessions
BY DEF Init, Sessions

LEMMA SessionsNext ==
    ASSUME TypeOK, Sessions, [Next]_vars
    PROVE  Sessions'
<1> USE LifeAssumption DEF TypeOK, Each, Goes, tables, session, platform, tasks, Registering, Sessions
<1>1. ASSUME NEW m \in Modules, Load(m)
      PROVE  Sessions'
  BY <1>1 DEF Load
<1>2. ASSUME NEW m \in Modules, AllocRegion(m)
      PROVE  Sessions'
  BY <1>2 DEF AllocRegion
<1>3. ASSUME NEW m \in Modules, ClassCreate(m)
      PROVE  Sessions'
  BY <1>3 DEF ClassCreate
<1>4. ASSUME NEW m \in Modules, CdevAdd(m)
      PROVE  Sessions'
  BY <1>4 DEF CdevAdd
<1>5. ASSUME NEW m \in Modules, DeviceCreate(m)
      PROVE  Sessions'
  BY <1>5 DEF DeviceCreate
<1>6. ASSUME NEW m \in Modules, Start(m)
      PROVE  Sessions'
  BY <1>6 DEF Start
<1>7. ASSUME NEW m \in Modules, WorkerEnds(m)
      PROVE  Sessions'
  BY <1>7 DEF WorkerEnds
<1>8. ASSUME NEW m \in Modules, RegisterDriver(m)
      PROVE  Sessions'
  BY <1>8 DEF RegisterDriver
<1>9. ASSUME NEW m \in Modules, RegisterDevice(m)
      PROVE  Sessions'
  BY <1>9 DEF RegisterDevice
<1>10. ASSUME NEW m \in Modules, ThreadEnds(m)
      PROVE  Sessions'
  BY <1>10 DEF ThreadEnds
<1>11. ASSUME NEW m \in Modules, Unload(m)
      PROVE  Sessions'
  BY <1>11 DEF Unload
<1>12. ASSUME NEW m \in Modules, PlatformDeviceDel(m)
      PROVE  Sessions'
  BY <1>12 DEF PlatformDeviceDel
<1>13. ASSUME NEW m \in Modules, DriverUnregister(m)
      PROVE  Sessions'
  BY <1>13 DEF DriverUnregister
<1>14. ASSUME NEW m \in Modules, Destroy(m)
      PROVE  Sessions'
  BY <1>14 DEF Destroy
<1>15. ASSUME NEW m \in Modules, Free(m)
      PROVE  Sessions'
  BY <1>15 DEF Free
<1>16. ASSUME NEW m \in Modules, NEW p \in Procs, loopback_open(m, p)
      PROVE  Sessions'
  BY <1>16 DEF loopback_open, Reaches
<1>17. ASSUME NEW m \in Modules, NEW p \in Procs, loopback_release(m, p)
      PROVE  Sessions'
  BY <1>17 DEF loopback_release
<1>18. CASE UNCHANGED vars
  BY <1>18 DEF vars
<1> QED
  BY <1>1, <1>2, <1>3, <1>4, <1>5, <1>6, <1>7, <1>8, <1>9, <1>10, <1>11, <1>12, <1>13, <1>14, <1>15, <1>16, <1>17, <1>18
     DEF Next, Loads, Starts, Exits

\* One process uses a device at a time, and the page shared with it is its own.
THEOREM Session == Spec => []OneSession
<1>1. TypeOK /\ Sessions => OneSession
  <2> SUFFICES ASSUME TypeOK, Sessions, NEW m \in Modules
               PROVE  Cardinality(files[m]) <= 1 /\ \A p \in files[m] : info[m] = p
    BY DEF OneSession
  <2>1. Cardinality({}) = 0 /\ Cardinality({info[m]}) = 1
    BY FS_EmptySet, FS_Singleton
  <2> QED
    BY <2>1 DEF Sessions
<1>2. TypeOK /\ Sessions /\ [Next]_vars => Sessions'
  BY SessionsNext
<1> QED
  BY <1>1, <1>2, SessionsInit, TypeInit, TypeNext, PTL DEF Spec

-----------------------------------------------------------------------------
(* The kernel's tables.                                                    *)

Holding == {"cdev", "node", "in", "del", "unregister", "destroy"}

\* The module has the class of its major, or a cdev there.
Owns(m) == stage[m] \in Holding \/ m \in cdevs[dev_major[m]]

Tables ==
    /\ \A m \in Modules : stage[m] \in Holding => dev_major[m] \in classes
    /\ \A n \in Majors : \A m \in cdevs[n] :
          /\ dev_major[m] = n /\ n \in classes
          /\ stage[m] \in {"node", "in", "del", "unregister", "destroy", "oops"}
    /\ \A m, k \in Modules : Owns(m) /\ Owns(k) /\ dev_major[m] = dev_major[k] => m = k
    /\ \A n \in nodes : \E m \in Modules :
          dev_major[m] = n /\ stage[m] \in {"in", "del", "unregister", "destroy", "oops"}

LEMMA TablesInit == Init => Tables
BY DEF Init, Tables, Owns, Holding, Each

\* A module whose node is there, or that goes, only moves on.
LEMMA MovesOn ==
    ASSUME TypeOK, Tables, NEW m \in Modules,
           NEW to \in {"del", "unregister", "destroy", "oops"},
           stage[m] \in {"in", "del", "unregister"}, stage' = [stage EXCEPT ![m] = to],
           UNCHANGED <<tables, dev_major>>
    PROVE  Tables'
<1> USE DEF TypeOK, Each, tables
<1>1. \A k \in Modules : k # m => stage'[k] = stage[k]
  OBVIOUS
<1>2. /\ stage'[m] = to /\ stage[m] \in Holding
      /\ UNCHANGED <<classes, nodes, cdevs, dev_major>>
  BY DEF Holding
<1>3. \A k \in Modules : stage'[k] \in Holding => stage[k] \in Holding
  BY <1>1, <1>2
<1>4. \A k \in Modules : Owns(k)' => Owns(k)
  BY <1>2, <1>3 DEF Owns
<1>5. \A k \in Modules : stage[k] \in {"in", "del", "unregister", "destroy", "oops"}
          => stage'[k] \in {"in", "del", "unregister", "destroy", "oops"}
  BY <1>1, <1>2
<1>6. \A k \in Modules : stage[k] \in {"node", "in", "del", "unregister", "destroy", "oops"}
          => stage'[k] \in {"node", "in", "del", "unregister", "destroy", "oops"}
  BY <1>1, <1>2
<1>7. (\A k \in Modules : stage[k] \in Holding => dev_major[k] \in classes)'
  BY <1>2, <1>3 DEF Tables
<1>8. (\A n \in Majors : \A k \in cdevs[n] :
          /\ dev_major[k] = n /\ n \in classes
          /\ stage[k] \in {"node", "in", "del", "unregister", "destroy", "oops"})'
  BY <1>2, <1>6 DEF Tables
<1>9. (\A j, k \in Modules : Owns(j) /\ Owns(k) /\ dev_major[j] = dev_major[k] => j = k)'
  BY <1>2, <1>4 DEF Tables
<1>10. (\A n \in nodes : \E k \in Modules :
          dev_major[k] = n /\ stage[k] \in {"in", "del", "unregister", "destroy", "oops"})'
  BY <1>2, <1>5 DEF Tables
<1> QED
  BY <1>7, <1>8, <1>9, <1>10 DEF Tables

LEMMA TablesNext ==
    ASSUME TypeOK, Tables, [Next]_vars
    PROVE  Tables'
<1> USE LifeAssumption DEF TypeOK, Each, Goes, tables, session, platform, tasks, Registering, Tables, Owns, Holding
<1>1. ASSUME NEW m \in Modules, Load(m)
      PROVE  Tables'
  BY <1>1 DEF Load
<1>2. ASSUME NEW m \in Modules, AllocRegion(m)
      PROVE  Tables'
  BY <1>2 DEF AllocRegion
<1>3. ASSUME NEW m \in Modules, ClassCreate(m)
      PROVE  Tables'
  BY <1>3, SMTT(40) DEF ClassCreate
<1>4. ASSUME NEW m \in Modules, CdevAdd(m)
      PROVE  Tables'
  BY <1>4 DEF CdevAdd
<1>5. ASSUME NEW m \in Modules, DeviceCreate(m)
      PROVE  Tables'
  BY <1>5 DEF DeviceCreate
<1>6. ASSUME NEW m \in Modules, Start(m)
      PROVE  Tables'
  BY <1>6 DEF Start
<1>7. ASSUME NEW m \in Modules, WorkerEnds(m)
      PROVE  Tables'
  BY <1>7 DEF WorkerEnds
<1>8. ASSUME NEW m \in Modules, RegisterDriver(m)
      PROVE  Tables'
  BY <1>8 DEF RegisterDriver
<1>9. ASSUME NEW m \in Modules, RegisterDevice(m)
      PROVE  Tables'
  BY <1>9 DEF RegisterDevice
<1>10. ASSUME NEW m \in Modules, ThreadEnds(m)
      PROVE  Tables'
  BY <1>10 DEF ThreadEnds
<1>11. ASSUME NEW m \in Modules, Unload(m)
      PROVE  Tables'
  BY <1>11, MovesOn DEF Unload
<1>12. ASSUME NEW m \in Modules, PlatformDeviceDel(m)
      PROVE  Tables'
  BY <1>12, MovesOn DEF PlatformDeviceDel
<1>13. ASSUME NEW m \in Modules, DriverUnregister(m)
      PROVE  Tables'
  BY <1>13, MovesOn DEF DriverUnregister
<1>14. ASSUME NEW m \in Modules, Destroy(m)
      PROVE  Tables'
  BY <1>14 DEF Destroy
<1>15. ASSUME NEW m \in Modules, Free(m)
      PROVE  Tables'
  <2>1. /\ stage[m] = "free" /\ stage'[m] \in {"out", "oops"}
        /\ \A k \in Modules : k # m => stage'[k] = stage[k]
        /\ UNCHANGED <<regions, classes, nodes, cdevs, dev_major>>
    BY <1>15 DEF Free
  <2>2. \A n \in Majors : m \notin cdevs[n]
    BY <2>1
  <2> QED
    BY <2>1, <2>2
<1>16. ASSUME NEW m \in Modules, NEW p \in Procs, loopback_open(m, p)
      PROVE  Tables'
  BY <1>16 DEF loopback_open
<1>17. ASSUME NEW m \in Modules, NEW p \in Procs, loopback_release(m, p)
      PROVE  Tables'
  BY <1>17 DEF loopback_release
<1>18. CASE UNCHANGED vars
  BY <1>18 DEF vars
<1> QED
  BY <1>1, <1>2, <1>3, <1>4, <1>5, <1>6, <1>7, <1>8, <1>9, <1>10, <1>11, <1>12, <1>13, <1>14, <1>15, <1>16, <1>17, <1>18
     DEF Next, Loads, Starts, Exits

LEMMA TablesApart == TypeOK /\ Tables => NodesApart
<1> SUFFICES ASSUME TypeOK, Tables, NEW n \in Majors
             PROVE  /\ Cardinality(cdevs[n]) <= 1
                    /\ \A m \in cdevs[n] : stage[m] \notin {"out", "region", "class"}
                    /\ n \in nodes => \E m \in Modules : dev_major[m] = n /\ stage[m] # "out"
  BY DEF NodesApart
<1>1. Cardinality(cdevs[n]) <= 1
  <2>1. \A m, k \in cdevs[n] : m = k
    BY DEF Tables, Owns, TypeOK
  <2>2. CASE cdevs[n] = {}
    BY <2>2, FS_EmptySet
  <2>3. ASSUME NEW m \in cdevs[n]
        PROVE  Cardinality(cdevs[n]) <= 1
    <3>1. cdevs[n] = {m}
      BY <2>1
    <3> QED
      BY <3>1, FS_Singleton
  <2> QED
    BY <2>2, <2>3
<1> QED
  BY <1>1 DEF Tables

-----------------------------------------------------------------------------
(* The platform driver and device.                                         *)

\* The modules are built under different names, as the two of the repository are.
Distinct == \A m, k \in Modules : TransportName(m) = TransportName(k) => m = k

\* A module that is not there yet has no driver, no device and no thread.
Fresh ==
    \A m \in Modules :
        stage[m] \in {"out", "region", "class", "cdev"} =>
            thread[m] = "none" /\ ~worker[m] /\ ~pdrv[m] /\ pdev[m] = "new" /\ files[m] = {}

BoundOwn ==
    \A m \in Modules : bound[m] # Nobody => bound[m] = m /\ pdrv[m] /\ pdev[m] # "new"

Platform == Sessions /\ Fresh /\ BoundOwn

LEMMA PlatformInit == Init => Platform
BY SessionsInit DEF Init, Platform, Fresh, BoundOwn

LEMMA FreshNext ==
    ASSUME TypeOK, Platform, [Next]_vars
    PROVE  Fresh'
<1> USE LifeAssumption DEF TypeOK, Each, Goes, tables, session, platform, tasks, Registering, Platform, Sessions, Fresh
<1>1. ASSUME NEW m \in Modules, Load(m)
      PROVE  Fresh'
  BY <1>1 DEF Load
<1>2. ASSUME NEW m \in Modules, AllocRegion(m)
      PROVE  Fresh'
  BY <1>2 DEF AllocRegion
<1>3. ASSUME NEW m \in Modules, ClassCreate(m)
      PROVE  Fresh'
  BY <1>3 DEF ClassCreate
<1>4. ASSUME NEW m \in Modules, CdevAdd(m)
      PROVE  Fresh'
  BY <1>4 DEF CdevAdd
<1>5. ASSUME NEW m \in Modules, DeviceCreate(m)
      PROVE  Fresh'
  BY <1>5 DEF DeviceCreate
<1>6. ASSUME NEW m \in Modules, Start(m)
      PROVE  Fresh'
  BY <1>6 DEF Start
<1>7. ASSUME NEW m \in Modules, WorkerEnds(m)
      PROVE  Fresh'
  BY <1>7 DEF WorkerEnds
<1>8. ASSUME NEW m \in Modules, RegisterDriver(m)
      PROVE  Fresh'
  BY <1>8 DEF RegisterDriver
<1>9. ASSUME NEW m \in Modules, RegisterDevice(m)
      PROVE  Fresh'
  BY <1>9 DEF RegisterDevice
<1>10. ASSUME NEW m \in Modules, ThreadEnds(m)
      PROVE  Fresh'
  BY <1>10 DEF ThreadEnds
<1>11. ASSUME NEW m \in Modules, Unload(m)
      PROVE  Fresh'
  BY <1>11 DEF Unload
<1>12. ASSUME NEW m \in Modules, PlatformDeviceDel(m)
      PROVE  Fresh'
  BY <1>12 DEF PlatformDeviceDel
<1>13. ASSUME NEW m \in Modules, DriverUnregister(m)
      PROVE  Fresh'
  BY <1>13 DEF DriverUnregister
<1>14. ASSUME NEW m \in Modules, Destroy(m)
      PROVE  Fresh'
  BY <1>14 DEF Destroy
<1>15. ASSUME NEW m \in Modules, Free(m)
      PROVE  Fresh'
  BY <1>15 DEF Free
<1>16. ASSUME NEW m \in Modules, NEW p \in Procs, loopback_open(m, p)
      PROVE  Fresh'
  BY <1>16 DEF loopback_open, Reaches
<1>17. ASSUME NEW m \in Modules, NEW p \in Procs, loopback_release(m, p)
      PROVE  Fresh'
  BY <1>17 DEF loopback_release
<1>18. CASE UNCHANGED vars
  BY <1>18 DEF vars
<1> QED
  BY <1>1, <1>2, <1>3, <1>4, <1>5, <1>6, <1>7, <1>8, <1>9, <1>10, <1>11, <1>12, <1>13, <1>14, <1>15, <1>16, <1>17, <1>18
     DEF Next, Loads, Starts, Exits

LEMMA BoundNext ==
    ASSUME TypeOK, Platform, Distinct, [Next]_vars
    PROVE  BoundOwn'
<1> USE LifeAssumption DEF TypeOK, Each, Goes, tables, session, platform, tasks, Registering, Platform, Fresh, BoundOwn, Distinct, Probed, Removed
<1>1. ASSUME NEW m \in Modules, Load(m)
      PROVE  BoundOwn'
  BY <1>1 DEF Load
<1>2. ASSUME NEW m \in Modules, AllocRegion(m)
      PROVE  BoundOwn'
  BY <1>2 DEF AllocRegion
<1>3. ASSUME NEW m \in Modules, ClassCreate(m)
      PROVE  BoundOwn'
  BY <1>3 DEF ClassCreate
<1>4. ASSUME NEW m \in Modules, CdevAdd(m)
      PROVE  BoundOwn'
  BY <1>4 DEF CdevAdd
<1>5. ASSUME NEW m \in Modules, DeviceCreate(m)
      PROVE  BoundOwn'
  BY <1>5 DEF DeviceCreate
<1>6. ASSUME NEW m \in Modules, Start(m)
      PROVE  BoundOwn'
  BY <1>6 DEF Start
<1>7. ASSUME NEW m \in Modules, WorkerEnds(m)
      PROVE  BoundOwn'
  BY <1>7 DEF WorkerEnds
<1>8. ASSUME NEW m \in Modules, RegisterDriver(m)
      PROVE  BoundOwn'
  BY <1>8 DEF RegisterDriver
<1>9. ASSUME NEW m \in Modules, RegisterDevice(m)
      PROVE  BoundOwn'
  BY <1>9 DEF RegisterDevice
<1>10. ASSUME NEW m \in Modules, ThreadEnds(m)
      PROVE  BoundOwn'
  BY <1>10 DEF ThreadEnds
<1>11. ASSUME NEW m \in Modules, Unload(m)
      PROVE  BoundOwn'
  BY <1>11 DEF Unload
<1>12. ASSUME NEW m \in Modules, PlatformDeviceDel(m)
      PROVE  BoundOwn'
  BY <1>12 DEF PlatformDeviceDel
<1>13. ASSUME NEW m \in Modules, DriverUnregister(m)
      PROVE  BoundOwn'
  BY <1>13 DEF DriverUnregister
<1>14. ASSUME NEW m \in Modules, Destroy(m)
      PROVE  BoundOwn'
  BY <1>14 DEF Destroy
<1>15. ASSUME NEW m \in Modules, Free(m)
      PROVE  BoundOwn'
  BY <1>15 DEF Free
<1>16. ASSUME NEW m \in Modules, NEW p \in Procs, loopback_open(m, p)
      PROVE  BoundOwn'
  BY <1>16 DEF loopback_open, Reaches
<1>17. ASSUME NEW m \in Modules, NEW p \in Procs, loopback_release(m, p)
      PROVE  BoundOwn'
  BY <1>17 DEF loopback_release
<1>18. CASE UNCHANGED vars
  BY <1>18 DEF vars
<1> QED
  BY <1>1, <1>2, <1>3, <1>4, <1>5, <1>6, <1>7, <1>8, <1>9, <1>10, <1>11, <1>12, <1>13, <1>14, <1>15, <1>16, <1>17, <1>18
     DEF Next, Loads, Starts, Exits

\* Nodes lead to one module, which is there; a device has its own module's driver.
THEOREM Apart == ASSUME Distinct PROVE Spec => []ModulesApart
<1>1. TypeOK /\ Tables /\ BoundOwn => ModulesApart
  BY TablesApart DEF ModulesApart, BoundOwn
<1>2. TypeOK /\ Platform /\ [Next]_vars => Platform'
  BY SessionsNext, FreshNext, BoundNext DEF Platform
<1>3. TypeOK /\ Tables /\ [Next]_vars => Tables'
  BY TablesNext
<1>4. Platform => BoundOwn
  BY DEF Platform
<1> QED
  BY <1>1, <1>2, <1>3, <1>4, TablesInit, PlatformInit, TypeInit, TypeNext, PTL DEF Spec

-----------------------------------------------------------------------------
(* An orderly use.                                                         *)

\* What an orderly module has registered, by its stage and by how far the thread
\* of its only START_LOOPBACK, which did not fail, has come.
Progress(m) ==
    /\ stage[m] # "oops"
    /\ stage[m] \in {"node", "in"} =>
          /\ starts[m] \in {0, 1}
          /\ starts[m] = 0 => thread[m] = "none" /\ pdev[m] = "new"
          /\ starts[m] = 1 => (pdev[m] = "new" <=> thread[m] \in {"driver", "device"})
          /\ pdev[m] # "twice"
    /\ stage[m] \in Exiting => thread[m] = "none" /\ ~worker[m] /\ files[m] = {}
    /\ stage[m] = "del" => pdev[m] = "registered"
    /\ stage[m] \in {"unregister", "destroy", "free"} => pdev[m] = "new"
    /\ stage[m] \in {"destroy", "free"} => ~pdrv[m]

\* A module nobody started yet is orderly.
Orderly ==
    \A m \in Modules :
        /\ orderly[m] => Progress(m)
        /\ stage[m] \in {"out", "region", "class", "cdev", "node", "in"} /\ starts[m] = 0 => orderly[m]
        /\ stage[m] \in {"out", "region", "class", "cdev"} => starts[m] = 0

LEMMA OrderlyInit == Init => Orderly
BY DEF Init, Orderly, Progress, Exiting

LEMMA OrderlyNext ==
    ASSUME TypeOK, Platform, Distinct, Orderly, [Next]_vars
    PROVE  Orderly'
<1> USE LifeAssumption DEF TypeOK, Each, Goes, tables, session, platform, tasks, Registering, Platform, Sessions, Fresh, Distinct, Orderly, Progress, Exiting
<1>1. ASSUME NEW m \in Modules, Load(m)
      PROVE  Orderly'
  BY <1>1 DEF Load
<1>2. ASSUME NEW m \in Modules, AllocRegion(m)
      PROVE  Orderly'
  BY <1>2 DEF AllocRegion
<1>3. ASSUME NEW m \in Modules, ClassCreate(m)
      PROVE  Orderly'
  BY <1>3 DEF ClassCreate
<1>4. ASSUME NEW m \in Modules, CdevAdd(m)
      PROVE  Orderly'
  BY <1>4 DEF CdevAdd
<1>5. ASSUME NEW m \in Modules, DeviceCreate(m)
      PROVE  Orderly'
  BY <1>5 DEF DeviceCreate
<1>6. ASSUME NEW m \in Modules, Start(m)
      PROVE  Orderly'
  <2>1. stage[m] \in {"node", "in"}
    BY <1>6 DEF Start
  <2>2. \A k \in Modules : k # m => (orderly'[k] <=> orderly[k])
    BY <1>6 DEF Start
  <2>3. /\ starts' = [starts EXCEPT ![m] = @ + 1]
        /\ UNCHANGED <<tables, stage, dev_major, session, platform, loads>>
    BY <1>6 DEF Start
  <2>4. /\ \A k \in Modules : k # m => worker'[k] = worker[k] /\ thread'[k] = thread[k]
        /\ orderly'[m] => starts[m] = 0 /\ thread'[m] = "driver"
    <3>1. \A k \in Modules : k # m => worker'[k] = worker[k]
      BY <1>6 DEF Start
    <3>2. \A k \in Modules : k # m => thread'[k] = thread[k]
      BY <1>6 DEF Start
    <3>3. orderly'[m] => starts[m] = 0 /\ thread'[m] = "driver"
      BY <1>6 DEF Start
    <3> QED
      BY <3>1, <3>2, <3>3
  <2>5. ASSUME NEW k \in Modules, k # m
        PROVE  /\ orderly'[k] => Progress(k)'
               /\ stage'[k] \in {"out", "region", "class", "cdev", "node", "in"} /\ starts'[k] = 0
                     => orderly'[k]
               /\ stage'[k] \in {"out", "region", "class", "cdev"} => starts'[k] = 0
    BY <2>2, <2>3, <2>4, <2>5
  <2>6. /\ orderly'[m] => Progress(m)'
        /\ stage'[m] \notin {"out", "region", "class", "cdev"} /\ starts'[m] # 0
    BY <2>1, <2>3, <2>4
  <2> QED
    BY <2>5, <2>6
<1>7. ASSUME NEW m \in Modules, WorkerEnds(m)
      PROVE  Orderly'
  BY <1>7 DEF WorkerEnds
<1>8. ASSUME NEW m \in Modules, RegisterDriver(m)
      PROVE  Orderly'
  BY <1>8 DEF RegisterDriver
<1>9. ASSUME NEW m \in Modules, RegisterDevice(m)
      PROVE  Orderly'
  BY <1>9 DEF RegisterDevice
<1>10. ASSUME NEW m \in Modules, ThreadEnds(m)
      PROVE  Orderly'
  BY <1>10 DEF ThreadEnds
<1>11. ASSUME NEW m \in Modules, Unload(m)
      PROVE  Orderly'
  <2>1. orderly'[m] => orderly[m] /\ starts[m] = 1 /\ thread[m] = "none" /\ ~worker[m]
    BY <1>11 DEF Unload
  <2>2. \A k \in Modules : k # m => (orderly'[k] <=> orderly[k])
    BY <1>11 DEF Unload
  <2> QED
    BY <1>11, <2>1, <2>2 DEF Unload
<1>12. ASSUME NEW m \in Modules, PlatformDeviceDel(m)
      PROVE  Orderly'
  BY <1>12 DEF PlatformDeviceDel
<1>13. ASSUME NEW m \in Modules, DriverUnregister(m)
      PROVE  Orderly'
  BY <1>13 DEF DriverUnregister
<1>14. ASSUME NEW m \in Modules, Destroy(m)
      PROVE  Orderly'
  BY <1>14 DEF Destroy
<1>15. ASSUME NEW m \in Modules, Free(m)
      PROVE  Orderly'
  BY <1>15 DEF Free
<1>16. ASSUME NEW m \in Modules, NEW p \in Procs, loopback_open(m, p)
      PROVE  Orderly'
  BY <1>16 DEF loopback_open, Reaches
<1>17. ASSUME NEW m \in Modules, NEW p \in Procs, loopback_release(m, p)
      PROVE  Orderly'
  BY <1>17 DEF loopback_release
<1>18. CASE UNCHANGED vars
  BY <1>18 DEF vars
<1> QED
  BY <1>1, <1>2, <1>3, <1>4, <1>5, <1>6, <1>7, <1>8, <1>9, <1>10, <1>11, <1>12, <1>13, <1>14, <1>15, <1>16, <1>17, <1>18
     DEF Next, Loads, Starts, Exits

\* One START_LOOPBACK whose thread was made and whose device the kernel could register,
\* and an exit after its thread and its worker: no crash, also when the driver could
\* not be registered.
THEOREM OrderlyUse == ASSUME Distinct PROVE Spec => []OrderlyExit
<1>1. Orderly => OrderlyExit
  BY DEF Orderly, OrderlyExit, Progress
<1>2. TypeOK /\ Platform /\ [Next]_vars => Platform'
  BY SessionsNext, FreshNext, BoundNext DEF Platform
<1>3. TypeOK /\ Platform /\ Orderly /\ [Next]_vars => Orderly'
  BY OrderlyNext
<1> QED
  BY <1>1, <1>2, <1>3, OrderlyInit, PlatformInit, TypeInit, TypeNext, PTL DEF Spec

-----------------------------------------------------------------------------
(* The mappings: numbers.                                                  *)

LEMMA Remainder ==
    ASSUME NEW n \in Nat, NEW d \in Nat \ {0}
    PROVE  n % d \in Nat /\ n % d < d /\ (n < d => n % d = n)
OBVIOUS

LEMMA MinIs ==
    ASSUME NEW T, T \subseteq Nat, T # {}
    PROVE  Min(T) \in T /\ \A y \in T : Min(T) <= y
<1>1. PICK x \in T : \A y \in T : ~ (<<y, x>> \in OpToRel(<, Nat))
  BY NatLessThanWellFounded, WFMin
<1>2. ASSUME NEW y \in T
      PROVE  x <= y
  <2>1. ~ (<<y, x>> \in OpToRel(<, Nat))
    BY <1>1
  <2>2. <<y, x>> \in Nat \X Nat
    OBVIOUS
  <2>3. ~ (y < x)
    BY <2>1, <2>2 DEF OpToRel
  <2> QED
    BY <2>3
<1> QED
  BY <1>2 DEF Min

LEMMA MmapConstants ==
    /\ MmapLimit \in Nat \ {0} /\ SizeWrap \in Nat \ {0} /\ Big \in Nat /\ Stride \in Nat
    /\ Addresses \subseteq Nat \ {0} /\ Sizes \subseteq Nat \ {0} /\ Frames \subseteq Nat
    /\ MaxMmaps \in Nat /\ MaxOpens \in Nat
BY MmapAssumption

LEMMA EmptyEntry == Empty \in [pfn : Nat, vm_start : Nat, size : Nat] /\ Empty.size < SizeWrap
                    /\ Empty.vm_start = 0 /\ Empty.size = 0
BY MmapConstants DEF Empty

-----------------------------------------------------------------------------
(* The mappings: types.                                                    *)

TableTyped ==
    /\ share_mmap_list \in [Entries -> [pfn : Nat, vm_start : Nat, size : Nat]]
    /\ \A e \in Entries : share_mmap_list[e].size < SizeWrap

LEMMA AddTyped ==
    ASSUME MmapTypeOK, NEW pfn \in Nat, NEW start \in Nat, NEW size \in Nat, NEW chunks \in Nat,
           add_share_mmap(pfn, start, size, chunks), mmaps < MaxMmaps
    PROVE  /\ TableTyped' /\ mmap_index' \in Nat /\ cur_ram_idx' \in Nat /\ mmaps' \in 0..MaxMmaps
           /\ share_communication_struct' \in BOOLEAN /\ vq_pfn' \in Frames \cup {0}
           /\ overrun' \in BOOLEAN
<1> DEFINE new == [pfn |-> pfn, vm_start |-> start, size |-> size % SizeWrap]
<1>1. new \in [pfn : Nat, vm_start : Nat, size : Nat] /\ new.size < SizeWrap
  BY MmapConstants, Remainder
<1>2. mmaps' = mmaps + 1 /\ mmaps' \in 0..MaxMmaps
  BY MmapConstants DEF add_share_mmap, MmapTypeOK
<1>3. CASE Overruns
  BY <1>2, <1>3, MmapConstants DEF Overruns, MmapTypeOK, TableTyped
<1>4. CASE ~Overruns
  <2>1. /\ share_mmap_list' = [share_mmap_list EXCEPT ![mmap_index] = new]
        /\ mmap_index' = mmap_index + 1 /\ cur_ram_idx' = chunks
        /\ UNCHANGED <<share_communication_struct, vq_pfn, overrun>>
    BY <1>4 DEF add_share_mmap
  <2> HIDE DEF new
  <2>2. TableTyped'
    BY <1>1, <2>1 DEF MmapTypeOK, TableTyped
  <2>3. mmap_index' \in Nat
    BY <2>1 DEF MmapTypeOK
  <2> QED
    BY <1>2, <2>1, <2>2, <2>3 DEF MmapTypeOK
<1> QED
  BY <1>3, <1>4

LEMMA RemTyped ==
    ASSUME MmapTypeOK, NEW gone, share_mmap_rem(gone)
    PROVE  TableTyped'
BY EmptyEntry DEF MmapTypeOK, TableTyped, share_mmap_rem

LEMMA MmapTypeInit == MmapInit => MmapTypeOK
<1> SUFFICES ASSUME MmapInit
             PROVE  MmapTypeOK
  OBVIOUS
<1>1. TableTyped
  BY EmptyEntry DEF MmapInit, TableTyped
<1>2. 0 \in 0..MaxMmaps /\ 0 \in 0..MaxOpens
  BY MmapConstants
<1> QED
  BY <1>1, <1>2 DEF MmapInit, MmapTypeOK, TableTyped

\* The frame that FrameAt finds is one: 0, or in the first entry that has the page.
LEMMA FrameFound ==
    ASSUME NEW addr \in Nat, NEW e \in Entries, MmapTypeOK,
           share_mmap_list[e].vm_start <= addr,
           addr < share_mmap_list[e].vm_start + share_mmap_list[e].size
    PROVE  \E d \in Entries :
              /\ share_mmap_list[d].vm_start <= addr
              /\ addr < share_mmap_list[d].vm_start + share_mmap_list[d].size
              /\ FrameAt(addr) = (addr - share_mmap_list[d].vm_start) + share_mmap_list[d].pfn
<1> DEFINE hits == {d \in Entries :
                    /\ share_mmap_list[d].vm_start <= addr
                    /\ addr < share_mmap_list[d].vm_start + share_mmap_list[d].size}
<1>1. e \in hits /\ hits \subseteq Nat
  BY DEF Entries
<1>2. Min(hits) \in hits
  <2> HIDE DEF hits
  <2> QED
    BY <1>1, MinIs
<1> QED
  BY <1>1, <1>2 DEF FrameAt

LEMMA AddrFound ==
    ASSUME NEW frame \in Nat, NEW e \in Entries, MmapTypeOK,
           share_mmap_list[e].pfn <= frame,
           frame < share_mmap_list[e].pfn + share_mmap_list[e].size
    PROVE  \E d \in Entries :
              /\ share_mmap_list[d].pfn <= frame
              /\ frame < share_mmap_list[d].pfn + share_mmap_list[d].size
              /\ AddrOf(frame) = (frame - share_mmap_list[d].pfn) + share_mmap_list[d].vm_start
<1> DEFINE hits == {d \in Entries :
                    /\ share_mmap_list[d].pfn <= frame
                    /\ frame < share_mmap_list[d].pfn + share_mmap_list[d].size}
<1>1. e \in hits /\ hits \subseteq Nat
  BY DEF Entries
<1>2. Min(hits) \in hits
  <2> HIDE DEF hits
  <2> QED
    BY <1>1, MinIs
<1> QED
  BY <1>1, <1>2 DEF AddrOf

LEMMA FrameIsTyped ==
    ASSUME MmapTypeOK, NEW addr \in Nat
    PROVE  FrameAt(addr) \in Nat
<1> DEFINE Has(e) == /\ share_mmap_list[e].vm_start <= addr
                     /\ addr < share_mmap_list[e].vm_start + share_mmap_list[e].size
<1>1. CASE \E e \in Entries : Has(e)
  <2>1. PICK d \in Entries :
           /\ share_mmap_list[d].vm_start <= addr
           /\ FrameAt(addr) = (addr - share_mmap_list[d].vm_start) + share_mmap_list[d].pfn
    BY <1>1, FrameFound
  <2>2. share_mmap_list[d].vm_start \in Nat /\ share_mmap_list[d].pfn \in Nat
    BY DEF MmapTypeOK
  <2> QED
    BY <2>1, <2>2
<1>2. CASE \A e \in Entries : ~Has(e)
  BY <1>2 DEF FrameAt
<1> QED
  BY <1>1, <1>2

LEMMA ProductGrows == \A m, n \in Nat : m * n \in Nat /\ (m + 1) * n = m * n + n
OBVIOUS

LEMMA VmaIsTyped ==
    ASSUME MmapTypeOK, NEW v \in vmas
    PROVE  /\ v.start \in Nat \ {0} /\ v.size \in Nat \ {0} /\ v.pfn \in Nat
           /\ v.start \in Addresses /\ v.size \in Sizes
           /\ v.kind \in {"page", "ram", "frame"}
           /\ v = [start |-> v.start, size |-> v.size, kind |-> v.kind, pfn |-> v.pfn]
BY MmapConstants DEF MmapTypeOK

LEMMA MmapTypeNext ==
    ASSUME MmapTypeOK, [MmapNext]_mmap_vars
    PROVE  MmapTypeOK'
<1> USE DEF globals
<1>1. CASE Open
  <2>1. 0 \in 0..MaxMmaps /\ opens + 1 \in 0..MaxOpens
    BY <1>1, MmapConstants DEF Open, MmapTypeOK
  <2> QED
    BY <1>1, <2>1 DEF Open, MmapTypeOK
<1>2. CASE Release
  <2>1. TableTyped' /\ mmap_index' = mmap_index
    BY <1>2, RemTyped DEF Release, share_mmap_rem
  <2> QED
    BY <1>2, <2>1 DEF Release, MmapTypeOK, TableTyped
<1>3. CASE ShareComStruct
  BY <1>3 DEF ShareComStruct, MmapTypeOK
<1>4. ASSUME NEW f \in Frames, Share(f)
      PROVE  MmapTypeOK'
  BY <1>4 DEF Share, MmapTypeOK
<1>5. ASSUME NEW start \in Addresses, NEW size \in Sizes, NEW kind \in {"page", "ram", "frame"},
             NEW pfn \in Nat, NewVma(start, size, kind, pfn)
      PROVE  vmas' \subseteq [start : Addresses, size : Sizes, kind : {"page", "ram", "frame"}, pfn : Nat]
  BY <1>5 DEF NewVma, MmapTypeOK
<1>6. ASSUME NEW start \in Addresses, NEW size \in Sizes, MmapPage(start, size)
      PROVE  MmapTypeOK'
  <2>1. vmas' \subseteq [start : Addresses, size : Sizes, kind : {"page", "ram", "frame"}, pfn : Nat]
    BY <1>5, <1>6 DEF MmapPage, MmapTypeOK
  <2> QED
    BY <1>6, <2>1 DEF MmapPage, MmapTypeOK
<1>7. ASSUME NEW start \in Addresses, NEW size \in Sizes, MmapRam(start, size)
      PROVE  MmapTypeOK'
  <2>1. cur_ram_idx + 1 \in Nat /\ cur_ram_idx * Stride \in Nat /\ start \in Nat /\ size \in Nat
        /\ mmaps < MaxMmaps
    BY <1>7, MmapConstants, ProductGrows DEF MmapTypeOK, MmapRam, CanMmap
  <2>2. vmas' \subseteq [start : Addresses, size : Sizes, kind : {"page", "ram", "frame"}, pfn : Nat]
    BY <1>5, <1>7, <2>1 DEF MmapRam
  <2>3. /\ TableTyped' /\ mmap_index' \in Nat /\ cur_ram_idx' \in Nat /\ mmaps' \in 0..MaxMmaps
        /\ share_communication_struct' \in BOOLEAN /\ vq_pfn' \in Frames \cup {0}
        /\ overrun' \in BOOLEAN
    BY <1>7, <2>1, AddTyped DEF MmapRam
  <2> QED
    BY <1>7, <2>2, <2>3 DEF MmapRam, MmapTypeOK, TableTyped
<1>8. ASSUME NEW start \in Addresses, NEW size \in Sizes, MmapFrame(start, size)
      PROVE  MmapTypeOK'
  <2>1. vq_pfn \in Nat /\ start \in Nat /\ size \in Nat /\ cur_ram_idx \in Nat
        /\ mmaps < MaxMmaps
    BY <1>8, MmapConstants DEF MmapTypeOK, MmapFrame, CanMmap
  <2>2. vmas' \subseteq [start : Addresses, size : Sizes, kind : {"page", "ram", "frame"}, pfn : Nat]
    BY <1>5, <1>8, <2>1 DEF MmapFrame
  <2>3. /\ TableTyped' /\ mmap_index' \in Nat /\ cur_ram_idx' \in Nat /\ mmaps' \in 0..MaxMmaps
        /\ share_communication_struct' \in BOOLEAN /\ vq_pfn' \in Frames \cup {0}
        /\ overrun' \in BOOLEAN
    BY <1>8, <2>1, AddTyped DEF MmapFrame
  <2> QED
    BY <1>8, <2>2, <2>3 DEF MmapFrame, MmapTypeOK, TableTyped
<1>9. ASSUME NEW v \in vmas, Munmap(v)
      PROVE  MmapTypeOK'
  <2>1. TableTyped' /\ mmap_index' = mmap_index
    BY <1>9, RemTyped DEF Munmap, share_mmap_rem
  <2> QED
    BY <1>9, <2>1 DEF Munmap, MmapTypeOK, TableTyped
<1>10. ASSUME NEW v \in vmas, NEW addr \in Pages(v), Fault(v, addr)
       PROVE  MmapTypeOK'
  <2>1. addr \in Nat
    BY VmaIsTyped DEF Pages
  <2>2. ptes' \subseteq [addr : Nat, pfn : Nat]
    BY <1>10, <2>1, FrameIsTyped DEF Fault, MmapTypeOK
  <2> QED
    BY <1>10, <2>2 DEF Fault, MmapTypeOK
<1>11. CASE UNCHANGED mmap_vars
  BY <1>11 DEF mmap_vars, MmapTypeOK
<1> QED
  BY <1>1, <1>2, <1>3, <1>4, <1>6, <1>7, <1>8, <1>9, <1>10, <1>11 DEF MmapNext

\* The table, the mappings and the pages keep their types, for any limit of the
\* table and any sizes; a size is kept modulo what 32 bits of bytes hold.
THEOREM MmapTypes == MmapSpec => []MmapTypeOK
<1>1. MmapTypeOK /\ [MmapNext]_mmap_vars => MmapTypeOK'
  BY MmapTypeNext
<1> QED
  BY <1>1, MmapTypeInit, PTL DEF MmapSpec

-----------------------------------------------------------------------------
(* The mappings and the table.                                             *)

EntryOf(v) == [pfn |-> v.pfn, vm_start |-> v.start, size |-> v.size % SizeWrap]
Used(e) == share_mmap_list[e] # Empty

\* The entries in use lie before the next free one, each is of a mapping there is, no
\* two are of the same, and every mapping that is registered has one.
Exact ==
    /\ \A e \in Entries : Used(e) =>
          e < mmap_index /\ \E v \in Kept : share_mmap_list[e] = EntryOf(v)
    /\ \A d, e \in Entries :
          Used(d) /\ share_mmap_list[d].vm_start = share_mmap_list[e].vm_start => d = e
    /\ \A v \in Kept : \E e \in Entries : share_mmap_list[e] = EntryOf(v)

\* A closed device has no mapping; mappings are apart; and until an entry is written
\* behind it the table is exact.
Table ==
    /\ IsFiniteSet(vmas)
    /\ ~open => vmas = {} /\ ptes = {}
    /\ \A v, w \in vmas : v # w => Pages(v) \cap Pages(w) = {}
    /\ ~overrun => Exact

LEMMA StartsApart ==
    ASSUME MmapTypeOK, Table, NEW v \in vmas, NEW w \in vmas, v.start = w.start
    PROVE  v = w
<1>1. v.start \in Pages(v) /\ w.start \in Pages(w)
  BY VmaIsTyped DEF Pages
<1> QED
  BY <1>1 DEF Table

LEMMA EntriesAreUsed ==
    ASSUME MmapTypeOK, NEW v \in vmas
    PROVE  EntryOf(v) # Empty /\ EntryOf(v).vm_start = v.start /\ EntryOf(v).pfn = v.pfn
           /\ EntryOf(v).size = v.size % SizeWrap
BY VmaIsTyped DEF EntryOf, Empty

LEMMA TableInit == MmapInit => Table
<1> SUFFICES ASSUME MmapInit
             PROVE  Table
  OBVIOUS
<1>1. IsFiniteSet(vmas)
  BY FS_EmptySet DEF MmapInit
<1>2. \A e \in Entries : share_mmap_list[e] = Empty
  BY DEF MmapInit
<1> QED
  BY <1>1, <1>2 DEF MmapInit, Table, Exact, Used, Kept

\* A mapping is made where none is, and registered.
LEMMA TableGrows ==
    ASSUME MmapTypeOK, Table, NEW start \in Addresses, NEW size \in Sizes, NEW kind \in {"ram", "frame"},
           NEW pfn \in Nat, NEW chunks \in Nat, CanMmap(start, size),
           NewVma(start, size, kind, pfn), add_share_mmap(pfn, start, size, chunks), UNCHANGED open
    PROVE  Table'
<1> DEFINE new == [start |-> start, size |-> size, kind |-> kind, pfn |-> pfn]
<1>1. /\ new.start = start /\ new.size = size /\ new.kind = kind /\ new.pfn = pfn
      /\ vmas' = vmas \cup {new} /\ new.kind # "page"
      /\ start \in Nat \ {0} /\ size \in Nat \ {0} /\ open /\ open'
  BY MmapConstants DEF NewVma, CanMmap
<1>2. Pages(new) = start..(start + size - 1) /\ \A v \in vmas : Pages(v) \cap Pages(new) = {}
  BY <1>1 DEF Pages, CanMmap, IsFree
<1>3. EntryOf(new).vm_start = start /\ EntryOf(new) # Empty
  BY <1>1 DEF EntryOf, Empty
<1>4. \A v \in vmas : v.start # start /\ v # new
  <2> TAKE v \in vmas
  <2>1. v.start \in Pages(v) /\ start \in Pages(new)
    BY <1>1, <1>2, VmaIsTyped DEF Pages
  <2> QED
    BY <1>1, <1>2, <2>1
<1> HIDE DEF new
<1>5. IsFiniteSet(vmas')
  BY <1>1, FS_AddElement DEF Table
<1>6. \A v, w \in vmas' : v # w => Pages(v) \cap Pages(w) = {}
  BY <1>1, <1>2 DEF Table
<1> SUFFICES ASSUME ~overrun'
             PROVE  Exact'
  BY <1>1, <1>5, <1>6 DEF Table
<1>7. /\ mmap_index \in Entries /\ mmap_index \in Nat /\ mmap_index' = mmap_index + 1
      /\ share_mmap_list' = [share_mmap_list EXCEPT ![mmap_index] = EntryOf(new)]
      /\ share_mmap_list \in [Entries -> [pfn : Nat, vm_start : Nat, size : Nat]]
      /\ Entries \subseteq Nat /\ Exact
  <2>1. EntryOf(new) = [pfn |-> pfn, vm_start |-> start, size |-> size % SizeWrap]
    BY <1>1 DEF EntryOf, new
  <2>2. ~Overruns
    BY DEF Overruns
  <2>3. /\ mmap_index \in Entries /\ mmap_index' = mmap_index + 1 /\ ~overrun
        /\ share_mmap_list' = [share_mmap_list EXCEPT ![mmap_index] = EntryOf(new)]
    BY <2>1, <2>2 DEF add_share_mmap
  <2> QED
    BY <2>3 DEF MmapTypeOK, Entries, Table
<1>8. Kept' = Kept \cup {new}
  BY <1>1 DEF Kept
<1>9. ASSUME NEW e \in Entries
      PROVE  share_mmap_list'[e] = IF e = mmap_index THEN EntryOf(new) ELSE share_mmap_list[e]
  BY <1>7
<1>10. ASSUME NEW e \in Entries, share_mmap_list'[e] # Empty
       PROVE  e < mmap_index' /\ \E v \in Kept' : share_mmap_list'[e] = EntryOf(v)
  <2>1. CASE e = mmap_index
    BY <1>7, <1>8, <1>9, <2>1
  <2>2. CASE e # mmap_index
    <3>1. Used(e) /\ share_mmap_list'[e] = share_mmap_list[e]
      BY <1>9, <1>10, <2>2 DEF Used
    <3>2. e < mmap_index /\ \E v \in Kept : share_mmap_list[e] = EntryOf(v)
      BY <1>7, <3>1 DEF Exact
    <3> QED
      BY <1>7, <1>8, <3>1, <3>2
  <2> QED
    BY <2>1, <2>2
<1>11. ASSUME NEW e \in Entries, Used(e)
       PROVE  share_mmap_list[e].vm_start # start /\ e # mmap_index
  <2>1. PICK v \in Kept : share_mmap_list[e] = EntryOf(v)
    BY <1>7, <1>11 DEF Exact
  <2>2. e < mmap_index
    BY <1>7, <1>11 DEF Exact
  <2>3. share_mmap_list[e].vm_start = v.start /\ v \in vmas
    BY <2>1, EntriesAreUsed DEF Kept
  <2> QED
    BY <1>7, <1>4, <2>2, <2>3
<1>12. ASSUME NEW d \in Entries, NEW e \in Entries, share_mmap_list'[d] # Empty,
              share_mmap_list'[d].vm_start = share_mmap_list'[e].vm_start
       PROVE  d = e
  <2>1. CASE d = mmap_index
    <3> SUFFICES ASSUME e # mmap_index
                 PROVE  FALSE
      BY <2>1
    <3>1. share_mmap_list[e].vm_start = start
      BY <1>3, <1>9, <1>12, <2>1
    <3>2. Used(e)
      BY <1>1, <3>1, EmptyEntry DEF Used
    <3> QED
      BY <1>11, <3>1, <3>2
  <2>2. CASE d # mmap_index
    <3>1. Used(d) /\ share_mmap_list'[d] = share_mmap_list[d]
      BY <1>9, <1>12, <2>2 DEF Used
    <3>2. e # mmap_index
      BY <1>3, <1>9, <1>11, <1>12, <3>1
    <3> QED
      BY <1>7, <1>9, <1>12, <3>1, <3>2 DEF Exact
  <2> QED
    BY <2>1, <2>2
<1>13. ASSUME NEW v \in Kept'
       PROVE  \E e \in Entries : share_mmap_list'[e] = EntryOf(v)
  <2>2. CASE v = new
    BY <1>7, <1>9, <2>2
  <2>3. CASE v # new
    <3>1. v \in Kept /\ v \in vmas
      BY <1>8, <2>3 DEF Kept
    <3>2. PICK e \in Entries : share_mmap_list[e] = EntryOf(v)
      BY <1>7, <3>1 DEF Exact
    <3>3. Used(e)
      BY <3>1, <3>2, EntriesAreUsed DEF Used
    <3> QED
      BY <1>9, <1>11, <3>2, <3>3
  <2> QED
    BY <2>2, <2>3
<1> QED
  BY <1>10, <1>12, <1>13 DEF Exact, Used, EntryOf

\* Mappings go, and their entries with them.
LEMMA TableShrinks ==
    ASSUME MmapTypeOK, Table, NEW gone \in SUBSET vmas, vmas' = vmas \ gone, share_mmap_rem(gone),
           UNCHANGED overrun, ~open' => vmas' = {} /\ ptes' = {}
    PROVE  Table'
<1>1. /\ mmap_index' = mmap_index /\ Kept' = Kept \ gone
      /\ \A e \in Entries : share_mmap_list'[e] =
            IF \E v \in gone : v.kind # "page" /\ v.start = share_mmap_list[e].vm_start
            THEN Empty ELSE share_mmap_list[e]
  BY DEF share_mmap_rem, Kept
<1>2. IsFiniteSet(vmas')
  BY FS_Subset DEF Table
<1>3. \A v, w \in vmas' : v # w => Pages(v) \cap Pages(w) = {}
  BY DEF Table
<1> SUFFICES ASSUME ~overrun', Exact
             PROVE  Exact'
  BY <1>2, <1>3 DEF Table
<1>4. ASSUME NEW e \in Entries, share_mmap_list'[e] # Empty
      PROVE  /\ Used(e) /\ share_mmap_list'[e] = share_mmap_list[e]
             /\ e < mmap_index' /\ \E v \in Kept' : share_mmap_list'[e] = EntryOf(v)
  <2>1. Used(e) /\ share_mmap_list'[e] = share_mmap_list[e]
        /\ ~ \E v \in gone : v.kind # "page" /\ v.start = share_mmap_list[e].vm_start
    BY <1>1, <1>4 DEF Used
  <2>2. e < mmap_index /\ \E v \in Kept : share_mmap_list[e] = EntryOf(v)
    BY <2>1 DEF Exact
  <2>3. PICK v \in Kept : share_mmap_list[e] = EntryOf(v)
    BY <2>2
  <2>4. v \in vmas /\ v.kind # "page" /\ v.start = share_mmap_list[e].vm_start
    BY <2>3, EntriesAreUsed DEF Kept
  <2>5. v \in Kept'
    BY <1>1, <2>1, <2>3, <2>4
  <2> QED
    BY <1>1, <2>1, <2>2, <2>3, <2>5
<1>5. ASSUME NEW d \in Entries, NEW e \in Entries, share_mmap_list'[d] # Empty,
             share_mmap_list'[d].vm_start = share_mmap_list'[e].vm_start
      PROVE  d = e
  <2>1. Used(d) /\ share_mmap_list'[d] = share_mmap_list[d]
        /\ \E v \in Kept : share_mmap_list[d] = EntryOf(v)
    BY <1>4, <1>5 DEF Exact
  <2>2. share_mmap_list[d].vm_start \in Nat \ {0}
    BY <2>1, EntriesAreUsed, VmaIsTyped DEF Kept
  <2>3. share_mmap_list'[e] = share_mmap_list[e]
    BY <1>1, <1>5, <2>1, <2>2, EmptyEntry
  <2> QED
    BY <1>5, <2>1, <2>3 DEF Exact
<1>6. ASSUME NEW v \in Kept'
      PROVE  \E e \in Entries : share_mmap_list'[e] = EntryOf(v)
  <2>1. v \in Kept /\ v \in vmas /\ v \notin gone
    BY <1>1, <1>6 DEF Kept
  <2>2. PICK e \in Entries : share_mmap_list[e] = EntryOf(v)
    BY <2>1 DEF Exact
  <2>3. \A w \in gone : w.start # v.start
    BY <2>1, StartsApart
  <2>4. share_mmap_list'[e] = share_mmap_list[e]
    BY <1>1, <2>1, <2>2, <2>3, EntriesAreUsed
  <2> QED
    BY <2>2, <2>4
<1> QED
  BY <1>4, <1>5, <1>6 DEF Exact, Used, EntryOf

LEMMA TableNext ==
    ASSUME MmapTypeOK, Table, [MmapNext]_mmap_vars
    PROVE  Table'
<1> USE DEF globals
<1>1. CASE Open
  <2>1. vmas = {} /\ vmas' = {} /\ ptes' = {} /\ share_mmap_list' = share_mmap_list /\ Kept = {}
    BY <1>1 DEF Open, Table, Kept
  <2>2. Kept' = {} /\ (~overrun' => \A e \in Entries : share_mmap_list'[e] = Empty)
    BY <1>1, <2>1 DEF Open, Table, Exact, Used, Kept
  <2>3. IsFiniteSet(vmas')
    BY <2>1, FS_EmptySet
  <2> QED
    BY <2>1, <2>2, <2>3 DEF Table, Exact, Used
<1>2. CASE Release
  <2>1. vmas' = vmas \ vmas /\ share_mmap_rem(vmas) /\ ptes' = {} /\ UNCHANGED overrun
    BY <1>2 DEF Release
  <2> QED
    BY <2>1, TableShrinks
<1>3. ASSUME UNCHANGED <<open, share_mmap_list, mmap_index, vmas, overrun>>, open \/ UNCHANGED ptes
      PROVE  Table'
  BY <1>3 DEF Table, Exact, Used, Kept, Pages, EntryOf
<1>4. CASE ShareComStruct \/ \E f \in Frames : Share(f)
  BY <1>3, <1>4 DEF ShareComStruct, Share
<1>5. ASSUME NEW start \in Addresses, NEW size \in Sizes, MmapPage(start, size)
      PROVE  Table'
  <2>1. CASE UNCHANGED vmas
    BY <1>3, <1>5, <2>1 DEF MmapPage
  <2>2. CASE NewVma(start, size, "page", 0)
    <3> DEFINE new == [start |-> start, size |-> size, kind |-> "page", pfn |-> 0]
    <3>1. /\ vmas' = vmas \cup {new} /\ new.kind = "page" /\ open' = open /\ open
          /\ UNCHANGED <<share_mmap_list, mmap_index, overrun>>
      BY <1>5, <2>2 DEF NewVma, MmapPage, CanMmap
    <3>2. \A v \in vmas : Pages(v) \cap Pages(new) = {}
      BY <1>5 DEF MmapPage, CanMmap, IsFree, Pages
    <3> HIDE DEF new
    <3>3. IsFiniteSet(vmas')
      BY <3>1, FS_AddElement DEF Table
    <3>4. Kept' = Kept
      BY <3>1 DEF Kept
    <3>5. \A v, w \in vmas' : v # w => Pages(v) \cap Pages(w) = {}
      BY <3>1, <3>2 DEF Table
    <3> QED
      BY <3>1, <3>3, <3>4, <3>5 DEF Table, Exact, Used, EntryOf
  <2> QED
    BY <1>5, <2>1, <2>2 DEF MmapPage
<1>6. ASSUME NEW start \in Addresses, NEW size \in Sizes, MmapRam(start, size)
      PROVE  Table'
  <2>1. cur_ram_idx * Stride \in Nat /\ cur_ram_idx + 1 \in Nat
    BY MmapConstants, ProductGrows DEF MmapTypeOK
  <2> QED
    BY <1>6, <2>1, TableGrows DEF MmapRam
<1>7. ASSUME NEW start \in Addresses, NEW size \in Sizes, MmapFrame(start, size)
      PROVE  Table'
  <2>1. vq_pfn \in Nat /\ cur_ram_idx \in Nat
    BY MmapConstants DEF MmapTypeOK
  <2> QED
    BY <1>7, <2>1, TableGrows DEF MmapFrame
<1>8. ASSUME NEW v \in vmas, Munmap(v)
      PROVE  Table'
  <2>1. {v} \in SUBSET vmas /\ vmas' = vmas \ {v} /\ share_mmap_rem({v}) /\ open' = open /\ open
        /\ UNCHANGED overrun
    BY <1>8 DEF Munmap, Table
  <2> QED
    BY <2>1, TableShrinks
<1>9. ASSUME NEW v \in vmas, NEW addr \in Pages(v), Fault(v, addr)
      PROVE  Table'
  <2>1. open
    BY DEF Table
  <2> QED
    BY <1>3, <1>9, <2>1 DEF Fault
<1>10. CASE UNCHANGED mmap_vars
  BY <1>3, <1>10 DEF mmap_vars
<1> QED
  BY <1>1, <1>2, <1>4, <1>5, <1>6, <1>7, <1>8, <1>9, <1>10 DEF MmapNext

\* No mapping is of so many pages that their bytes do not fit in 32 bits.
Whole == \A n \in Sizes : n < SizeWrap

LEMMA WholeEntries ==
    ASSUME Whole, MmapTypeOK, NEW v \in vmas
    PROVE  EntryOf(v) = [pfn |-> v.pfn, vm_start |-> v.start, size |-> v.size]
<1>1. v.size \in Nat /\ v.size < SizeWrap
  BY VmaIsTyped DEF Whole
<1>2. v.size % SizeWrap = v.size
  BY <1>1, MmapConstants, Remainder
<1> QED
  BY <1>2 DEF EntryOf

LEMMA TableRegisters ==
    ASSUME Whole, MmapTypeOK, Table
    PROVE  Registered
<1> SUFFICES ASSUME ~overrun
             PROVE  Registered
  BY DEF Registered
<1> USE DEF Table
<1> DEFINE used == {e \in Entries : share_mmap_list[e] # Empty}
           f == [e \in used |-> CHOOSE v \in Kept : share_mmap_list[e] = EntryOf(v)]
<1>1. \A e \in used : f[e] \in Kept /\ share_mmap_list[e] = EntryOf(f[e])
  BY DEF Exact, Used
<1>2. \A v \in Kept : v \in vmas /\ EntryOf(v).vm_start = v.start /\ EntryOf(v) # Empty
  BY EntriesAreUsed DEF Kept
<1>3. IsFiniteSet(Kept)
  <2>1. Kept \in SUBSET vmas
    BY DEF Kept
  <2> QED
    BY <2>1, FS_Subset DEF Table
<1>4. \A d, e \in used : f[d] = f[e] => d = e
  BY <1>1 DEF Exact, Used
<1>5. f \in [used -> Kept] /\ used \subseteq Entries
  BY <1>1
<1> HIDE DEF f
<1>6. f \in Injection(used, Kept)
  BY <1>4, <1>5 DEF Injection, IsInjective
<1>7. /\ Cardinality(used) <= Cardinality(Kept)
      /\ f \in Surjection(used, Kept) => Cardinality(used) = Cardinality(Kept)
  <2> HIDE DEF used
  <2> QED
    BY <1>3, <1>6, FS_Injection
<1>8. ASSUME NEW v \in Kept
      PROVE  \E e \in used : share_mmap_list[e] = EntryOf(v) /\ f[e] = v
  <2>1. PICK e \in Entries : share_mmap_list[e] = EntryOf(v)
    BY <1>8 DEF Exact
  <2>2. e \in used
    BY <1>2, <2>1
  <2>3. f[e].start = v.start
    BY <1>1, <1>2, <2>1, <2>2
  <2>4. f[e] = v
    BY <1>1, <1>2, <2>2, <2>3, StartsApart
  <2> QED
    BY <2>1, <2>2, <2>4
<1>9. f \in Surjection(used, Kept)
  BY <1>5, <1>8 DEF Surjection
<1>10. ASSUME NEW v \in Kept
       PROVE  \E e \in used : share_mmap_list[e] = [pfn |-> v.pfn, vm_start |-> v.start, size |-> v.size]
  BY <1>2, <1>8, <1>10, WholeEntries
<1> QED
  BY <1>7, <1>9, <1>10 DEF Registered

\* Until a session makes more mappings than the table has entries, every mapping has
\* one entry of its own and no entry is without a mapping, for every limit of the
\* table and number of sessions, if no mapping is of 4 GB or more.
THEOREM RegisteredHolds == ASSUME Whole PROVE MmapSpec => []Registered
<1> DEFINE IInv == MmapTypeOK /\ Table
<1>1. MmapInit => IInv
  BY MmapTypeInit, TableInit
<1>2. IInv /\ [MmapNext]_mmap_vars => IInv'
  BY MmapTypeNext, TableNext
<1>3. IInv => Registered
  BY TableRegisters
<1> QED
  BY <1>1, <1>2, <1>3, PTL DEF MmapSpec

-----------------------------------------------------------------------------
(* The lookups.                                                            *)

\* A mapping of RAM is of one chunk at most.
InChunks == \A n \in Sizes : n <= Stride

\* Each mapping of RAM has a chunk of frames of its own, from those given out.
Chunks ==
    ~overrun =>
        /\ \A v \in vmas : v.kind = "ram" => v.pfn + Stride <= cur_ram_idx * Stride
        /\ \A v, w \in vmas : v.kind = "ram" /\ w.kind = "ram" /\ v # w =>
              v.pfn + Stride <= w.pfn \/ w.pfn + Stride <= v.pfn

Faulted == ~overrun => FaultsRight

LEMMA ChunksNext ==
    ASSUME MmapTypeOK, Table, Chunks, [MmapNext]_mmap_vars
    PROVE  Chunks'
<1> USE DEF globals
<1>1. ASSUME vmas' \subseteq vmas, UNCHANGED <<cur_ram_idx, overrun>>
      PROVE  Chunks'
  BY <1>1 DEF Chunks
<1>2. CASE Open
  <2>1. vmas' = {}
    BY <1>2 DEF Open, Table
  <2> QED
    BY <2>1 DEF Chunks
<1>3. CASE Release \/ ShareComStruct \/ (\E f \in Frames : Share(f)) \/ UNCHANGED mmap_vars
  BY <1>1, <1>3 DEF Release, ShareComStruct, Share, mmap_vars
<1>4. ASSUME NEW v \in vmas, Munmap(v) \/ \E addr \in Pages(v) : Fault(v, addr)
      PROVE  Chunks'
  BY <1>1, <1>4 DEF Munmap, Fault
<1>5. ASSUME NEW start \in Addresses, NEW size \in Sizes, MmapPage(start, size) \/ MmapFrame(start, size)
      PROVE  Chunks'
  <2>1. /\ ~overrun' => ~overrun /\ cur_ram_idx' = cur_ram_idx
        /\ \A v \in vmas' : v \in vmas \/ v.kind # "ram"
    BY <1>5 DEF MmapPage, MmapFrame, NewVma, add_share_mmap, Overruns
  <2> QED
    BY <2>1 DEF Chunks
<1>6. ASSUME NEW start \in Addresses, NEW size \in Sizes, MmapRam(start, size)
      PROVE  Chunks'
  <2> SUFFICES ASSUME ~overrun'
               PROVE  Chunks'
    BY DEF Chunks
  <2> DEFINE new == [start |-> start, size |-> size, kind |-> "ram", pfn |-> cur_ram_idx * Stride]
             free == cur_ram_idx * Stride
  <2>1. /\ new.pfn = free /\ vmas' = vmas \cup {new} /\ cur_ram_idx' = cur_ram_idx + 1
        /\ cur_ram_idx \in Nat /\ ~overrun
    BY <1>6 DEF MmapRam, NewVma, MmapTypeOK, add_share_mmap, Overruns
  <2>2. free \in Nat /\ Stride \in Nat /\ cur_ram_idx' * Stride = free + Stride
    BY <2>1, MmapConstants, ProductGrows
  <2>3. \A v \in vmas : v.pfn \in Nat /\ (v.kind = "ram" => v.pfn + Stride <= free)
    BY <2>1, VmaIsTyped DEF Chunks
  <2>4. \A v, w \in vmas : v.kind = "ram" /\ w.kind = "ram" /\ v # w =>
           v.pfn + Stride <= w.pfn \/ w.pfn + Stride <= v.pfn
    BY <2>1 DEF Chunks
  <2> HIDE DEF new, free
  <2>5. \A v \in vmas' : v.kind = "ram" => v.pfn + Stride <= cur_ram_idx' * Stride
    BY <2>1, <2>2, <2>3
  <2>6. \A v, w \in vmas' : v.kind = "ram" /\ w.kind = "ram" /\ v # w =>
           v.pfn + Stride <= w.pfn \/ w.pfn + Stride <= v.pfn
    BY <2>1, <2>3, <2>4
  <2> QED
    BY <2>5, <2>6 DEF Chunks
<1> QED
  BY <1>2, <1>3, <1>4, <1>5, <1>6 DEF MmapNext

\* A page of a mapping is found in that mapping's entry, whatever the others are.
LEMMA FrameRight ==
    ASSUME Whole, MmapTypeOK, Table, ~overrun, NEW v \in Kept, NEW addr \in Pages(v)
    PROVE  FrameAt(addr) = v.pfn + (addr - v.start) /\ addr \in Nat
<1>1. /\ v \in vmas /\ v.start \in Nat /\ v.size \in Nat /\ v.pfn \in Nat
      /\ addr \in Nat /\ v.start <= addr /\ addr < v.start + v.size
  BY VmaIsTyped DEF Kept, Pages
<1>2. PICK e \in Entries : share_mmap_list[e] = EntryOf(v)
  BY DEF Table, Exact
<1>3. share_mmap_list[e].vm_start = v.start /\ share_mmap_list[e].size = v.size
  BY <1>1, <1>2, WholeEntries
<1>4. PICK d \in Entries :
         /\ share_mmap_list[d].vm_start <= addr
         /\ addr < share_mmap_list[d].vm_start + share_mmap_list[d].size
         /\ FrameAt(addr) = (addr - share_mmap_list[d].vm_start) + share_mmap_list[d].pfn
  BY <1>1, <1>3, FrameFound
<1>5. Used(d)
  BY <1>1, <1>4, EmptyEntry DEF Used
<1>6. PICK w \in Kept : share_mmap_list[d] = EntryOf(w)
  BY <1>5 DEF Table, Exact
<1>7. /\ w \in vmas /\ w.start \in Nat /\ w.size \in Nat
      /\ share_mmap_list[d] = [pfn |-> w.pfn, vm_start |-> w.start, size |-> w.size]
  BY <1>6, WholeEntries, VmaIsTyped DEF Kept
<1>8. addr \in Pages(w)
  BY <1>1, <1>4, <1>7 DEF Pages
<1>9. w = v
  BY <1>1, <1>7, <1>8 DEF Table
<1> QED
  BY <1>1, <1>4, <1>7, <1>9

LEMMA FaultedNext ==
    ASSUME Whole, MmapTypeOK, Table, Faulted, [MmapNext]_mmap_vars
    PROVE  Faulted'
<1> USE DEF globals
<1>1. ASSUME vmas \subseteq vmas', ptes' = ptes, ~overrun' => ~overrun
      PROVE  Faulted'
  BY <1>1 DEF Faulted, FaultsRight, Pages
<1>2. CASE Open \/ Release
  <2>1. ptes' = {}
    BY <1>2 DEF Open, Release, Table
  <2> QED
    BY <2>1 DEF Faulted, FaultsRight
<1>3. CASE ShareComStruct \/ (\E f \in Frames : Share(f)) \/ UNCHANGED mmap_vars
  BY <1>1, <1>3 DEF ShareComStruct, Share, mmap_vars
<1>4. ASSUME NEW start \in Addresses, NEW size \in Sizes,
             MmapPage(start, size) \/ MmapRam(start, size) \/ MmapFrame(start, size)
      PROVE  Faulted'
  <2>1. vmas \subseteq vmas' /\ ptes' = ptes
    BY <1>4 DEF MmapPage, MmapRam, MmapFrame, NewVma
  <2>2. ~overrun' => ~overrun
    BY <1>4 DEF MmapPage, MmapRam, MmapFrame, add_share_mmap, Overruns
  <2> QED
    BY <1>1, <2>1, <2>2
<1>5. ASSUME NEW v \in vmas, Munmap(v)
      PROVE  Faulted'
  <2>1. /\ vmas' = vmas \ {v} /\ ptes' = {p \in ptes : p.addr \notin Pages(v)}
        /\ overrun' = overrun
    BY <1>5 DEF Munmap
  <2>2. ASSUME FaultsRight, NEW p \in ptes'
        PROVE  \E w \in vmas' : w.kind = "ram" /\ p.addr \in Pages(w) /\ p.pfn = w.pfn + (p.addr - w.start)
    <3>1. PICK w \in vmas : w.kind = "ram" /\ p.addr \in Pages(w) /\ p.pfn = w.pfn + (p.addr - w.start)
      BY <2>1, <2>2 DEF FaultsRight
    <3>2. w # v
      BY <2>1, <2>2, <3>1
    <3> QED
      BY <2>1, <3>1, <3>2
  <2> QED
    BY <2>1, <2>2 DEF Faulted, FaultsRight, Pages
<1>6. ASSUME NEW v \in vmas, NEW addr \in Pages(v), Fault(v, addr)
      PROVE  Faulted'
  <2>1. /\ v.kind = "ram" /\ vmas' = vmas /\ overrun' = overrun
        /\ ptes' = ptes \cup {[addr |-> addr, pfn |-> FrameAt(addr)]}
    BY <1>6 DEF Fault
  <2>2. ~overrun => FrameAt(addr) = v.pfn + (addr - v.start)
    BY <2>1, FrameRight DEF Kept
  <2> QED
    BY <2>1, <2>2 DEF Faulted, FaultsRight, Pages
<1> QED
  BY <1>2, <1>3, <1>4, <1>5, <1>6 DEF MmapNext

\* The two lookups are inverse.
LEMMA LookupsInverse ==
    ASSUME Whole, InChunks, MmapTypeOK, Table, Chunks, ~overrun
    PROVE  LookupsAgree
<1> SUFFICES ASSUME NEW v \in Kept, NEW n \in 0..(v.size - 1)
             PROVE  LET addr == AddrOf(v.pfn + n)
                    IN  /\ FrameAt(addr) = v.pfn + n
                        /\ v.kind = "ram" =>
                              \/ addr = v.start + n
                              \/ \E w \in vmas : w.kind = "frame" /\ addr \in Pages(w)
  BY DEF LookupsAgree
<1> DEFINE frame == v.pfn + n
           addr == AddrOf(frame)
<1>1. /\ v \in vmas /\ v.start \in Nat /\ v.size \in Nat /\ v.pfn \in Nat /\ v.size <= Stride
      /\ n \in Nat /\ n < v.size /\ v.kind \in {"ram", "frame"} /\ frame \in Nat
  BY VmaIsTyped DEF Kept, InChunks
<1>2. PICK e \in Entries : share_mmap_list[e] = EntryOf(v)
  BY DEF Table, Exact
<1>3. share_mmap_list[e].pfn = v.pfn /\ share_mmap_list[e].size = v.size
  BY <1>1, <1>2, WholeEntries
<1>4. v.pfn <= frame /\ frame < v.pfn + v.size
  BY <1>1
<1> HIDE DEF frame
<1>5. PICK d \in Entries :
         /\ share_mmap_list[d].pfn <= frame
         /\ frame < share_mmap_list[d].pfn + share_mmap_list[d].size
         /\ AddrOf(frame) = (frame - share_mmap_list[d].pfn) + share_mmap_list[d].vm_start
  BY <1>1, <1>3, <1>4, AddrFound
<1>6. share_mmap_list[d] # Empty
  <2>1. share_mmap_list[d].pfn \in Nat
    BY DEF MmapTypeOK
  <2> QED
    BY <1>1, <1>5, <2>1, EmptyEntry
<1>7. PICK w \in Kept : share_mmap_list[d] = EntryOf(w)
  BY <1>6 DEF Table, Exact, Used
<1>8. /\ w \in vmas /\ w.start \in Nat /\ w.size \in Nat /\ w.pfn \in Nat /\ w.size <= Stride
      /\ w.kind \in {"ram", "frame"}
      /\ share_mmap_list[d] = [pfn |-> w.pfn, vm_start |-> w.start, size |-> w.size]
  BY <1>7, WholeEntries, VmaIsTyped DEF Kept, InChunks
<1>9. addr = (frame - w.pfn) + w.start /\ w.pfn <= frame /\ frame < w.pfn + w.size
  BY <1>5, <1>8
<1> HIDE DEF addr
<1>10. addr \in Pages(w)
  BY <1>1, <1>8, <1>9 DEF Pages
<1>11. FrameAt(addr) = frame
  <2>1. FrameAt(addr) = w.pfn + (addr - w.start)
    BY <1>10, FrameRight
  <2> QED
    BY <1>1, <1>8, <1>9, <2>1
<1>12. ASSUME v.kind = "ram", w.kind = "ram"
       PROVE  addr = v.start + n
  <2>1. w = v
    <3> SUFFICES ASSUME w # v
                 PROVE  FALSE
      OBVIOUS
    <3>1. v.pfn + Stride <= w.pfn \/ w.pfn + Stride <= v.pfn
      BY <1>1, <1>8, <1>12 DEF Chunks
    <3> QED
      BY <1>1, <1>4, <1>8, <1>9, <3>1, MmapConstants
  <2> QED
    BY <1>1, <1>9, <2>1 DEF frame
<1>13. v.kind = "ram" => addr = v.start + n \/ \E u \in vmas : u.kind = "frame" /\ addr \in Pages(u)
  BY <1>8, <1>10, <1>12
<1> QED
  BY <1>11, <1>13 DEF addr, frame

\* Until an entry is written behind the table, a fault inserts the right frame and the two
\* lookups are inverse, for every limit of the table, placement and number of
\* sessions, if no mapping is larger than a chunk of RAM or of 4 GB.
THEOREM LookupsRightHolds == ASSUME Whole, InChunks PROVE MmapSpec => []LookupsRight
<1> DEFINE IInv == MmapTypeOK /\ Table /\ Chunks /\ Faulted
<1>1. MmapInit => IInv
  <2>1. MmapInit => Chunks /\ Faulted
    BY DEF MmapInit, Chunks, Faulted, FaultsRight
  <2> QED
    BY <2>1, MmapTypeInit, TableInit
<1>2. IInv /\ [MmapNext]_mmap_vars => IInv'
  BY MmapTypeNext, TableNext, ChunksNext, FaultedNext
<1>3. IInv => LookupsRight
  BY LookupsInverse DEF Faulted, LookupsRight
<1> QED
  BY <1>1, <1>2, <1>3, PTL DEF MmapSpec
=============================================================================
