-------------------------- MODULE VirtQueuesProofs --------------------------
(***************************************************************************)
(* Proofs about VirtQueues, for any number of queues, frames, slots and    *)
(* binds.  Walk says where vm_find_vqs is and which queue is selected,     *)
(* Owned which rings the driver holds at each point, Told what the device  *)
(* knows of them; Counted, Room and Kept relate the three counters         *)
(* queue_idx, i and vq_index, and vq_pfns to the rings.                    *)
(***************************************************************************)
EXTENDS VirtQueues, FiniteSetTheorems, TLAPS

-----------------------------------------------------------------------------
(* Types, and where vm_find_vqs is.                                        *)

\* A queue is being set up.
Busy == {"sel", "avail", "max", "num", "addr", "activate", "activating", "unset"}

\* Where the driver is, and which queue the device's registers are those of.
Walk ==
    /\ pc = "next" => queue_idx < i
    /\ pc \in Busy => queue_idx \in 1..i /\ i <= Entries
    /\ pc = "addr" => version = 2
    /\ pc \in {"ok", "status", "running"} => i = Entries + 1
    /\ pc \in {"num", "addr", "activate", "activating", "delsel"} => ring \in rings
    /\ Serving /\ pc \in Busy \ {"sel"} => sel = index
    /\ Serving /\ pc = "delsel" => sel = ring.index
    /\ mapping # NoQueue => Serving /\ pc \in {"activating", "status"}

\* There are rings for the first n queues.
Indexed(n) ==
    /\ \A r \in rings : r.index < n
    /\ \A q \in 0..(n - 1) : \E r \in rings : r.index = q

\* At each point the rings are those of the first queues, one each.
Owned ==
    /\ \A r, s \in rings : r.index = s.index => r = s
    /\ pc \in {"next", "ok", "status", "running"} => virtqueues = rings /\ Indexed(queue_idx)
    /\ pc \in {"sel", "avail", "max", "unset"} => virtqueues = rings /\ Indexed(index)
    /\ pc \in {"num", "addr", "activate", "activating"} =>
          ring.index = index /\ virtqueues = rings \ {ring} /\ Indexed(queue_idx)
    /\ pc = "del" => virtqueues = rings
    /\ pc = "delsel" => virtqueues = rings \ {ring}
    /\ pc = "unbound" => rings = {} /\ virtqueues = {}

LEMMA TypeInit == Init => TypeOK /\ Walk
BY VqAssumption DEF TypeOK, Init, Walk, Busy, Serving, Indices, NoQueue, Registers, Idle,
   Pcs

\* What is written to a queue's registers fits them.
LEMMA RegisterSet ==
    ASSUME NEW x \in Registers
    PROVE  /\ \A n \in 0..NumMax : [x EXCEPT !.num = n] \in Registers
           /\ \A f \in Frames \cup {Zero} : [x EXCEPT !.addr = f] \in Registers
           /\ \A b \in BOOLEAN, f \in Frames \cup {Zero} :
                 [x EXCEPT !.ready = b, !.addr = f] \in Registers
           /\ x.num \in 0..NumMax /\ x.addr \in Frames \cup {Zero}
BY DEF Registers

\* A write through WriteSelected leaves the registers well formed.
LEMMA WriteKeepsType ==
    ASSUME TypeOK, NEW regs \in Registers, WriteSelected(regs)
    PROVE  queue' \in [Indices -> Registers]
BY DEF TypeOK, WriteSelected

LEMMA TypeNext ==
    ASSUME TypeOK, Walk, Owned, [Next]_vars
    PROVE  TypeOK'
<1> USE VqAssumption DEF device, globals, maps, find, lists
<1>1. ASSUME NEW n \in [1..Entries -> BOOLEAN], Bind(n)
      PROVE  TypeOK'
  BY <1>1 DEF Bind, TypeOK, Pcs
<1>2. CASE FindNext
  BY <1>2, VqAssumption DEF FindNext, Walk, TypeOK, Pcs, device, globals, maps, lists
<1>3. CASE Select
  BY <1>3 DEF Select, TypeOK, Pcs, Walk, Busy, Indices, index
<1>4. CASE CheckFree
  BY <1>4 DEF CheckFree, TypeOK, Pcs
<1>5. CASE Create
  <2>1. PICK f \in Frames, s \in 1..num_max[sel] :
              ring' = [index |-> index, frame |-> f, size |-> s]
    BY <1>5 DEF Create
  <2>2. ring' \in Ring
    BY <2>1, <1>5, VqAssumption, SMTT(40) DEF Create, Walk, Busy, TypeOK, Ring, Indices, index
  <2> QED
    BY <1>5, <2>2 DEF Create, TypeOK, Pcs, device, globals, maps, find
<1>6. CASE CreateFails
  BY <1>6 DEF CreateFails, TypeOK, Pcs
<1>7. CASE SetNum
  <2>1. ring \in Ring
    BY <1>7 DEF SetNum, Walk, TypeOK
  <2>2. [queue[sel] EXCEPT !.num = ring.size] \in Registers
    <3>1. ring.size \in 0..NumMax /\ ring.frame \in Frames
      BY <2>1, VqAssumption DEF Ring
    <3> QED
      BY <3>1, RegisterSet DEF TypeOK
  <2>3. queue' \in [Indices -> Registers]
    BY <1>7, <2>2, WriteKeepsType DEF SetNum
  <2> QED
    BY <1>7, <2>1, <2>3 DEF SetNum, TypeOK, Pcs, Ring, globals, maps, find, lists
<1>8. CASE SetNumKeepFrame
  <2>1. ring \in Ring
    BY <1>8 DEF SetNumKeepFrame, Walk, TypeOK
  <2>2. [queue[sel] EXCEPT !.num = ring.size] \in Registers
    <3>1. ring.size \in 0..NumMax /\ ring.frame \in Frames
      BY <2>1, VqAssumption DEF Ring
    <3> QED
      BY <3>1, RegisterSet DEF TypeOK
  <2>3. queue' \in [Indices -> Registers]
    BY <1>8, <2>2, WriteKeepsType DEF SetNumKeepFrame
  <2>4. vq_pfns' \in [0..(Slots - 1) -> Frames \cup {Zero}]
    BY <1>8, <2>1, VqAssumption DEF SetNumKeepFrame, TypeOK, Ring
  <2>5. rings' \subseteq Ring /\ virtqueues' \subseteq rings'
    BY <1>8 DEF SetNumKeepFrame, TypeOK, Owned
  <2>6. /\ vq_pfn' \in Frames \cup {Zero} /\ vq_index' \in Nat /\ pc' \in Pcs
        /\ UNCHANGED <<adapter, version, num_max, sel, maps, find, ring, binds>>
    BY <1>8, <2>1, SMTT(40) DEF SetNumKeepFrame, TypeOK, Pcs, Ring
  <2> QED
    BY <2>3, <2>4, <2>5, <2>6 DEF TypeOK
<1>9. CASE SetAddresses
  <2>1. ring \in Ring
    BY <1>9 DEF SetAddresses, Walk, TypeOK
  <2>2. [queue[sel] EXCEPT !.addr = ring.frame] \in Registers
    <3>1. ring.size \in 0..NumMax /\ ring.frame \in Frames
      BY <2>1, VqAssumption DEF Ring
    <3> QED
      BY <3>1, RegisterSet DEF TypeOK
  <2>3. queue' \in [Indices -> Registers]
    BY <1>9, <2>2, WriteKeepsType DEF SetAddresses
  <2> QED
    BY <1>9, <2>1, <2>3 DEF SetAddresses, TypeOK, Pcs, Ring, globals, maps, find, lists
<1>10. CASE Activate
  <2>1. ring \in Ring
    BY <1>10 DEF Activate, Walk, TypeOK
  <2>2. [queue[sel] EXCEPT !.ready = TRUE, !.addr = IF version = 1 THEN ring.frame ELSE @] \in Registers
    <3>1. ring.size \in 0..NumMax /\ ring.frame \in Frames
      BY <2>1, VqAssumption DEF Ring
    <3> QED
      BY <3>1, RegisterSet DEF TypeOK
  <2>3. queue' \in [Indices -> Registers]
    BY <1>10, <2>2, WriteKeepsType DEF Activate
  <2> QED
    BY <1>10, <2>1, <2>3 DEF Activate, TypeOK, Pcs, Ring, globals, maps, find, lists
<1>11. CASE Activated
  BY <1>11 DEF Activated, TypeOK, Pcs, Walk, Busy
<1>12. CASE Unset
  <2>1. [queue[sel] EXCEPT !.ready = FALSE, !.addr = IF version = 1 THEN Zero ELSE @] \in Registers
    BY RegisterSet, <1>12 DEF Unset, TypeOK, Ring, Walk
  <2>2. queue' \in [Indices -> Registers]
    BY <1>12, <2>1, WriteKeepsType DEF Unset
  <2> QED
    BY <1>12, <2>2 DEF Unset, TypeOK, Pcs, globals, maps, find, lists
<1>13. ASSUME NEW r \in rings, DeleteNext(r)
      PROVE  TypeOK'
  BY <1>13 DEF DeleteNext, TypeOK, Pcs, Ring
<1>14. CASE Deactivate
  <2>1. [queue[sel] EXCEPT !.ready = FALSE, !.addr = IF version = 1 THEN Zero ELSE @] \in Registers
    BY RegisterSet, <1>14 DEF Deactivate, TypeOK, Ring, Walk
  <2>2. queue' \in [Indices -> Registers]
    BY <1>14, <2>1, WriteKeepsType DEF Deactivate
  <2>3. mapped' \in [Indices -> Frames \cup {Zero, None}]
    BY <1>14 DEF Deactivate, TypeOK
  <2>4. rings' \subseteq Ring /\ virtqueues' \subseteq rings'
    BY <1>14 DEF Deactivate, TypeOK, Owned
  <2> QED
    BY <1>14, <2>2, <2>3, <2>4 DEF Deactivate, TypeOK, Pcs, globals, maps, find, lists
<1>15. CASE Deleted
  BY <1>15 DEF Deleted, TypeOK, Pcs
<1>16. CASE DriverOk
  BY <1>16 DEF DriverOk, TypeOK, Pcs
<1>17. CASE StatusWritten
  BY <1>17 DEF StatusWritten, TypeOK, Pcs
<1>18. CASE Reset
  <2>1. Idle \in Registers
    BY VqAssumption DEF Idle, Registers
  <2> QED
    BY <1>18, <2>1, VqAssumption, SMTT(40) DEF Reset, TypeOK, Pcs, Indices, globals, find, lists
<1>19. ASSUME NEW q \in Indices, ShareVqs(q)
      PROVE  TypeOK'
  <2>1. q \in 0..(Slots - 1)
    BY VqAssumption DEF Indices
  <2>2. vq_pfns[q] \in Frames \cup {Zero}
    BY <2>1 DEF TypeOK
  <2> QED
    BY <1>19, <2>2 DEF ShareVqs, TypeOK, device, find, lists
<1>20. CASE Mmap
  BY <1>20 DEF Mmap, TypeOK, Pcs, NoQueue
<1>21. CASE MmapActivated
  BY <1>21 DEF MmapActivated, TypeOK, Pcs
<1>22. CASE Exit
  BY <1>22 DEF Exit, TypeOK, Pcs, NoQueue
<1>23. CASE UNCHANGED vars
  BY <1>23 DEF vars, TypeOK
<1> QED
  BY <1>1, <1>2, <1>3, <1>4, <1>5, <1>6, <1>7, <1>8, <1>9, <1>10, <1>11, <1>12, <1>13,
     <1>14, <1>15, <1>16, <1>17, <1>18, <1>19, <1>20, <1>21, <1>22, <1>23 DEF Next, Setup

LEMMA WalkNext ==
    ASSUME TypeOK, Walk, [Next]_vars
    PROVE  Walk'
<1> USE VqAssumption DEF device, globals, maps, find, lists
<1>1. ASSUME NEW n \in [1..Entries -> BOOLEAN], Bind(n)
      PROVE  Walk'
  BY <1>1 DEF Bind, Walk, Busy, TypeOK, Indices, NoQueue, index, Serving
<1>2. CASE FindNext
  <2>1. queue_idx \in Nat /\ i \in Nat /\ Entries \in Nat /\ i <= Entries + 1 /\ queue_idx < i
    BY <1>2, VqAssumption DEF FindNext, Walk, TypeOK
  <2>2. pc = "next" /\ mapping = NoQueue /\ UNCHANGED <<mapping, ring, rings, adapter, sel, version>>
    BY <1>2 DEF FindNext, Walk
  <2>3. CASE i > Entries /\ pc' = "ok" /\ UNCHANGED <<i, queue_idx>>
    BY <2>1, <2>2, <2>3 DEF Walk, Busy, NoQueue
  <2>4. CASE i' = i + 1 /\ UNCHANGED <<pc, queue_idx>>
    BY <2>1, <2>2, <2>4 DEF Walk, Busy, NoQueue
  <2>5. CASE i <= Entries /\ queue_idx' = queue_idx + 1 /\ pc' = "sel" /\ UNCHANGED i
    BY <2>1, <2>2, <2>5 DEF Walk, Busy, NoQueue
  <2> QED
    BY <1>2, <2>3, <2>4, <2>5 DEF FindNext
<1>3. CASE Select
  BY <1>3 DEF Select, Walk, Busy, TypeOK, Indices, NoQueue, index, Serving
<1>4. CASE CheckFree
  BY <1>4 DEF CheckFree, Walk, Busy, TypeOK, Indices, NoQueue, index, Serving
<1>5. CASE Create
  BY <1>5 DEF Create, Walk, Busy, TypeOK, Indices, NoQueue, index, Serving
<1>6. CASE CreateFails
  BY <1>6 DEF CreateFails, Walk, Busy, TypeOK, Indices, NoQueue, index, Serving
<1>7. CASE SetNum
  BY <1>7 DEF SetNum, Walk, Busy, TypeOK, Indices, NoQueue, index, Serving
<1>8. CASE SetNumKeepFrame
  BY <1>8 DEF SetNumKeepFrame, Walk, Busy, TypeOK, Indices, NoQueue, index, Serving
<1>9. CASE SetAddresses
  BY <1>9 DEF SetAddresses, Walk, Busy, TypeOK, Indices, NoQueue, index, Serving
<1>10. CASE Activate
  BY <1>10 DEF Activate, Walk, Busy, TypeOK, Indices, NoQueue, index, Serving
<1>11. CASE Activated
  BY <1>11 DEF Activated, Walk, Busy, TypeOK, Indices, NoQueue, index, Serving
<1>12. CASE Unset
  BY <1>12 DEF Unset, Walk, Busy, TypeOK, Indices, NoQueue, index, Serving
<1>13. ASSUME NEW r \in rings, DeleteNext(r)
      PROVE  Walk'
  BY <1>13 DEF DeleteNext, Walk, Busy, TypeOK, Indices, NoQueue, index, Serving
<1>14. CASE Deactivate
  BY <1>14 DEF Deactivate, Walk, Busy, TypeOK, Indices, NoQueue, index, Serving
<1>15. CASE Deleted
  BY <1>15 DEF Deleted, Walk, Busy, TypeOK, Indices, NoQueue, index, Serving
<1>16. CASE DriverOk
  BY <1>16 DEF DriverOk, Walk, Busy, TypeOK, Indices, NoQueue, index, Serving
<1>17. CASE StatusWritten
  BY <1>17 DEF StatusWritten, Walk, Busy, TypeOK, Indices, NoQueue, index, Serving
<1>18. CASE Reset
  BY <1>18 DEF Reset, Walk, Busy, TypeOK, Indices, NoQueue, index, Serving
<1>19. ASSUME NEW q \in Indices, ShareVqs(q)
      PROVE  Walk'
  BY <1>19 DEF ShareVqs, Walk, Busy, TypeOK, Indices, NoQueue, index, Serving
<1>20. CASE Mmap
  BY <1>20 DEF Mmap, Walk, Busy, TypeOK, Indices, NoQueue, index, Serving
<1>21. CASE MmapActivated
  BY <1>21 DEF MmapActivated, Walk, Busy, TypeOK, Indices, NoQueue, index, Serving
<1>22. CASE Exit
  BY <1>22 DEF Exit, Walk, Busy, TypeOK, Indices, NoQueue, index, Serving
<1>23. CASE UNCHANGED vars
  BY <1>23 DEF vars, Walk, Busy, TypeOK, Indices, NoQueue, index, Serving
<1> QED
  BY <1>1, <1>2, <1>3, <1>4, <1>5, <1>6, <1>7, <1>8, <1>9, <1>10, <1>11, <1>12, <1>13,
     <1>14, <1>15, <1>16, <1>17, <1>18, <1>19, <1>20, <1>21, <1>22, <1>23 DEF Next, Setup

-----------------------------------------------------------------------------
(* The rings the driver holds.                                             *)

LEMMA OwnedInit == Init => Owned
BY DEF Init, Owned

LEMMA OwnedNext ==
    ASSUME TypeOK, Walk, Owned, [Next]_vars
    PROVE  Owned'
<1> USE VqAssumption DEF device, globals, maps, find, lists
<1>1. ASSUME NEW n \in [1..Entries -> BOOLEAN], Bind(n)
      PROVE  Owned'
  <2>1. rings' = {} /\ virtqueues' = {} /\ pc' = "next" /\ queue_idx' = 0
    BY <1>1 DEF Bind, Owned
  <2>2. Indexed(queue_idx)'
    BY <2>1 DEF Indexed
  <2> QED
    BY <2>1, <2>2 DEF Owned
<1>2. CASE FindNext
  <2>1. queue_idx \in Nat /\ i \in Nat
    BY DEF TypeOK
  <2>2. \/ pc' \in {"next", "ok"} /\ queue_idx' = queue_idx
        \/ pc' = "sel" /\ queue_idx' = queue_idx + 1
    BY <1>2 DEF FindNext
  <2>3. Indexed(queue_idx) /\ virtqueues = rings /\ UNCHANGED <<rings, virtqueues>>
    BY <1>2 DEF FindNext, Owned
  <2>4. CASE pc' \in {"next", "ok"} /\ queue_idx' = queue_idx
    BY <2>3, <2>4 DEF Owned, Indexed
  <2>5. CASE pc' = "sel" /\ queue_idx' = queue_idx + 1
    <3>1. index' = queue_idx
      BY <2>1, <2>5 DEF index
    <3> QED
      BY <2>3, <2>5, <3>1 DEF Owned, Indexed
  <2> QED
    BY <2>2, <2>4, <2>5
<1>3. CASE Select
  BY <1>3 DEF Select, Walk, TypeOK, Owned, Indexed, index
<1>4. CASE CheckFree
  BY <1>4 DEF CheckFree, Walk, TypeOK, Owned, Indexed, index
<1>5. CASE Create
  <2>1. PICK f \in Frames, n \in 1..num_max[sel] :
              ring' = [index |-> index, frame |-> f, size |-> n]
    BY <1>5 DEF Create
  <2>2. /\ virtqueues = rings /\ Indexed(index) /\ pc' = "num"
        /\ rings' = rings \cup {ring'} /\ ring'.index = index
        /\ UNCHANGED <<virtqueues, queue_idx>>
    BY <1>5, <2>1 DEF Create, Owned
  <2>3. index \in Nat /\ queue_idx = index + 1 /\ queue_idx \in Nat
    BY <1>5, VqAssumption DEF Create, Walk, Busy, TypeOK, index
  <2>4. \A r \in rings : r.index < index /\ r.index \in Nat
    BY <2>2, VqAssumption DEF TypeOK, Ring, Indices, Indexed
  <2>5. ring' \notin rings /\ \A r \in rings : r.index # ring'.index
    BY <2>2, <2>3, <2>4
  <2>6. \A r, s \in rings' : r.index = s.index => r = s
    BY <2>2, <2>5 DEF Owned
  <2>7. Indexed(queue_idx)'
    <3>1. \A r \in rings' : r.index < queue_idx
      BY <2>2, <2>3, <2>4
    <3>2. ASSUME NEW q \in 0..(queue_idx - 1)
          PROVE  \E r \in rings' : r.index = q
      BY <2>2, <2>3 DEF Indexed
    <3> QED
      BY <2>2, <3>1, <3>2 DEF Indexed
  <2> QED
    BY <1>5, <2>2, <2>5, <2>6, <2>7 DEF Create, Owned, index
<1>6. CASE CreateFails
  BY <1>6 DEF CreateFails, Walk, TypeOK, Owned, Indexed, index
<1>7. CASE SetNum
  BY <1>7 DEF SetNum, Walk, TypeOK, Owned, Indexed, index
<1>8. CASE SetNumKeepFrame
  <2>1. /\ ring.index = index /\ virtqueues = rings \ {ring} /\ Indexed(queue_idx)
        /\ ring \in rings /\ UNCHANGED <<ring, virtqueues, queue_idx>>
    BY <1>8 DEF SetNumKeepFrame, Owned, Walk
  <2>2. CASE pc' = "activate" /\ rings' = rings
    BY <1>8, <2>1, <2>2 DEF Owned, Indexed, index
  <2>3. CASE pc' = "unset" /\ rings' = rings \ {ring}
    <3>1. queue_idx \in Nat /\ index = queue_idx - 1 /\ \A r \in rings : r.index \in Nat
      BY VqAssumption DEF TypeOK, index, Ring, Indices
    <3>2. \A r \in rings' : r.index < index
      BY <2>1, <2>3, <3>1 DEF Owned, Indexed
    <3>3. ASSUME NEW q \in 0..(index - 1)
          PROVE  \E r \in rings' : r.index = q
      BY <2>1, <2>3, <3>1 DEF Indexed
    <3>4. Indexed(index)'
      BY <2>1, <3>1, <3>2, <3>3 DEF Indexed, index
    <3> QED
      BY <2>1, <2>3, <3>4 DEF Owned
  <2> QED
    BY <1>8, <2>2, <2>3 DEF SetNumKeepFrame
<1>9. CASE SetAddresses
  BY <1>9 DEF SetAddresses, Walk, TypeOK, Owned, Indexed, index
<1>10. CASE Activate
  BY <1>10 DEF Activate, Walk, TypeOK, Owned, Indexed, index
<1>11. CASE Activated
  BY <1>11 DEF Activated, Walk, TypeOK, Owned, Indexed, index
<1>12. CASE Unset
  BY <1>12 DEF Unset, Walk, TypeOK, Owned, Indexed, index
<1>13. ASSUME NEW r \in rings, DeleteNext(r)
      PROVE  Owned'
  BY <1>13 DEF DeleteNext, Walk, TypeOK, Owned, Indexed, index
<1>14. CASE Deactivate
  BY <1>14 DEF Deactivate, Walk, TypeOK, Owned, Indexed, index
<1>15. CASE Deleted
  BY <1>15 DEF Deleted, Walk, TypeOK, Owned, Indexed, index
<1>16. CASE DriverOk
  BY <1>16 DEF DriverOk, Walk, TypeOK, Owned, Indexed, index
<1>17. CASE StatusWritten
  BY <1>17 DEF StatusWritten, Walk, TypeOK, Owned, Indexed, index
<1>18. CASE Reset
  BY <1>18 DEF Reset, Walk, TypeOK, Owned, Indexed, index
<1>19. ASSUME NEW q \in Indices, ShareVqs(q)
      PROVE  Owned'
  BY <1>19 DEF ShareVqs, Walk, TypeOK, Owned, Indexed, index
<1>20. CASE Mmap
  BY <1>20 DEF Mmap, Walk, TypeOK, Owned, Indexed, index
<1>21. CASE MmapActivated
  BY <1>21 DEF MmapActivated, Walk, TypeOK, Owned, Indexed, index
<1>22. CASE Exit
  BY <1>22 DEF Exit, Walk, TypeOK, Owned, Indexed, index
<1>23. CASE UNCHANGED vars
  BY <1>23 DEF vars, Walk, TypeOK, Owned, Indexed, index
<1> QED
  BY <1>1, <1>2, <1>3, <1>4, <1>5, <1>6, <1>7, <1>8, <1>9, <1>10, <1>11, <1>12, <1>13,
     <1>14, <1>15, <1>16, <1>17, <1>18, <1>19, <1>20, <1>21, <1>22, <1>23 DEF Next, Setup

\* The driver's and the device's variables keep their types.
THEOREM QueueTypes == Spec => []TypeOK
BY TypeInit, OwnedInit, TypeNext, WalkNext, OwnedNext, PTL DEF Spec

-----------------------------------------------------------------------------
(* The device's registers.                                                 *)

\* What the device was told, while it can be told anything.
Told ==
    Serving =>
        /\ \A q \in Indices :
              queue[q].ready => \E r \in rings : r.index = q /\ r.frame = queue[q].addr
        /\ pc \in {"max", "num", "addr", "activate", "unset"} => ~queue[sel].ready
        /\ pc \in {"addr", "activate", "activating"} => queue[sel].num = ring.size
        /\ pc = "activate" /\ version = 2 => queue[sel].addr = ring.frame
        /\ pc = "activating" => queue[sel].ready /\ queue[sel].addr = ring.frame
        /\ pc \notin {"del", "delsel"} =>
              \A r \in virtqueues :
                  queue[r.index] = [num |-> r.size, addr |-> r.frame, ready |-> TRUE]

\* The queues set up so far are not the one being set up.
LEMMA OthersSetUp ==
    ASSUME TypeOK, Walk, Owned, Serving,
           pc \in {"avail", "max", "num", "addr", "activate", "activating", "unset"}
    PROVE  \A r \in virtqueues : r.index \in Indices \ {sel}
<1>1. sel = index /\ queue_idx \in Nat /\ \A r \in rings : r.index \in Indices /\ r.index \in Nat
  BY VqAssumption DEF Walk, Busy, TypeOK, Ring, Indices
<1>2. CASE pc \in {"avail", "max", "unset"}
  <2>1. virtqueues = rings /\ \A r \in rings : r.index < index
    BY <1>2 DEF Owned, Indexed
  <2> QED
    BY <1>1, <2>1 DEF index
<1>3. CASE pc \in {"num", "addr", "activate", "activating"}
  <2>1. virtqueues = rings \ {ring} /\ ring \in rings /\ ring.index = index
    BY <1>3 DEF Owned, Walk
  <2> QED
    BY <1>1, <2>1 DEF Owned
<1> QED
  BY <1>2, <1>3

LEMMA ToldInit == Init => Told
BY VqAssumption DEF Init, Told, Idle

LEMMA ToldNext ==
    ASSUME TypeOK, Walk, Owned, Told, [Next]_vars
    PROVE  Told'
<1> USE VqAssumption DEF device, globals, maps, find, lists
<1>1. ASSUME NEW n \in [1..Entries -> BOOLEAN], Bind(n)
      PROVE  Told'
  BY <1>1 DEF Bind, Told, Serving
<1>2. CASE FindNext
  BY <1>2 DEF FindNext, Told, Serving
<1>3. CASE Select
  BY <1>3 DEF Select, Told, Serving
<1>4. CASE CheckFree
  BY <1>4 DEF CheckFree, Told, Serving
<1>5. CASE Create
  BY <1>5 DEF Create, Told, Serving, TypeOK, Owned, Walk, Busy, Idle, Ring, Indices
<1>6. CASE CreateFails
  BY <1>6 DEF CreateFails, Told, Serving
<1>7. CASE SetNum
  <2> SUFFICES ASSUME Serving PROVE Told'
    BY <1>7 DEF SetNum, Told, Serving
  <2>1. /\ \A r \in virtqueues : r.index \in Indices \ {sel}
        /\ sel \in Indices /\ queue[sel] \in Registers /\ UNCHANGED sel
    BY <1>7, OthersSetUp DEF SetNum, TypeOK
  <2>2. \A q \in Indices \ {sel} : queue'[q] = queue[q]
    BY <1>7, <2>1 DEF SetNum, WriteSelected, TypeOK
  <2>3. ~queue'[sel].ready /\ queue'[sel].num = ring.size /\ pc' = "addr"
    BY <1>7, <2>1 DEF SetNum, WriteSelected, TypeOK, Registers, Told
  <2>4. ring \in rings /\ UNCHANGED <<ring, rings, virtqueues>>
    BY <1>7 DEF SetNum, Walk, Owned, Busy
  <2> QED
    BY <1>7, <2>1, <2>2, <2>3, <2>4 DEF SetNum, Told, Serving, Owned
<1>8. CASE SetNumKeepFrame
  <2> SUFFICES ASSUME Serving PROVE Told'
    BY <1>8 DEF SetNumKeepFrame, Told, Serving
  <2>1. /\ \A r \in virtqueues : r.index \in Indices \ {sel}
        /\ sel \in Indices /\ queue[sel] \in Registers /\ UNCHANGED sel
    BY <1>8, OthersSetUp DEF SetNumKeepFrame, TypeOK
  <2>2. \A q \in Indices \ {sel} : queue'[q] = queue[q]
    BY <1>8, <2>1 DEF SetNumKeepFrame, WriteSelected, TypeOK
  <2>3. ~queue'[sel].ready /\ queue'[sel].num = ring.size /\ pc' \in {"unset", "activate"}
        /\ version' = 1
    BY <1>8, <2>1 DEF SetNumKeepFrame, WriteSelected, TypeOK, Registers, Told
  <2>4. ring \in rings /\ virtqueues = rings \ {ring} /\ UNCHANGED <<ring, virtqueues>>
        /\ rings' \in {rings, rings \ {ring}}
    BY <1>8 DEF SetNumKeepFrame, Walk, Owned, Busy
  <2>5. sel = ring.index /\ ~queue[sel].ready
    BY <1>8 DEF SetNumKeepFrame, Walk, Owned, Busy, Told
  <2>6. ASSUME NEW q \in Indices, queue'[q].ready
        PROVE  \E r \in rings' : r.index = q /\ r.frame = queue'[q].addr
    <3>1. q # sel /\ queue'[q] = queue[q]
      BY <2>2, <2>3, <2>6
    <3>2. PICK r \in rings : r.index = q /\ r.frame = queue[q].addr
      BY <2>6, <3>1 DEF Told
    <3> QED
      BY <2>4, <2>5, <3>1, <3>2
  <2>7. \A r \in virtqueues :
           queue'[r.index] = [num |-> r.size, addr |-> r.frame, ready |-> TRUE]
    BY <1>8, <2>1, <2>2 DEF SetNumKeepFrame, Told
  <2> QED
    BY <2>1, <2>3, <2>4, <2>6, <2>7 DEF Told
<1>9. CASE SetAddresses
  <2> SUFFICES ASSUME Serving PROVE Told'
    BY <1>9 DEF SetAddresses, Told, Serving
  <2>1. /\ \A r \in virtqueues : r.index \in Indices \ {sel}
        /\ sel \in Indices /\ queue[sel] \in Registers /\ UNCHANGED sel
    BY <1>9, OthersSetUp DEF SetAddresses, TypeOK
  <2>2. \A q \in Indices \ {sel} : queue'[q] = queue[q]
    BY <1>9, <2>1 DEF SetAddresses, WriteSelected, TypeOK
  <2>3. /\ ~queue'[sel].ready /\ queue'[sel].num = ring.size
        /\ queue'[sel].addr = ring.frame /\ pc' = "activate"
    BY <1>9, <2>1 DEF SetAddresses, WriteSelected, TypeOK, Registers, Told
  <2>4. ring \in rings /\ UNCHANGED <<ring, rings, virtqueues>>
    BY <1>9 DEF SetAddresses, Walk, Owned, Busy
  <2> QED
    BY <1>9, <2>1, <2>2, <2>3, <2>4 DEF SetAddresses, Told, Serving, Owned
<1>10. CASE Activate
  <2> SUFFICES ASSUME Serving PROVE Told'
    BY <1>10 DEF Activate, Told, Serving
  <2>1. /\ \A r \in virtqueues : r.index \in Indices \ {sel}
        /\ sel \in Indices /\ queue[sel] \in Registers /\ UNCHANGED sel
    BY <1>10, OthersSetUp DEF Activate, TypeOK
  <2>2. \A q \in Indices \ {sel} : queue'[q] = queue[q]
    BY <1>10, <2>1 DEF Activate, WriteSelected, TypeOK
  <2>3. /\ queue'[sel].ready /\ queue'[sel].num = ring.size
        /\ queue'[sel].addr = ring.frame /\ pc' = "activating"
    BY <1>10, <2>1 DEF Activate, WriteSelected, TypeOK, Registers, Told
  <2>4. ring \in rings /\ UNCHANGED <<ring, rings, virtqueues>> /\ sel = ring.index
    BY <1>10 DEF Activate, Walk, Owned, Busy
  <2> QED
    BY <1>10, <2>1, <2>2, <2>3, <2>4 DEF Activate, Told, Serving, Owned
<1>11. CASE Activated
  <2> SUFFICES ASSUME Serving PROVE Told'
    BY <1>11 DEF Activated, Told, Serving
  <2>1. sel = ring.index /\ UNCHANGED <<queue, rings>> /\ virtqueues' = virtqueues \cup {ring}
    BY <1>11 DEF Activated, Walk, Owned, Busy
  <2>2. queue[sel] = [num |-> ring.size, addr |-> ring.frame, ready |-> TRUE]
    BY <1>11 DEF Activated, Told, TypeOK, Registers
  <2>3. pc' = "next" /\ \A r \in virtqueues' :
           queue[r.index] = [num |-> r.size, addr |-> r.frame, ready |-> TRUE]
    BY <1>11, <2>1, <2>2 DEF Activated, Told
  <2>4. \A q \in Indices :
           queue[q].ready => \E r \in rings : r.index = q /\ r.frame = queue[q].addr
    BY DEF Told
  <2> QED
    BY <2>1, <2>3, <2>4 DEF Told
<1>12. CASE Unset
  <2> SUFFICES ASSUME Serving PROVE Told'
    BY <1>12 DEF Unset, Told, Serving
  <2>1. /\ \A r \in virtqueues : r.index \in Indices \ {sel}
        /\ sel \in Indices /\ queue[sel] \in Registers /\ UNCHANGED sel
    BY <1>12, OthersSetUp DEF Unset, TypeOK
  <2>2. \A q \in Indices \ {sel} : queue'[q] = queue[q]
    BY <1>12, <2>1 DEF Unset, WriteSelected, TypeOK
  <2>3. ~queue'[sel].ready /\ pc' = "del"
    BY <1>12, <2>1 DEF Unset, WriteSelected, TypeOK, Registers, Told
  <2>4. UNCHANGED <<ring, rings, virtqueues>>
    BY <1>12 DEF Unset, Walk, Owned, Busy
  <2> QED
    BY <1>12, <2>1, <2>2, <2>3, <2>4 DEF Unset, Told, Serving, Owned
<1>13. ASSUME NEW r \in rings, DeleteNext(r)
      PROVE  Told'
  BY <1>13 DEF DeleteNext, Told, Serving, TypeOK, Owned, Walk, Busy, Idle, Ring, Indices
<1>14. CASE Deactivate
  <2> SUFFICES ASSUME Serving PROVE Told'
    BY <1>14 DEF Deactivate, Told, Serving
  <2>1. sel = ring.index /\ rings' = rings \ {ring} /\ sel \in Indices /\ pc' = "del"
    BY <1>14 DEF Deactivate, Walk, TypeOK
  <2>2. ~queue'[sel].ready /\ \A q \in Indices \ {sel} : queue'[q] = queue[q]
    BY <1>14 DEF Deactivate, WriteSelected, TypeOK, Registers
  <2>3. ASSUME NEW q \in Indices, queue'[q].ready
        PROVE  \E r \in rings' : r.index = q /\ r.frame = queue'[q].addr
    <3>1. PICK r \in rings : r.index = q /\ r.frame = queue[q].addr
      BY <2>2, <2>3 DEF Told
    <3> QED
      BY <2>1, <2>2, <2>3, <3>1
  <2> QED
    BY <2>1, <2>3 DEF Told
<1>15. CASE Deleted
  BY <1>15 DEF Deleted, Told, Serving, TypeOK, Owned, Walk, Busy, Idle, Ring, Indices
<1>16. CASE DriverOk
  BY <1>16 DEF DriverOk, Told, Serving
<1>17. CASE StatusWritten
  BY <1>17 DEF StatusWritten, Told, Serving
<1>18. CASE Reset
  BY <1>18 DEF Reset, Told, Serving, TypeOK, Owned, Walk, Busy, Idle, Ring, Indices
<1>19. ASSUME NEW q \in Indices, ShareVqs(q)
      PROVE  Told'
  BY <1>19 DEF ShareVqs, Told, Serving
<1>20. CASE Mmap
  BY <1>20 DEF Mmap, Told, Serving
<1>21. CASE MmapActivated
  BY <1>21 DEF MmapActivated, Told, Serving
<1>22. CASE Exit
  BY <1>22 DEF Exit, Told, Serving
<1>23. CASE UNCHANGED vars
  BY <1>23 DEF vars, Told, Serving
<1> QED
  BY <1>1, <1>2, <1>3, <1>4, <1>5, <1>6, <1>7, <1>8, <1>9, <1>10, <1>11, <1>12, <1>13,
     <1>14, <1>15, <1>16, <1>17, <1>18, <1>19, <1>20, <1>21, <1>22, <1>23 DEF Next, Setup

\* The invariant the properties follow from.
IInv == TypeOK /\ Walk /\ Owned /\ Told

THEOREM QueuesInvariant == Spec => []IInv
BY TypeInit, OwnedInit, ToldInit, TypeNext, WalkNext, OwnedNext, ToldNext, PTL DEF Spec,
   IInv

\* The device knows the queues of vm_dev->virtqueues by their own rings.
THEOREM QueuesMatch == Spec => []RegistersMatch
<1>1. IInv => RegistersMatch
  BY DEF IInv, Told, RegistersMatch
<1> QED
  BY <1>1, QueuesInvariant, PTL

\* The device never holds an active queue whose ring is freed, or another's.
THEOREM NoRingDangles == Spec => []NoDanglingRing
<1>1. IInv => NoDanglingRing
  BY DEF IInv, Told, NoDanglingRing
<1> QED
  BY <1>1, QueuesInvariant, PTL

-----------------------------------------------------------------------------
(* vm_find_vqs sets up all or nothing.                                     *)

NamedUpTo(n) == {k \in 1..n : names[k]}

\* queue_idx counts the names seen, the one at hand included.
Counted ==
    /\ pc \in {"next", "ok", "status", "running"} => queue_idx = Cardinality(NamedUpTo(i - 1))
    /\ pc \in Busy => queue_idx = Cardinality(NamedUpTo(i))

LEMMA CountedInit == Init => Counted
BY DEF Init, Counted, Busy

LEMMA CountedNext ==
    ASSUME TypeOK, Counted, [Next]_vars
    PROVE  Counted'
<1> USE VqAssumption DEF device, globals, maps, find, lists
<1>1. ASSUME NEW n \in [1..Entries -> BOOLEAN], Bind(n)
      PROVE  Counted'
  <2>1. 1..(i' - 1) = {} /\ pc' = "next" /\ queue_idx' = 0
    BY <1>1 DEF Bind
  <2>2. NamedUpTo(i - 1)' = {}
    BY <2>1 DEF NamedUpTo
  <2> QED
    BY <2>1, <2>2, FS_EmptySet DEF Counted, Busy
<1>2. CASE FindNext
  <2>1. /\ i \in Nat \ {0} /\ queue_idx = Cardinality(NamedUpTo(i - 1))
        /\ names' = names
    BY <1>2 DEF FindNext, Counted, TypeOK
  <2>2. CASE i' = i + 1 /\ pc' = pc /\ queue_idx' = queue_idx /\ ~names[i]
    <3>1. NamedUpTo(i - 1)' = NamedUpTo(i - 1)
      BY <2>1, <2>2 DEF NamedUpTo
    <3> QED
      BY <1>2, <2>1, <2>2, <3>1 DEF FindNext, Counted, Busy
  <2>3. CASE i' = i /\ pc' = "sel" /\ queue_idx' = queue_idx + 1 /\ names[i]
    <3>1. NamedUpTo(i)' = NamedUpTo(i - 1) \cup {i} /\ i \notin NamedUpTo(i - 1)
      BY <2>1, <2>3 DEF NamedUpTo
    <3>2. IsFiniteSet(NamedUpTo(i - 1))
      <4>1. i - 1 \in Int /\ NamedUpTo(i - 1) \subseteq 1..(i - 1)
        BY <2>1 DEF NamedUpTo
      <4>2. IsFiniteSet(1..(i - 1))
        BY <4>1, FS_Interval
      <4> QED
        BY <4>1, <4>2, FS_Subset
    <3>3. Cardinality(NamedUpTo(i)') = Cardinality(NamedUpTo(i - 1)) + 1
      BY <3>1, <3>2, FS_AddElement
    <3> QED
      BY <2>1, <2>3, <3>3 DEF Counted, Busy
  <2>4. CASE i' = i /\ pc' = "ok" /\ queue_idx' = queue_idx
    BY <2>1, <2>4 DEF Counted, Busy, NamedUpTo
  <2> QED
    BY <1>2, <2>2, <2>3, <2>4 DEF FindNext
<1>3. CASE Select
  BY <1>3 DEF Select, Counted, Busy, NamedUpTo
<1>4. CASE CheckFree
  BY <1>4 DEF CheckFree, Counted, Busy, NamedUpTo
<1>5. CASE Create
  BY <1>5 DEF Create, Counted, Busy, NamedUpTo
<1>6. CASE CreateFails
  BY <1>6 DEF CreateFails, Counted, Busy, NamedUpTo
<1>7. CASE SetNum
  BY <1>7 DEF SetNum, Counted, Busy, NamedUpTo
<1>8. CASE SetNumKeepFrame
  BY <1>8 DEF SetNumKeepFrame, Counted, Busy, NamedUpTo
<1>9. CASE SetAddresses
  BY <1>9 DEF SetAddresses, Counted, Busy, NamedUpTo
<1>10. CASE Activate
  BY <1>10 DEF Activate, Counted, Busy, NamedUpTo
<1>11. CASE Activated
  <2>1. i \in Nat /\ i' - 1 = i /\ names' = names /\ queue_idx' = queue_idx /\ pc' = "next"
    BY <1>11 DEF Activated, TypeOK
  <2> QED
    BY <1>11, <2>1 DEF Activated, Counted, Busy, NamedUpTo
<1>12. CASE Unset
  BY <1>12 DEF Unset, Counted, Busy, NamedUpTo
<1>13. ASSUME NEW r \in rings, DeleteNext(r)
      PROVE  Counted'
  BY <1>13 DEF DeleteNext, Counted, Busy, NamedUpTo
<1>14. CASE Deactivate
  BY <1>14 DEF Deactivate, Counted, Busy, NamedUpTo
<1>15. CASE Deleted
  BY <1>15 DEF Deleted, Counted, Busy, NamedUpTo
<1>16. CASE DriverOk
  BY <1>16 DEF DriverOk, Counted, Busy, NamedUpTo
<1>17. CASE StatusWritten
  BY <1>17 DEF StatusWritten, Counted, Busy, NamedUpTo
<1>18. CASE Reset
  BY <1>18 DEF Reset, Counted, Busy, NamedUpTo
<1>19. ASSUME NEW q \in Indices, ShareVqs(q)
      PROVE  Counted'
  BY <1>19 DEF ShareVqs, Counted, Busy, NamedUpTo
<1>20. CASE Mmap
  BY <1>20 DEF Mmap, Counted, Busy, NamedUpTo
<1>21. CASE MmapActivated
  BY <1>21 DEF MmapActivated, Counted, Busy, NamedUpTo
<1>22. CASE Exit
  BY <1>22 DEF Exit, Counted, Busy, NamedUpTo
<1>23. CASE UNCHANGED vars
  BY <1>23 DEF vars, Counted, Busy, NamedUpTo
<1> QED
  BY <1>1, <1>2, <1>3, <1>4, <1>5, <1>6, <1>7, <1>8, <1>9, <1>10, <1>11, <1>12, <1>13,
     <1>14, <1>15, <1>16, <1>17, <1>18, <1>19, <1>20, <1>21, <1>22, <1>23 DEF Next, Setup

\* Every named entry gets its queue, or nothing is left behind.
THEOREM SetsUpAllOrNothing == Spec => []AllOrNothing
<1>1. IInv /\ Counted => AllOrNothing
  <2> SUFFICES ASSUME IInv, Counted PROVE AllOrNothing
    OBVIOUS
  <2> USE DEF IInv
  <2>1. ASSUME pc \in {"ok", "status", "running"}
        PROVE  /\ virtqueues = rings
               /\ {r.index : r \in rings} = 0..(Cardinality({n \in 1..Entries : names[n]}) - 1)
    <3>1. virtqueues = rings /\ Indexed(queue_idx) /\ i - 1 = Entries
      BY <2>1, VqAssumption DEF Owned, Walk
    <3>2. queue_idx = Cardinality({n \in 1..Entries : names[n]}) /\ queue_idx \in Nat
      <4>1. NamedUpTo(i - 1) = {n \in 1..Entries : names[n]}
        BY <3>1 DEF NamedUpTo
      <4> QED
        <5>1. queue_idx \in Nat /\ i - 1 = Entries
          BY <3>1, VqAssumption DEF TypeOK
        <5> QED
          BY <2>1, <4>1, <5>1 DEF Counted
    <3>3. \A r \in rings : r.index \in Nat
      BY VqAssumption DEF TypeOK, Ring, Indices
    <3>4. {r.index : r \in rings} = 0..(queue_idx - 1)
      BY <3>1, <3>2, <3>3 DEF Indexed
    <3> QED
      BY <3>1, <3>2, <3>4
  <2>2. ASSUME pc = "unbound"
        PROVE  /\ rings = {} /\ virtqueues = {}
               /\ Serving => \A q \in Indices : ~queue[q].ready
    BY <2>2 DEF Owned, Told
  <2> QED
    BY <2>1, <2>2 DEF AllOrNothing
<1>2. IInv /\ Counted /\ [Next]_vars => Counted'
  BY CountedNext DEF IInv
<1> QED
  BY <1>1, <1>2, CountedInit, QueuesInvariant, PTL DEF Spec

-----------------------------------------------------------------------------
(* The frames the driver keeps.                                            *)

\* Every call of find_vqs uses at most one slot of vq_pfns per queue.
Room ==
    /\ vq_index <= binds * Entries
    /\ pc \in {"next", "addr", "activate", "activating"} =>
          vq_index + Entries <= binds * Entries + queue_idx
    /\ pc \in {"sel", "avail", "max", "num"} =>
          vq_index + Entries < binds * Entries + queue_idx

\* Until a second call of find_vqs, a version 1 device's slots are counted as its
\* queues are, and only active queues are mapped.
Kept ==
    version = 1 /\ binds <= 1 =>
        /\ binds = 0 => pc = "unbound" /\ vq_index = 0
        /\ pc \in {"next", "activate", "activating"} => vq_index = queue_idx
        /\ pc \in {"sel", "avail", "max", "num"} => vq_index = index
        /\ \A r \in rings : vq_pfns[r.index] = r.frame \/ (pc = "num" /\ r = ring)
        /\ pc \in {"activate", "activating"} => vq_pfn = ring.frame
        /\ Serving => \A q \in Indices :
              mapped[q] # None => queue[q].ready /\ mapped[q] = queue[q].addr
        /\ mapping # NoQueue => queue[mapping].ready /\ vq_pfn = queue[mapping].addr

LEMMA RoomInit == Init => Room
BY VqAssumption DEF Init, Room

LEMMA RoomNext ==
    ASSUME TypeOK, Walk, Room, [Next]_vars
    PROVE  Room'
<1> USE VqAssumption DEF device, globals, maps, find, lists
<1>1. ASSUME NEW n \in [1..Entries -> BOOLEAN], Bind(n)
      PROVE  Room'
  <2>1. binds \in Nat /\ Entries \in Nat /\ (binds + 1) * Entries = binds * Entries + Entries
    BY VqAssumption DEF TypeOK
  <2>2. binds' * Entries = binds * Entries + Entries /\ binds * Entries \in Nat
    BY <1>1, <2>1 DEF Bind
  <2> QED
    BY <1>1, <2>1, <2>2 DEF Bind, Room, TypeOK
<1>2. CASE FindNext
  BY <1>2 DEF FindNext, Room, TypeOK, Walk
<1>3. CASE Select
  BY <1>3 DEF Select, Room, TypeOK
<1>4. CASE CheckFree
  BY <1>4 DEF CheckFree, Room, TypeOK
<1>5. CASE Create
  BY <1>5 DEF Create, Room, TypeOK
<1>6. CASE CreateFails
  BY <1>6 DEF CreateFails, Room, TypeOK
<1>7. CASE SetNum
  BY <1>7 DEF SetNum, Room, TypeOK
<1>8. CASE SetNumKeepFrame
  <2>1. /\ vq_index \in Nat /\ binds * Entries \in Nat /\ queue_idx \in 0..Entries /\ Entries \in Nat
    BY VqAssumption DEF TypeOK
  <2>2. /\ vq_index + Entries < binds * Entries + queue_idx
        /\ vq_index' = vq_index + 1 /\ pc' \in {"unset", "activate"}
        /\ UNCHANGED <<binds, queue_idx>>
    BY <1>8 DEF SetNumKeepFrame, Room
  <2> QED
    BY <2>1, <2>2 DEF Room
<1>9. CASE SetAddresses
  BY <1>9 DEF SetAddresses, Room, TypeOK
<1>10. CASE Activate
  BY <1>10 DEF Activate, Room, TypeOK
<1>11. CASE Activated
  BY <1>11 DEF Activated, Room, TypeOK
<1>12. CASE Unset
  BY <1>12 DEF Unset, Room, TypeOK
<1>13. ASSUME NEW r \in rings, DeleteNext(r)
      PROVE  Room'
  BY <1>13 DEF DeleteNext, Room, TypeOK
<1>14. CASE Deactivate
  BY <1>14 DEF Deactivate, Room, TypeOK
<1>15. CASE Deleted
  BY <1>15 DEF Deleted, Room, TypeOK
<1>16. CASE DriverOk
  BY <1>16 DEF DriverOk, Room, TypeOK
<1>17. CASE StatusWritten
  BY <1>17 DEF StatusWritten, Room, TypeOK
<1>18. CASE Reset
  BY <1>18 DEF Reset, Room, TypeOK
<1>19. ASSUME NEW q \in Indices, ShareVqs(q)
      PROVE  Room'
  BY <1>19 DEF ShareVqs, Room, TypeOK
<1>20. CASE Mmap
  BY <1>20 DEF Mmap, Room, TypeOK
<1>21. CASE MmapActivated
  BY <1>21 DEF MmapActivated, Room, TypeOK
<1>22. CASE Exit
  BY <1>22 DEF Exit, Room, TypeOK
<1>23. CASE UNCHANGED vars
  BY <1>23 DEF vars, Room, TypeOK
<1> QED
  BY <1>1, <1>2, <1>3, <1>4, <1>5, <1>6, <1>7, <1>8, <1>9, <1>10, <1>11, <1>12, <1>13,
     <1>14, <1>15, <1>16, <1>17, <1>18, <1>19, <1>20, <1>21, <1>22, <1>23 DEF Next, Setup

LEMMA KeptInit == Init => Kept
BY DEF Init, Kept

LEMMA KeptNext ==
    ASSUME IInv, Kept, [Next]_vars
    PROVE  Kept'
<1> USE VqAssumption DEF IInv, device, globals, maps, find, lists
<1>1. ASSUME NEW n \in [1..Entries -> BOOLEAN], Bind(n)
      PROVE  Kept'
  BY <1>1 DEF Bind, Kept, Serving, index, TypeOK, Walk, Busy, Owned, Told
<1>2. CASE FindNext
  BY <1>2 DEF FindNext, Kept, Serving, index, TypeOK, Walk, Busy, Owned, Told
<1>3. CASE Select
  BY <1>3 DEF Select, Kept, Serving, index, TypeOK, Walk, Busy, Owned, Told
<1>4. CASE CheckFree
  BY <1>4 DEF CheckFree, Kept, Serving, index
<1>5. CASE Create
  <2> SUFFICES ASSUME version = 1, binds <= 1 PROVE Kept'
    BY <1>5 DEF Create, Kept
  <2>1. /\ pc = "max" /\ pc' = "num" /\ rings' = rings \cup {ring'}
        /\ UNCHANGED <<version, vq_index, vq_pfns, vq_pfn, queue_idx, queue, mapped, mapping,
                        adapter, binds>>
    BY <1>5 DEF Create
  <2>2. mapping = NoQueue /\ binds # 0
    BY <2>1 DEF Walk, Kept
  <2>3. \A r \in rings' : vq_pfns[r.index] = r.frame \/ r = ring'
    BY <2>1 DEF Kept
  <2>4. vq_index' = index' /\ UNCHANGED Serving
    BY <2>1 DEF Kept, index, Serving
  <2>5. Serving => \A q \in Indices :
           mapped[q] # None => queue[q].ready /\ mapped[q] = queue[q].addr
    BY DEF Kept
  <2>6. mapping' = NoQueue' /\ binds' # 0 /\ version' = 1
    BY <2>1, <2>2 DEF NoQueue
  <2>7. (\A r \in rings : vq_pfns[r.index] = r.frame \/ (pc = "num" /\ r = ring))'
    BY <2>1, <2>3
  <2>8. (Serving => \A q \in Indices :
            mapped[q] # None => queue[q].ready /\ mapped[q] = queue[q].addr)'
    BY <2>1, <2>4, <2>5
  <2> QED
    BY <2>1, <2>4, <2>6, <2>7, <2>8 DEF Kept
<1>6. CASE CreateFails
  BY <1>6 DEF CreateFails, Kept, Serving, index
<1>7. CASE SetNum
  BY <1>7 DEF SetNum, Kept, Serving, index
<1>8. CASE SetNumKeepFrame
  <2> SUFFICES ASSUME version = 1, binds <= 1 PROVE Kept'
    BY <1>8 DEF SetNumKeepFrame, Kept
  <2>1. /\ pc = "num" /\ pc' \in {"unset", "activate"} /\ rings' \subseteq rings
        /\ vq_pfn' = ring.frame /\ vq_index' = vq_index + 1
        /\ UNCHANGED <<version, ring, queue_idx, mapped, mapping, adapter, binds>>
    BY <1>8 DEF SetNumKeepFrame
  <2>2. mapping = NoQueue
    BY <2>1 DEF Walk
  <2>3. /\ ring \in rings /\ ring.index = index /\ vq_index = index
        /\ index \in 0..(Slots - 1) /\ queue_idx \in Nat /\ binds # 0
    BY <2>1, VqAssumption DEF Kept, Owned, Walk, Busy, TypeOK, index
  <2>4. vq_pfns' = [vq_pfns EXCEPT ![index] = ring.frame]
    BY <1>8, <2>3, VqAssumption DEF SetNumKeepFrame
  <2>5. ASSUME NEW r \in rings
        PROVE  vq_pfns'[r.index] = r.frame
    <3>1. r.index \in 0..(Slots - 1)
      BY VqAssumption DEF TypeOK, Ring, Indices
    <3>2. CASE r = ring
      BY <2>3, <2>4, <3>2 DEF TypeOK
    <3>3. CASE r # ring
      BY <2>1, <2>3, <2>4, <3>1, <3>3 DEF TypeOK, Owned, Kept
    <3> QED
      BY <3>2, <3>3
  <2>6. ASSUME Serving, NEW q \in Indices, mapped[q] # None
        PROVE  queue'[q].ready /\ mapped[q] = queue'[q].addr
    <3>1. q # sel /\ queue[q].ready /\ mapped[q] = queue[q].addr
      BY <2>1, <2>6 DEF Kept, Told
    <3> QED
      BY <1>8, <3>1 DEF SetNumKeepFrame, WriteSelected, TypeOK
  <2>7. vq_index' = queue_idx
    BY <2>1, <2>3 DEF index
  <2> QED
    BY <2>1, <2>2, <2>3, <2>5, <2>6, <2>7 DEF Kept, Serving, NoQueue
<1>9. CASE SetAddresses
  BY <1>9 DEF SetAddresses, Kept, Walk
<1>10. CASE Activate
  <2> SUFFICES ASSUME version = 1, binds <= 1 PROVE Kept'
    BY <1>10 DEF Activate, Kept
  <2>1. /\ pc = "activate" /\ pc' = "activating"
        /\ UNCHANGED <<version, vq_index, vq_pfns, vq_pfn, ring, rings, queue_idx, mapped, mapping,
                        adapter, binds>>
    BY <1>10 DEF Activate
  <2>2. mapping = NoQueue /\ binds # 0
    BY <2>1 DEF Walk, Kept
  <2>3. ASSUME Serving, NEW q \in Indices, mapped[q] # None
        PROVE  queue'[q].ready /\ mapped[q] = queue'[q].addr
    <3>1. q # sel /\ queue[q].ready /\ mapped[q] = queue[q].addr
      BY <2>1, <2>3 DEF Kept, Told
    <3> QED
      BY <1>10, <3>1 DEF Activate, WriteSelected, TypeOK
  <2> QED
    BY <2>1, <2>2, <2>3 DEF Kept, Serving, NoQueue
<1>11. CASE Activated
  BY <1>11 DEF Activated, Kept, Serving, index, TypeOK, Walk, Busy, Owned, Told
<1>12. CASE Unset
  <2> SUFFICES ASSUME version = 1, binds <= 1 PROVE Kept'
    BY <1>12 DEF Unset, Kept
  <2>1. /\ pc = "unset" /\ pc' = "del"
        /\ UNCHANGED <<version, vq_index, vq_pfns, vq_pfn, ring, rings, queue_idx, mapped, mapping,
                        adapter, binds>>
    BY <1>12 DEF Unset
  <2>2. mapping = NoQueue /\ binds # 0
    BY <2>1 DEF Walk, Kept
  <2>3. ASSUME Serving, NEW q \in Indices, mapped[q] # None
        PROVE  queue'[q].ready /\ mapped[q] = queue'[q].addr
    <3>1. q # sel /\ queue[q].ready /\ mapped[q] = queue[q].addr
      BY <2>1, <2>3 DEF Kept, Told
    <3> QED
      BY <1>12, <3>1 DEF Unset, WriteSelected, TypeOK
  <2> QED
    BY <2>1, <2>2, <2>3 DEF Kept, Serving, NoQueue
<1>13. ASSUME NEW r \in rings, DeleteNext(r)
      PROVE  Kept'
  BY <1>13 DEF DeleteNext, Kept, Serving, index, TypeOK, Walk, Busy, Owned, Told
<1>14. CASE Deactivate
  <2> SUFFICES ASSUME version = 1, binds <= 1 PROVE Kept'
    BY <1>14 DEF Deactivate, Kept
  <2>1. /\ pc = "delsel" /\ pc' = "del" /\ rings' = rings \ {ring}
        /\ UNCHANGED <<version, vq_index, vq_pfns, vq_pfn, mapping, adapter, binds>>
    BY <1>14 DEF Deactivate
  <2>2. mapping = NoQueue /\ binds # 0
    BY <2>1 DEF Walk, Kept
  <2>3. ASSUME Serving, NEW q \in Indices, mapped'[q] # None
        PROVE  queue'[q].ready /\ mapped'[q] = queue'[q].addr
    <3>1. q # sel /\ mapped'[q] = mapped[q] /\ queue'[q] = queue[q]
      BY <1>14, <2>3 DEF Deactivate, WriteSelected, TypeOK
    <3> QED
      BY <2>3, <3>1 DEF Kept
  <2>4. \A r \in rings' : vq_pfns'[r.index] = r.frame
    BY <2>1 DEF Kept
  <2> QED
    BY <2>1, <2>2, <2>3, <2>4 DEF Kept, Serving, NoQueue
<1>15. CASE Deleted
  BY <1>15 DEF Deleted, Kept, Serving, index
<1>16. CASE DriverOk
  BY <1>16 DEF DriverOk, Kept, Serving, index
<1>17. CASE StatusWritten
  BY <1>17 DEF StatusWritten, Kept, Serving, index
<1>18. CASE Reset
  BY <1>18 DEF Reset, Kept, Serving, index, TypeOK, Walk, Busy, Owned, Told
<1>19. ASSUME NEW q \in Indices, ShareVqs(q)
      PROVE  Kept'
  <2> SUFFICES ASSUME version = 1, binds <= 1 PROVE Kept'
    BY <1>19 DEF ShareVqs, Kept
  <2>1. /\ Serving /\ queue[q].ready /\ pc \in {"activating", "status"}
        /\ vq_pfn' = vq_pfns[q] /\ mapping' = q
        /\ UNCHANGED <<version, adapter, queue, vq_index, vq_pfns, mapped, pc, ring, rings,
                        queue_idx, binds>>
    BY <1>19 DEF ShareVqs, Told
  <2>2. PICK r \in rings : r.index = q /\ r.frame = queue[q].addr
    BY <2>1 DEF Told
  <2>3. vq_pfn' = queue[q].addr
    BY <2>1, <2>2 DEF Kept
  <2>4. pc = "activating" => vq_pfn' = ring.frame
    BY <1>19, <2>1, <2>3 DEF ShareVqs, Told
  <2> QED
    BY <2>1, <2>3, <2>4 DEF Kept, Serving, index
<1>20. CASE Mmap
  BY <1>20 DEF Mmap, Kept, Serving, index, TypeOK, Walk, Busy, Owned, Told
<1>21. CASE MmapActivated
  BY <1>21 DEF MmapActivated, Kept, Serving, index, TypeOK, Walk, Busy, Owned, Told
<1>22. CASE Exit
  BY <1>22 DEF Exit, Kept, Serving, index, TypeOK, Walk, Busy, Owned, Told
<1>23. CASE UNCHANGED vars
  BY <1>23 DEF vars, Kept, Serving, index
<1> QED
  BY <1>1, <1>2, <1>3, <1>4, <1>5, <1>6, <1>7, <1>8, <1>9, <1>10, <1>11, <1>12, <1>13,
     <1>14, <1>15, <1>16, <1>17, <1>18, <1>19, <1>20, <1>21, <1>22, <1>23 DEF Next, Setup

\* No setup writes past vq_pfns, and during the first bind to a version 1 device
\* what is mapped for a queue is its ring, if vq_pfns has room for every bind.
THEOREM FramesAreKept ==
    ASSUME MaxBinds * Entries <= Slots
    PROVE  Spec => []FramesKept
<1>1. IInv /\ Room /\ Kept => FramesKept
  <2> SUFFICES ASSUME IInv, Room, Kept PROVE FramesKept
    OBVIOUS
  <2>1. SlotsSuffice
    <3>1. binds \in Nat /\ MaxBinds \in Nat /\ binds <= MaxBinds /\ Entries \in Nat
      BY VqAssumption DEF IInv, TypeOK
    <3>2. binds * Entries <= MaxBinds * Entries
      BY <3>1
    <3>3. vq_index <= binds * Entries /\ vq_index \in Nat
      BY DEF Room, IInv, TypeOK
    <3> QED
      BY <3>1, <3>2, <3>3, VqAssumption DEF SlotsSuffice
  <2>2. version = 1 /\ binds <= 1 => MapsItsRing
    BY DEF Kept, MapsItsRing
  <2> QED
    BY <2>1, <2>2 DEF FramesKept
<1>2. IInv /\ Room /\ Kept /\ [Next]_vars => Room' /\ Kept'
  BY RoomNext, KeptNext DEF IInv
<1> QED
  BY <1>1, <1>2, RoomInit, KeptInit, QueuesInvariant, PTL DEF Spec
=============================================================================
