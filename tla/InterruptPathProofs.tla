------------------------- MODULE InterruptPathProofs -------------------------
(***************************************************************************)
(* Proofs about InterruptPath, for any threads of the adapter, any users   *)
(* of the transport and any queues.  Locks says what interrupt_lock and    *)
(* vm_dev->lock keep apart, Calls what each thread inside a call has       *)
(* asked for, Seen where a completion or a change that the driver has not  *)
(* seen is on its way to it.                                               *)
(***************************************************************************)
EXTENDS InterruptPath, TLAPS

-----------------------------------------------------------------------------
(* Types.                                                                  *)

\* The adapter's steps, each on its own.
Taken(t) == CTake(t) /\ UNCHANGED <<device, vqs, intr, killed>>
ServedStatus(t) == ServeStatus(t) /\ UNCHANGED <<vqs, intr, killed>>
ServedAck(t) == ServeAck(t) /\ UNCHANGED <<vqs, intr, killed>>
ServedOther(t) == ServeOther(t) /\ UNCHANGED <<vqs, intr, killed>>
AnsweredTo(t) == CAnswer(t) /\ UNCHANGED <<device, vqs, intr, killed>>

LEMMA Constants ==
    /\ \A i \in Irqers : i \in Threads /\ i # Nobody
    /\ \A d \in Drivers : d \in Threads /\ d \notin Irqers
    /\ \A t \in Threads : t \in Irqers \/ t \in Drivers
    /\ Words = {0, 1, 2, 3} /\ {0, IntStatus, IntAck} \subseteq Fns
    /\ IntStatus # IntAck /\ IntStatus # 0 /\ IntAck # 0
<1>1. Words = 0..3 /\ 0..3 = {0, 1, 2, 3}
  BY InterruptAssumption
<1> QED
  BY <1>1, InterruptAssumption

LEMMA ReadsAndWrites ==
    /\ \A f \in Fns : Read(f) \in Requests
    /\ \A f \in Fns, w \in Words : WriteTo(f, w) \in Requests
    /\ \A r \in Requests : r.data \in Words /\ r \in Request
    /\ \A S \in SUBSET Bits : AsWord(S) \in Words
BY Constants DEF Read, WriteTo, Requests, Request, AsWord, Bits

LEMMA TypeInit == Init => TypeOK
<1>1. Blank \in Requests /\ Blank \in Request
  BY Constants DEF Blank, Requests, Request
<1>2. 0 \in Words
  BY Constants
<1>3. Init => CTypeOK
  BY <1>1, <1>2 DEF Init, CInit, CTypeOK
<1> QED
  BY <1>2, <1>3 DEF Init, TypeOK

LEMMA TypeNext ==
    ASSUME TypeOK, [Next]_vars
    PROVE  TypeOK'
<1> USE Constants DEF cvars, device, intr, Goto, Call, CReturn, CTake, CServe, CAnswer
<1>1. ASSUME NEW i \in Irqers, NEW q \in Queues, Complete(i, q)
      PROVE  TypeOK'
  BY <1>1 DEF Complete, TypeOK, CTypeOK, InKernel, Bits
<1>2. ASSUME NEW i \in Irqers, ChangeConfig(i)
      PROVE  TypeOK'
  BY <1>2 DEF ChangeConfig, TypeOK, CTypeOK, InKernel, Bits
<1>3. ASSUME NEW i \in Irqers, Ioctl(i)
      PROVE  TypeOK'
  BY <1>3 DEF Ioctl, TypeOK, CTypeOK, InKernel
<1>4. ASSUME NEW i \in Irqers, LockInterrupt(i)
      PROVE  TypeOK'
  BY <1>4 DEF LockInterrupt, TypeOK, CTypeOK, InKernel
<1>5. ASSUME NEW i \in Irqers, AskStatus(i)
      PROVE  TypeOK'
  <2>1. Read(IntStatus) \in Requests /\ Read(IntStatus).data \in Words
    BY Constants, ReadsAndWrites DEF TypeOK
  <2> QED
    BY <1>5, <2>1, Constants DEF AskStatus, TypeOK, CTypeOK, InKernel
<1>6. ASSUME NEW i \in Irqers, GetStatus(i)
      PROVE  TypeOK'
  BY <1>6 DEF GetStatus, TypeOK, CTypeOK, InKernel
<1>7. ASSUME NEW i \in Irqers, Ack(i)
      PROVE  TypeOK'
  <2>1. WriteTo(IntAck, status[i]) \in Requests /\ WriteTo(IntAck, status[i]).data \in Words
    BY Constants, ReadsAndWrites DEF TypeOK
  <2> QED
    BY <1>7, <2>1, Constants DEF Ack, TypeOK, CTypeOK, InKernel
<1>8. ASSUME NEW i \in Irqers, Acked(i)
      PROVE  TypeOK'
  BY <1>8 DEF Acked, TypeOK, CTypeOK, InKernel
<1>9. ASSUME NEW i \in Irqers, ConfigChanged(i)
      PROVE  TypeOK'
  BY <1>9 DEF ConfigChanged, TypeOK, CTypeOK, InKernel
<1>10. ASSUME NEW i \in Irqers, LockQueues(i)
      PROVE  TypeOK'
  BY <1>10 DEF LockQueues, TypeOK, CTypeOK, InKernel
<1>11. ASSUME NEW i \in Irqers, Callback(i)
      PROVE  TypeOK'
  BY <1>11 DEF Callback, TypeOK, CTypeOK, InKernel
<1>12. ASSUME NEW i \in Irqers, UnlockQueues(i)
      PROVE  TypeOK'
  BY <1>12 DEF UnlockQueues, TypeOK, CTypeOK, InKernel
<1>13. ASSUME NEW i \in Irqers, UnlockInterrupt(i)
      PROVE  TypeOK'
  BY <1>13 DEF UnlockInterrupt, TypeOK, CTypeOK, InKernel
<1>14. ASSUME NEW d \in Drivers, Use(d)
      PROVE  TypeOK'
  <2>1. Read(0) \in Requests /\ Read(0).data \in Words
    BY Constants, ReadsAndWrites DEF TypeOK
  <2> QED
    BY <1>14, <2>1, Constants DEF Use, TypeOK, CTypeOK, InKernel
<1>15. ASSUME NEW d \in Drivers, Used(d)
      PROVE  TypeOK'
  BY <1>15 DEF Used, TypeOK, CTypeOK, InKernel
<1>16. ASSUME NEW q \in Queues, AddVq(q)
      PROVE  TypeOK'
  BY <1>16 DEF AddVq, TypeOK, CTypeOK, InKernel
<1>17. ASSUME NEW q \in Queues, DelVq(q)
      PROVE  TypeOK'
  BY <1>17 DEF DelVq, TypeOK, CTypeOK, InKernel
<1>18. ASSUME NEW t \in Threads, Taken(t)
      PROVE  TypeOK'
  <2>1. asked[t] \in Request
    BY ReadsAndWrites DEF TypeOK, CTypeOK
  <2> QED
    BY <1>18, <2>1 DEF Taken, TypeOK, CTypeOK
<1>19. ASSUME NEW t \in Threads, ServedStatus(t)
      PROVE  TypeOK'
  <2>1. AsWord(isr) \in Words
    BY ReadsAndWrites DEF TypeOK
  <2> QED
    BY <1>19, <2>1 DEF ServedStatus, ServeStatus, TypeOK, CTypeOK
<1>20. ASSUME NEW t \in Threads, ServedAck(t)
      PROVE  TypeOK'
  BY <1>20 DEF ServedAck, ServeAck, TypeOK, CTypeOK, InKernel
<1>21. ASSUME NEW t \in Threads, ServedOther(t)
      PROVE  TypeOK'
  BY <1>21 DEF ServedOther, ServeOther, TypeOK, CTypeOK, InKernel
<1>22. ASSUME NEW t \in Threads, AnsweredTo(t)
      PROVE  TypeOK'
  BY <1>22 DEF AnsweredTo, TypeOK, CTypeOK, InKernel
<1>23. CASE Start
  BY <1>23 DEF Start, Arrive, TypeOK, CTypeOK, InKernel
<1>24. CASE Kill
  BY <1>24 DEF Kill, TypeOK, CTypeOK, InKernel
<1>25. CASE Release
  BY <1>25 DEF Release, Depart, TypeOK, CTypeOK, InKernel
<1>26. CASE ReleaseFinish
  BY <1>26 DEF ReleaseFinish, Disappear, TypeOK, CTypeOK, InKernel
<1>27. CASE UNCHANGED vars
  BY <1>27 DEF vars, TypeOK, CTypeOK, InKernel
<1> QED
  BY <1>1, <1>2, <1>3, <1>4, <1>5, <1>6, <1>7, <1>8, <1>9, <1>10, <1>11, <1>12, <1>13,
     <1>14, <1>15, <1>16, <1>17, <1>18, <1>19, <1>20, <1>21, <1>22, <1>23, <1>24, <1>25,
     <1>26, <1>27 DEF Next, Interrupt, Serve, Taken, ServedStatus, ServedAck, ServedOther,
     AnsweredTo

\* The channel, the device and the interrupting threads keep their types.
THEOREM InterruptTypes == Spec => []TypeOK
BY TypeInit, TypeNext, PTL DEF Spec

-----------------------------------------------------------------------------
(* The two locks.                                                          *)

Locks ==
    /\ \A i \in Irqers : ipc[i] \in InKernel \ {"lock"} => ilock = i
    /\ \A i \in Irqers : ipc[i] = "callback" => vlock = i
    /\ \A i \in Irqers : ipc[i] # "callback" => todo[i] = {}
    /\ \A i \in Irqers : todo[i] \subseteq vqs
    /\ used \subseteq vqs

LEMMA LocksInit == Init => Locks
BY Constants DEF Init, Locks, InKernel

LEMMA LocksNext ==
    ASSUME TypeOK, Locks, [Next]_vars
    PROVE  Locks'
<1> USE Constants DEF cvars, device, intr, Goto, Call, CReturn, CTake, CServe, CAnswer
<1>1. ASSUME NEW i \in Irqers, NEW q \in Queues, Complete(i, q)
      PROVE  Locks'
  BY <1>1 DEF Complete, TypeOK, Locks, InKernel
<1>2. ASSUME NEW i \in Irqers, ChangeConfig(i)
      PROVE  Locks'
  BY <1>2 DEF ChangeConfig, TypeOK, Locks, InKernel
<1>3. ASSUME NEW i \in Irqers, Ioctl(i)
      PROVE  Locks'
  BY <1>3 DEF Ioctl, TypeOK, Locks, InKernel
<1>4. ASSUME NEW i \in Irqers, LockInterrupt(i)
      PROVE  Locks'
  BY <1>4 DEF LockInterrupt, TypeOK, Locks, InKernel
<1>5. ASSUME NEW i \in Irqers, AskStatus(i)
      PROVE  Locks'
  BY <1>5 DEF AskStatus, TypeOK, Locks, InKernel
<1>6. ASSUME NEW i \in Irqers, GetStatus(i)
      PROVE  Locks'
  BY <1>6 DEF GetStatus, TypeOK, Locks, InKernel
<1>7. ASSUME NEW i \in Irqers, Ack(i)
      PROVE  Locks'
  BY <1>7 DEF Ack, TypeOK, Locks, InKernel
<1>8. ASSUME NEW i \in Irqers, Acked(i)
      PROVE  Locks'
  BY <1>8 DEF Acked, TypeOK, Locks, InKernel
<1>9. ASSUME NEW i \in Irqers, ConfigChanged(i)
      PROVE  Locks'
  BY <1>9 DEF ConfigChanged, TypeOK, Locks, InKernel
<1>10. ASSUME NEW i \in Irqers, LockQueues(i)
      PROVE  Locks'
  BY <1>10 DEF LockQueues, TypeOK, Locks, InKernel
<1>11. ASSUME NEW i \in Irqers, Callback(i)
      PROVE  Locks'
  BY <1>11 DEF Callback, TypeOK, Locks, InKernel
<1>12. ASSUME NEW i \in Irqers, UnlockQueues(i)
      PROVE  Locks'
  BY <1>12 DEF UnlockQueues, TypeOK, Locks, InKernel
<1>13. ASSUME NEW i \in Irqers, UnlockInterrupt(i)
      PROVE  Locks'
  BY <1>13 DEF UnlockInterrupt, TypeOK, Locks, InKernel
<1>14. ASSUME NEW d \in Drivers, Use(d)
      PROVE  Locks'
  BY <1>14 DEF Use, TypeOK, Locks, InKernel
<1>15. ASSUME NEW d \in Drivers, Used(d)
      PROVE  Locks'
  BY <1>15 DEF Used, TypeOK, Locks, InKernel
<1>16. ASSUME NEW q \in Queues, AddVq(q)
      PROVE  Locks'
  BY <1>16 DEF AddVq, TypeOK, Locks, InKernel
<1>17. ASSUME NEW q \in Queues, DelVq(q)
      PROVE  Locks'
  BY <1>17 DEF DelVq, TypeOK, Locks, InKernel
<1>18. ASSUME NEW t \in Threads, Taken(t)
      PROVE  Locks'
  BY <1>18 DEF Taken, TypeOK, Locks, InKernel
<1>19. ASSUME NEW t \in Threads, ServedStatus(t)
      PROVE  Locks'
  BY <1>19 DEF ServedStatus, ServeStatus, TypeOK, Locks, InKernel
<1>20. ASSUME NEW t \in Threads, ServedAck(t)
      PROVE  Locks'
  BY <1>20 DEF ServedAck, ServeAck, TypeOK, Locks, InKernel
<1>21. ASSUME NEW t \in Threads, ServedOther(t)
      PROVE  Locks'
  BY <1>21 DEF ServedOther, ServeOther, TypeOK, Locks, InKernel
<1>22. ASSUME NEW t \in Threads, AnsweredTo(t)
      PROVE  Locks'
  BY <1>22 DEF AnsweredTo, TypeOK, Locks, InKernel
<1>23. CASE Start
  BY <1>23 DEF Start, Arrive, TypeOK, Locks, InKernel
<1>24. CASE Kill
  BY <1>24 DEF Kill, TypeOK, Locks, InKernel
<1>25. CASE Release
  BY <1>25 DEF Release, Depart, TypeOK, Locks, InKernel
<1>26. CASE ReleaseFinish
  BY <1>26 DEF ReleaseFinish, Disappear, TypeOK, Locks, InKernel
<1>27. CASE UNCHANGED vars
  BY <1>27 DEF vars, TypeOK, Locks, InKernel
<1> QED
  BY <1>1, <1>2, <1>3, <1>4, <1>5, <1>6, <1>7, <1>8, <1>9, <1>10, <1>11, <1>12, <1>13,
     <1>14, <1>15, <1>16, <1>17, <1>18, <1>19, <1>20, <1>21, <1>22, <1>23, <1>24, <1>25,
     <1>26, <1>27 DEF Next, Interrupt, Serve, Taken, ServedStatus, ServedAck, ServedOther,
     AnsweredTo

\* The callback loop never reaches a queue that vm_del_vq has freed.
THEOREM CallbacksOnLiveQueues == Spec => []CallbackOnLiveQueue
<1>1. Locks => CallbackOnLiveQueue
  BY DEF Locks, CallbackOnLiveQueue
<1> QED
  BY <1>1, TypeInit, LocksInit, TypeNext, LocksNext, PTL DEF Spec

-----------------------------------------------------------------------------
(* Nothing is missed.                                                      *)

Inside(t) ==
    \/ t \in Drivers /\ asked[t] = Read(0)
    \/ t \in Irqers /\ ipc[t] = "statusWait" /\ asked[t] = Read(IntStatus)
    \/ t \in Irqers /\ ipc[t] = "ackWait" /\ asked[t] = WriteTo(IntAck, status[t])

\* Who is in a call, and with which request; only a dead adapter is gone.
Calls ==
    /\ ~killed => adapter \notin {"closed", "gone"}
    /\ \A t \in Threads : st[t] # "idle" => Inside(t)

LEMMA CallsInit == Init => Calls
BY DEF Init, CInit, Calls

LEMMA CallsNext ==
    ASSUME TypeOK, Locks, Calls, [Next]_vars
    PROVE  Calls'
<1> USE Constants DEF cvars, device, intr, Goto, Call, CReturn, CTake, CServe, CAnswer
<1>1. ASSUME NEW i \in Irqers, NEW q \in Queues, Complete(i, q)
      PROVE  Calls'
  BY <1>1 DEF Complete, TypeOK, CTypeOK, Calls, Inside, InKernel
<1>2. ASSUME NEW i \in Irqers, ChangeConfig(i)
      PROVE  Calls'
  BY <1>2 DEF ChangeConfig, TypeOK, CTypeOK, Calls, Inside, InKernel
<1>3. ASSUME NEW i \in Irqers, Ioctl(i)
      PROVE  Calls'
  BY <1>3 DEF Ioctl, TypeOK, CTypeOK, Calls, Inside, InKernel
<1>4. ASSUME NEW i \in Irqers, LockInterrupt(i)
      PROVE  Calls'
  BY <1>4 DEF LockInterrupt, TypeOK, CTypeOK, Calls, Inside, InKernel
<1>5. ASSUME NEW i \in Irqers, AskStatus(i)
      PROVE  Calls'
  BY <1>5 DEF AskStatus, TypeOK, CTypeOK, Calls, Inside, InKernel
<1>6. ASSUME NEW i \in Irqers, GetStatus(i)
      PROVE  Calls'
  BY <1>6 DEF GetStatus, TypeOK, CTypeOK, Calls, Inside, InKernel
<1>7. ASSUME NEW i \in Irqers, Ack(i)
      PROVE  Calls'
  BY <1>7 DEF Ack, TypeOK, CTypeOK, Calls, Inside, InKernel
<1>8. ASSUME NEW i \in Irqers, Acked(i)
      PROVE  Calls'
  BY <1>8 DEF Acked, TypeOK, CTypeOK, Calls, Inside, InKernel
<1>9. ASSUME NEW i \in Irqers, ConfigChanged(i)
      PROVE  Calls'
  BY <1>9 DEF ConfigChanged, TypeOK, CTypeOK, Calls, Inside, InKernel
<1>10. ASSUME NEW i \in Irqers, LockQueues(i)
      PROVE  Calls'
  BY <1>10 DEF LockQueues, TypeOK, CTypeOK, Calls, Inside, InKernel
<1>11. ASSUME NEW i \in Irqers, Callback(i)
      PROVE  Calls'
  BY <1>11 DEF Callback, TypeOK, CTypeOK, Calls, Inside, InKernel
<1>12. ASSUME NEW i \in Irqers, UnlockQueues(i)
      PROVE  Calls'
  BY <1>12 DEF UnlockQueues, TypeOK, CTypeOK, Calls, Inside, InKernel
<1>13. ASSUME NEW i \in Irqers, UnlockInterrupt(i)
      PROVE  Calls'
  BY <1>13 DEF UnlockInterrupt, TypeOK, CTypeOK, Calls, Inside, InKernel
<1>14. ASSUME NEW d \in Drivers, Use(d)
      PROVE  Calls'
  BY <1>14 DEF Use, TypeOK, CTypeOK, Calls, Inside, InKernel
<1>15. ASSUME NEW d \in Drivers, Used(d)
      PROVE  Calls'
  BY <1>15 DEF Used, TypeOK, CTypeOK, Calls, Inside, InKernel
<1>16. ASSUME NEW q \in Queues, AddVq(q)
      PROVE  Calls'
  BY <1>16 DEF AddVq, TypeOK, CTypeOK, Calls, Inside, InKernel
<1>17. ASSUME NEW q \in Queues, DelVq(q)
      PROVE  Calls'
  BY <1>17 DEF DelVq, TypeOK, CTypeOK, Calls, Inside, InKernel
<1>18. ASSUME NEW t \in Threads, Taken(t)
      PROVE  Calls'
  BY <1>18 DEF Taken, TypeOK, CTypeOK, Calls, Inside, InKernel
<1>19. ASSUME NEW t \in Threads, ServedStatus(t)
      PROVE  Calls'
  BY <1>19 DEF ServedStatus, ServeStatus, TypeOK, CTypeOK, Calls, Inside, InKernel
<1>20. ASSUME NEW t \in Threads, ServedAck(t)
      PROVE  Calls'
  BY <1>20 DEF ServedAck, ServeAck, TypeOK, CTypeOK, Calls, Inside, InKernel
<1>21. ASSUME NEW t \in Threads, ServedOther(t)
      PROVE  Calls'
  BY <1>21 DEF ServedOther, ServeOther, TypeOK, CTypeOK, Calls, Inside, InKernel
<1>22. ASSUME NEW t \in Threads, AnsweredTo(t)
      PROVE  Calls'
  BY <1>22 DEF AnsweredTo, TypeOK, CTypeOK, Calls, Inside, InKernel
<1>23. CASE Start
  BY <1>23 DEF Start, Arrive, TypeOK, CTypeOK, Calls, Inside, InKernel
<1>24. CASE Kill
  BY <1>24 DEF Kill, TypeOK, CTypeOK, Calls, Inside, InKernel
<1>25. CASE Release
  BY <1>25 DEF Release, Depart, TypeOK, CTypeOK, Calls, Inside, InKernel
<1>26. CASE ReleaseFinish
  BY <1>26 DEF ReleaseFinish, Disappear, TypeOK, CTypeOK, Calls, Inside, InKernel
<1>27. CASE UNCHANGED vars
  BY <1>27 DEF vars, TypeOK, CTypeOK, Calls, Inside, InKernel
<1> QED
  BY <1>1, <1>2, <1>3, <1>4, <1>5, <1>6, <1>7, <1>8, <1>9, <1>10, <1>11, <1>12, <1>13,
     <1>14, <1>15, <1>16, <1>17, <1>18, <1>19, <1>20, <1>21, <1>22, <1>23, <1>24, <1>25,
     <1>26, <1>27 DEF Next, Interrupt, Serve, Taken, ServedStatus, ServedAck, ServedOther,
     AnsweredTo

\* A status bit that a thread on its way to read the status will find.
Coming(b) ==
    /\ b \in isr
    /\ \E i \in Irqers :
          \/ ipc[i] \in {"raise", "lock", "status"}
          \/ ipc[i] = "statusWait" /\ st[i] \in {"posted", "taken"}

\* A status bit that thread i has read and not yet acted upon.
Carries(i, b) ==
    \/ ipc[i] = "statusWait" /\ st[i] \in {"served", "answered"} /\ InWord(b, word[i])
    \/ ipc[i] \in {"ack", "ackWait", "config"} /\ InWord(b, status[i])

\* Where a queue's completion is on its way to the driver.
OnItsWay(q) ==
    \/ Coming(1)
    \/ \E i \in Irqers :
          Carries(i, 1) \/ ipc[i] = "vring" \/ (ipc[i] = "callback" /\ q \in todo[i])

Seen ==
    ~killed =>
        /\ \A q \in used : OnItsWay(q)
        /\ cfg => Coming(2) \/ \E i \in Irqers : Carries(i, 2)

\* What the adapter answers to a read of the status has the bits of the status.
LEMMA StatusWord ==
    ASSUME NEW S \in SUBSET Bits, NEW b \in S
    PROVE  InWord(b, AsWord(S))
BY DEF Bits, InWord, AsWord

\* A request is told by its register.
LEMMA Requested ==
    /\ Read(0).fn = 0 /\ Read(IntStatus).fn = IntStatus
    /\ \A w \in Words : WriteTo(IntAck, w).fn = IntAck /\ WriteTo(IntAck, w).data = w
    /\ TypeOK => \A i \in Irqers : status[i] \in Words
BY DEF Read, WriteTo, TypeOK

\* A step that leaves what is on its way on its way keeps everything seen.
LEMMA SeenKept ==
    ASSUME Seen, killed' = killed, used' \subseteq used, cfg' => cfg,
           \A b \in Bits : Coming(b) => Coming(b)' \/ \E i \in Irqers : Carries(i, b)',
           \A i \in Irqers, b \in Bits : Carries(i, b) => Carries(i, b)',
           \A i \in Irqers : ipc[i] = "vring" => ipc'[i] = "vring",
           \A i \in Irqers : ipc[i] = "callback" => ipc'[i] = "callback" /\ todo'[i] = todo[i]
    PROVE  Seen'
BY DEF Seen, OnItsWay, Bits

LEMMA SeenInit == Init => Seen
BY DEF Init, Seen

LEMMA SeenNext ==
    ASSUME TypeOK, Locks, Calls, Seen, [Next]_vars
    PROVE  Seen'
<1> USE Constants DEF cvars, device, intr, Goto, Call, CReturn, CTake, CServe, CAnswer
<1>1. ASSUME NEW i \in Irqers, NEW q \in Queues, Complete(i, q)
      PROVE  Seen'
  BY <1>1 DEF Complete, TypeOK, CTypeOK, Seen, OnItsWay, Coming, Carries, InKernel
<1>2. ASSUME NEW i \in Irqers, ChangeConfig(i)
      PROVE  Seen'
  BY <1>2 DEF ChangeConfig, TypeOK, CTypeOK, Seen, OnItsWay, Coming, Carries, InKernel
<1>3. ASSUME NEW i \in Irqers, Ioctl(i)
      PROVE  Seen'
  BY <1>3 DEF Ioctl, TypeOK, CTypeOK, Seen, OnItsWay, Coming, Carries, InKernel
<1>4. ASSUME NEW i \in Irqers, LockInterrupt(i)
      PROVE  Seen'
  BY <1>4 DEF LockInterrupt, TypeOK, CTypeOK, Seen, OnItsWay, Coming, Carries, InKernel
<1>5. ASSUME NEW i \in Irqers, AskStatus(i)
      PROVE  Seen'
  BY <1>5 DEF AskStatus, TypeOK, CTypeOK, Seen, OnItsWay, Coming, Carries, InKernel
<1>6. ASSUME NEW i \in Irqers, GetStatus(i)
      PROVE  Seen'
  <2> SUFFICES ASSUME ~killed PROVE Seen'
    BY <1>6 DEF GetStatus, Seen
  <2>1. /\ ipc[i] = "statusWait" /\ st[i] = "answered"
        /\ ipc' = [ipc EXCEPT ![i] = "ack"] /\ status' = [status EXCEPT ![i] = word[i]]
        /\ st' = [st EXCEPT ![i] = "idle"] /\ word' = [word EXCEPT ![i] = 0]
        /\ UNCHANGED <<isr, used, cfg, todo, killed>>
    BY <1>6 DEF GetStatus, Calls
  <2>3. \A b \in Bits : Coming(b) => Coming(b)'
    BY <2>1 DEF TypeOK, CTypeOK, Coming
  <2>4. \A j \in Irqers, b \in Bits : Carries(j, b) => Carries(j, b)'
    BY <2>1 DEF TypeOK, CTypeOK, Carries
  <2>5. \A j \in Irqers : ipc[j] \in {"vring", "callback"} => ipc'[j] = ipc[j]
    BY <2>1 DEF TypeOK
  <2> QED
    BY <2>1, <2>3, <2>4, <2>5, SeenKept
<1>7. ASSUME NEW i \in Irqers, Ack(i)
      PROVE  Seen'
  BY <1>7 DEF Ack, TypeOK, CTypeOK, Seen, OnItsWay, Coming, Carries, InKernel
<1>8. ASSUME NEW i \in Irqers, Acked(i)
      PROVE  Seen'
  BY <1>8 DEF Acked, TypeOK, CTypeOK, Seen, OnItsWay, Coming, Carries, InKernel
<1>9. ASSUME NEW i \in Irqers, ConfigChanged(i)
      PROVE  Seen'
  BY <1>9 DEF ConfigChanged, TypeOK, CTypeOK, Seen, OnItsWay, Coming, Carries, InKernel
<1>10. ASSUME NEW i \in Irqers, LockQueues(i)
      PROVE  Seen'
  <2>1. /\ ipc[i] = "vring" /\ ipc' = [ipc EXCEPT ![i] = "callback"]
        /\ todo' = [todo EXCEPT ![i] = vqs]
        /\ UNCHANGED <<isr, used, cfg, st, word, status, killed>>
    BY <1>10 DEF LockQueues
  <2>2. \A q \in used : OnItsWay(q)'
    BY <2>1 DEF TypeOK, Locks, OnItsWay
  <2>3. \A b \in Bits : Coming(b) => Coming(b)'
    BY <2>1 DEF TypeOK, Coming
  <2>4. \A j \in Irqers, b \in Bits : Carries(j, b) => Carries(j, b)'
    BY <2>1 DEF TypeOK, Carries
  <2> QED
    BY <2>1, <2>2, <2>3, <2>4 DEF Seen, Bits
<1>11. ASSUME NEW i \in Irqers, Callback(i)
      PROVE  Seen'
  BY <1>11 DEF Callback, TypeOK, CTypeOK, Seen, OnItsWay, Coming, Carries, InKernel
<1>12. ASSUME NEW i \in Irqers, UnlockQueues(i)
      PROVE  Seen'
  BY <1>12 DEF UnlockQueues, TypeOK, CTypeOK, Seen, OnItsWay, Coming, Carries, InKernel
<1>13. ASSUME NEW i \in Irqers, UnlockInterrupt(i)
      PROVE  Seen'
  BY <1>13 DEF UnlockInterrupt, TypeOK, CTypeOK, Seen, OnItsWay, Coming, Carries, InKernel
<1>14. ASSUME NEW d \in Drivers, Use(d)
      PROVE  Seen'
  BY <1>14 DEF Use, TypeOK, CTypeOK, Seen, OnItsWay, Coming, Carries, InKernel
<1>15. ASSUME NEW d \in Drivers, Used(d)
      PROVE  Seen'
  BY <1>15 DEF Used, TypeOK, CTypeOK, Seen, OnItsWay, Coming, Carries, InKernel
<1>16. ASSUME NEW q \in Queues, AddVq(q)
      PROVE  Seen'
  BY <1>16 DEF AddVq, TypeOK, CTypeOK, Seen, OnItsWay, Coming, Carries, InKernel
<1>17. ASSUME NEW q \in Queues, DelVq(q)
      PROVE  Seen'
  BY <1>17 DEF DelVq, TypeOK, CTypeOK, Seen, OnItsWay, Coming, Carries, InKernel
<1>18. ASSUME NEW t \in Threads, Taken(t)
      PROVE  Seen'
  BY <1>18 DEF Taken, TypeOK, CTypeOK, Seen, OnItsWay, Coming, Carries, InKernel
<1>19. ASSUME NEW t \in Threads, ServedStatus(t)
      PROVE  Seen'
  <2>1. t \in Irqers /\ ipc[t] = "statusWait" /\ st[t] = "taken"
    <3>1. Inside(t) /\ st[t] = "taken" /\ handled = asked[t] /\ asked[t].fn = IntStatus
      BY <1>19 DEF ServedStatus, ServeStatus, Calls
    <3> QED
      BY <3>1, Requested DEF Inside
  <2>2. /\ st' = [st EXCEPT ![t] = "served"] /\ word' = [word EXCEPT ![t] = AsWord(isr)]
        /\ UNCHANGED <<isr, used, cfg, ipc, status, todo, killed>>
    BY <1>19 DEF ServedStatus, ServeStatus
  <2>3. \A b \in Bits : Coming(b) => Carries(t, b)'
    BY <2>1, <2>2, StatusWord DEF TypeOK, CTypeOK, Coming, Carries
  <2>4. \A i \in Irqers, b \in Bits : Carries(i, b) => Carries(i, b)'
    BY <2>1, <2>2 DEF TypeOK, CTypeOK, Carries
  <2> QED
    BY <2>1, <2>2, <2>3, <2>4, SeenKept
<1>20. ASSUME NEW t \in Threads, ServedAck(t)
      PROVE  Seen'
  <2>1. /\ t \in Irqers /\ ipc[t] = "ackWait" /\ st[t] = "taken"
        /\ handled.data = status[t]
    <3>1. Inside(t) /\ st[t] = "taken" /\ handled = asked[t] /\ asked[t].fn = IntAck
      BY <1>20 DEF ServedAck, ServeAck, Calls
    <3> QED
      BY <3>1, Requested DEF Inside
  <2>2. /\ st' = [st EXCEPT ![t] = "served"] /\ word' = [word EXCEPT ![t] = word[t]]
        /\ isr' = {b \in isr : ~InWord(b, status[t])}
        /\ UNCHANGED <<used, cfg, ipc, status, todo, killed>>
    BY <1>20, <2>1 DEF ServedAck, ServeAck
  <2>3. \A b \in Bits : Coming(b) => Coming(b)' \/ Carries(t, b)'
    BY <2>1, <2>2 DEF TypeOK, CTypeOK, Coming, Carries
  <2>4. \A i \in Irqers, b \in Bits : Carries(i, b) => Carries(i, b)'
    BY <2>1, <2>2 DEF TypeOK, CTypeOK, Carries
  <2> QED
    BY <2>1, <2>2, <2>3, <2>4, SeenKept
<1>21. ASSUME NEW t \in Threads, ServedOther(t)
      PROVE  Seen'
  <2>1. t \notin Irqers
    <3>1. Inside(t) /\ asked[t].fn \notin {IntStatus, IntAck}
      BY <1>21 DEF ServedOther, ServeOther, Calls
    <3> QED
      BY <3>1, Requested DEF Inside
  <2>2. /\ \A i \in Irqers : st'[i] = st[i] /\ word'[i] = word[i]
        /\ UNCHANGED <<isr, used, cfg, ipc, status, todo, killed>>
    BY <1>21, <2>1 DEF ServedOther, ServeOther, TypeOK, CTypeOK
  <2>3. \A b \in Bits : Coming(b) => Coming(b)'
    BY <2>2 DEF Coming
  <2>4. \A i \in Irqers, b \in Bits : Carries(i, b) => Carries(i, b)'
    BY <2>2 DEF Carries
  <2> QED
    BY <2>2, <2>3, <2>4, SeenKept
<1>22. ASSUME NEW t \in Threads, AnsweredTo(t)
      PROVE  Seen'
  BY <1>22 DEF AnsweredTo, TypeOK, CTypeOK, Seen, OnItsWay, Coming, Carries, InKernel
<1>23. CASE Start
  BY <1>23 DEF Start, Arrive, TypeOK, CTypeOK, Seen, OnItsWay, Coming, Carries, InKernel
<1>24. CASE Kill
  BY <1>24 DEF Kill, TypeOK, CTypeOK, Seen, OnItsWay, Coming, Carries, InKernel
<1>25. CASE Release
  BY <1>25 DEF Release, Depart, TypeOK, CTypeOK, Seen, OnItsWay, Coming, Carries, InKernel
<1>26. CASE ReleaseFinish
  BY <1>26 DEF ReleaseFinish, Disappear, TypeOK, CTypeOK, Seen, OnItsWay, Coming, Carries,
     InKernel
<1>27. CASE UNCHANGED vars
  BY <1>27 DEF vars, TypeOK, CTypeOK, Seen, OnItsWay, Coming, Carries, InKernel
<1> QED
  BY <1>1, <1>2, <1>3, <1>4, <1>5, <1>6, <1>7, <1>8, <1>9, <1>10, <1>11, <1>12, <1>13,
     <1>14, <1>15, <1>16, <1>17, <1>18, <1>19, <1>20, <1>21, <1>22, <1>23, <1>24, <1>25,
     <1>26, <1>27 DEF Next, Interrupt, Serve, Taken, ServedStatus, ServedAck, ServedOther,
     AnsweredTo

\* When every thread of the adapter is back from the ioctl, the driver has seen
\* every completion and every change, for any number of interrupting threads.
THEOREM NothingIsMissed == Spec => []NothingMissed
<1>1. Seen => NothingMissed
  BY DEF Seen, NothingMissed, OnItsWay, Coming, Carries
<1> QED
  BY <1>1, TypeInit, LocksInit, CallsInit, SeenInit, TypeNext, LocksNext, CallsNext,
     SeenNext,
     PTL DEF Spec
=============================================================================
