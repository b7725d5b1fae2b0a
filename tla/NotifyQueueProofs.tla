-------------------------- MODULE NotifyQueueProofs --------------------------
(***************************************************************************)
(* Proofs about NotifyQueue for any driver threads, queues and number of   *)
(* notifications.                                                          *)
(***************************************************************************)
EXTENDS NotifyQueue, SequenceTheorems, TLAPS

\* notify_q_lock is the worker's exactly between its lock and its unlock, and
\* what the worker found out about the list under the lock is still so when it
\* takes the first element.
Locked ==
    /\ qlock = Worker <=> wpc \in {"check", "take", "oops"}
    /\ wpc = "take" => ~Valid \/ notify_list # <<>>
    /\ wpc = "oops" => ~Valid

LEMMA LockedInit == Init => Locked
BY NotifyAssumption DEF Init, Locked

LEMMA LockedNext == Locked /\ [Next]_vars => Locked'
<1> SUFFICES ASSUME Locked, [Next]_vars
             PROVE  Locked'
  OBVIOUS
<1> USE NotifyAssumption DEF Locked, Valid, cvars, dvars, wvars, others
<1>1. ASSUME NEW d \in Drivers, NEW q \in Queues, Notify(d, q)
      PROVE  Locked'
  BY <1>1 DEF Notify
<1>2. ASSUME NEW d \in Drivers, Enqueue(d)
      PROVE  Locked'
  BY <1>2 DEF Enqueue
<1>3. ASSUME NEW d \in Drivers, Wake(d)
      PROVE  Locked'
  BY <1>3 DEF Wake
<1>4. CASE StartWorker
  BY <1>4 DEF StartWorker
<1>5. CASE Lock
  BY <1>5 DEF Lock
<1>6. CASE GoToSleep
  BY <1>6 DEF GoToSleep
<1>7. CASE Go
  BY <1>7 DEF Go
<1>8. CASE Doze
  BY <1>8 DEF Doze
<1>9. CASE Timeout
  BY <1>9 DEF Timeout
<1>10. CASE TakeFirst
  BY <1>10 DEF TakeFirst
<1>11. CASE TakeEmpty
  BY <1>11 DEF TakeEmpty
<1>12. CASE Write
  BY <1>12 DEF Write, Call
<1>13. CASE Written
  BY <1>13 DEF Written, CReturn
<1>14. CASE Back
  BY <1>14 DEF Back
<1>15. CASE AdapterServes
  BY <1>15 DEF AdapterServes, CTake, CServe, CAnswer
<1>16. CASE AdapterLives
  BY <1>16 DEF AdapterLives, Arrive, Depart, Disappear
<1>17. CASE UNCHANGED vars
  BY <1>17 DEF vars
<1> QED
  BY <1>1, <1>2, <1>3, <1>4, <1>5, <1>6, <1>7, <1>8, <1>9, <1>10, <1>11, <1>12,
     <1>13, <1>14, <1>15, <1>16, <1>17 DEF Next, WorkerStep

\* The worker takes from an empty list only after the adapter has closed the
\* device.
THEOREM EmptyTake == Spec => []EmptyTakeOnlyAfterClose
<1>1. Locked => EmptyTakeOnlyAfterClose
  BY DEF Locked, EmptyTakeOnlyAfterClose
<1> QED
  BY <1>1, LockedInit, LockedNext, PTL DEF Spec

-----------------------------------------------------------------------------
(* Types.                                                                  *)

LEMMA IndexTypes ==
    /\ Queues \subseteq Words
    /\ \A q \in Queues : Notification(q) \in Requests
    /\ Requests \subseteq Request
BY NotifyAssumption DEF Notification, Requests, Request

\* The type invariant less the terms the action does not change.
LEMMA TypeInit == Init => TypeOK
BY NotifyAssumption
   DEF Init, CInit, TypeOK, CTypeOK, WorkerPcs, Blank, Request, Requests

LEMMA DriverType ==
    ASSUME TypeOK, NEW d \in Drivers,
           (\E q \in Queues : Notify(d, q)) \/ Enqueue(d) \/ Wake(d)
    PROVE  TypeOK'
<1> USE NotifyAssumption DEF TypeOK, CTypeOK, cvars, wvars, history, WorkerPcs
<1>1. ASSUME NEW q \in Queues, Notify(d, q)
      PROVE  TypeOK'
  BY <1>1 DEF Notify
<1>2. CASE Enqueue(d)
  <2>1. arg[d] \in Queues /\ arg[d] \in Words
    BY IndexTypes
  <2>2. notify_list' \in Seq(Queues) /\ posted' \in Seq(Words)
    BY <1>2, <2>1, AppendProperties DEF Enqueue
  <2> QED
    BY <1>2, <2>2 DEF Enqueue
<1>3. CASE Wake(d)
  BY <1>3 DEF Wake
<1> QED
  BY <1>1, <1>2, <1>3

LEMMA WorkerType ==
    ASSUME TypeOK, StartWorker \/ WorkerStep
    PROVE  TypeOK'
<1> USE NotifyAssumption DEF TypeOK, CTypeOK, cvars, dvars, history, WorkerPcs
<1>1. CASE StartWorker
  BY <1>1 DEF StartWorker
<1>2. CASE Lock
  BY <1>2 DEF Lock
<1>3. CASE GoToSleep
  BY <1>3 DEF GoToSleep
<1>4. CASE Go
  BY <1>4 DEF Go
<1>5. CASE Doze
  BY <1>5 DEF Doze
<1>6. CASE Timeout
  BY <1>6 DEF Timeout
<1>7. CASE TakeFirst
  BY <1>7, HeadTailProperties DEF TakeFirst
<1>8. CASE TakeEmpty
  BY <1>8 DEF TakeEmpty
<1>9. CASE Write
  BY <1>9, IndexTypes DEF Write, Call, Notification
<1>10. CASE Written
  <2>1. unserved' \in Seq(Words)
    BY <1>10, IndexTypes, AppendProperties DEF Written
  <2> QED
    BY <1>10, <2>1 DEF Written, CReturn
<1>11. CASE Back
  BY <1>11 DEF Back
<1> QED
  BY <1>1, <1>2, <1>3, <1>4, <1>5, <1>6, <1>7, <1>8, <1>9, <1>10, <1>11 DEF WorkerStep

LEMMA AdapterType ==
    ASSUME TypeOK, AdapterServes \/ AdapterLives
    PROVE  TypeOK'
<1> USE NotifyAssumption DEF TypeOK, CTypeOK, others, dvars, wvars, history
<1>1. CASE CTake(Worker) /\ UNCHANGED <<others, history>>
  BY <1>1, IndexTypes DEF CTake
<1>2. ASSUME NEW w \in Words, CServe(Worker, w), UNCHANGED <<others, history>>
      PROVE  TypeOK'
  BY <1>2 DEF CServe
<1>3. CASE /\ CAnswer(Worker)
           /\ kicked' = Append(kicked, handled.data)
           /\ UNCHANGED <<others, posted, unserved>>
  <2>1. kicked' \in Seq(Words)
    BY <1>3, AppendProperties DEF Request
  <2> QED
    BY <1>3, <2>1 DEF CAnswer
<1>4. CASE AdapterLives
  BY <1>4 DEF AdapterLives, Arrive, Depart, Disappear
<1> QED
  BY <1>1, <1>2, <1>3, <1>4 DEF AdapterServes

\* Every variable keeps its type.
THEOREM NotifyTypes == Spec => []TypeOK
<1>1. TypeOK /\ [Next]_vars => TypeOK'
  <2>1. TypeOK /\ UNCHANGED vars => TypeOK'
    BY DEF TypeOK, CTypeOK, vars, cvars, dvars, wvars, history
  <2> QED
    BY <2>1, DriverType, WorkerType, AdapterType DEF Next
<1> QED
  BY <1>1, TypeInit, PTL DEF Spec

-----------------------------------------------------------------------------
(* The order of notifications.                                             *)

\* What the call in progress is about, and when a write may go unanswered.
InCall ==
    /\ st[Worker] # "idle" <=> wpc = "call"
    /\ wpc = "call" => asked[Worker] = Notification(cur)
    /\ st[Worker] \in {"taken", "served"} => handled = asked[Worker] /\ adapter = "serving"
    /\ unserved # <<>> => adapter = "gone"

LEMMA OrderedInit == Init => InCall /\ Fifo
<1> SUFFICES ASSUME Init
             PROVE  InCall /\ Fifo
  OBVIOUS
<1>1. InCall
  BY NotifyAssumption DEF Init, CInit, InCall
<1>2. InHand = <<>>
  BY DEF Init, InHand
<1> QED
  BY <1>1, <1>2, ConcatEmptySeq, EmptySeq DEF Init, Fifo

LEMMA InCallNext == TypeOK /\ InCall /\ [Next]_vars => InCall'
<1> SUFFICES ASSUME TypeOK, InCall, [Next]_vars
             PROVE  InCall'
  OBVIOUS
<1> USE NotifyAssumption DEF TypeOK, CTypeOK, InCall, cvars, dvars, wvars, history, others
<1>1. ASSUME NEW d \in Drivers, (\E q \in Queues : Notify(d, q)) \/ Enqueue(d) \/ Wake(d)
      PROVE  InCall'
  BY <1>1 DEF Notify, Enqueue, Wake
<1>2. CASE StartWorker \/ Lock \/ GoToSleep \/ Go \/ Doze \/ Timeout
  BY <1>2 DEF StartWorker, Lock, GoToSleep, Go, Doze, Timeout
<1>3. CASE TakeFirst \/ TakeEmpty \/ Back
  BY <1>3 DEF TakeFirst, TakeEmpty, Back
<1>4. CASE Write
  BY <1>4 DEF Write, Call
<1>5. CASE Written
  BY <1>5 DEF Written, CReturn
<1>6. CASE AdapterServes
  BY <1>6 DEF AdapterServes, CTake, CServe, CAnswer
<1>7. CASE AdapterLives
  BY <1>7 DEF AdapterLives, Arrive, Depart, Disappear
<1>8. CASE UNCHANGED vars
  BY <1>8 DEF vars
<1> QED
  BY <1>1, <1>2, <1>3, <1>4, <1>5, <1>6, <1>7, <1>8 DEF Next, WorkerStep

\* The head of a sequence moved to the end of the one before it.
LEMMA HeadMoves ==
    ASSUME NEW S, NEW a \in Seq(S), NEW n \in Seq(S), n # <<>>
    PROVE  (a \o <<>>) \o n = (a \o <<Head(n)>>) \o Tail(n)
<1>1. Head(n) \in S /\ Tail(n) \in Seq(S) /\ <<Head(n)>> \in Seq(S)
  BY HeadTailProperties
<1>2. n = <<Head(n)>> \o Tail(n)
  <2>1. Len(n) \in Nat \ {0} /\ 1 \in 1..Len(n) /\ Len(n) \in 1..Len(n)
    BY EmptySeq, LenProperties
  <2>2. n = SubSeq(n, 1, Len(n)) /\ Tail(n) = SubSeq(n, 2, Len(n)) /\ Head(n) = n[1]
    BY SubSeqFull, TailIsSubSeq
  <2>3. SubSeq(n, 1, Len(n)) = <<n[1]>> \o SubSeq(n, 2, Len(n))
    BY <2>1, SubSeqRecursiveFirst, 1 + 1 = 2
  <2> QED
    BY <2>2, <2>3
<1>3. (a \o <<Head(n)>>) \o Tail(n) = a \o (<<Head(n)>> \o Tail(n))
  BY <1>1, ConcatAssociative
<1> QED
  BY <1>2, <1>3, ConcatEmptySeq

\* An element appended to the last of the four sequences of Fifo.
LEMMA AppendToLast ==
    ASSUME NEW S, NEW a \in Seq(S), NEW n \in Seq(S), NEW x \in S
    PROVE  a \o Append(n, x) = Append(a \o n, x)
<1>1. <<x>> \in Seq(S) /\ a \o n \in Seq(S)
  BY ConcatProperties
<1>2. Append(n, x) = n \o <<x>> /\ Append(a \o n, x) = (a \o n) \o <<x>>
  BY <1>1, AppendIsConcat
<1> QED
  BY <1>1, <1>2, ConcatAssociative

LEMMA FifoNext == TypeOK /\ InCall /\ Fifo /\ [Next]_vars => Fifo'
<1> SUFFICES ASSUME TypeOK, InCall, Fifo, [Next]_vars
             PROVE  Fifo'
  OBVIOUS
<1> DEFINE told == kicked \o unserved
<1>1. /\ posted \in Seq(Words) /\ kicked \in Seq(Words) /\ unserved \in Seq(Words)
      /\ notify_list \in Seq(Words) /\ InHand \in Seq(Words) /\ <<cur>> \in Seq(Words)
      /\ cur \in Words /\ told \in Seq(Words) /\ told \o InHand \in Seq(Words)
  <2>1. notify_list \in Seq(Words) /\ cur \in Words
    BY IndexTypes, SeqMonotonic DEF TypeOK
  <2>2. InHand \in Seq(Words)
    BY <2>1 DEF InHand
  <2> QED
    BY <2>1, <2>2, ConcatProperties DEF TypeOK
<1>2. posted = (told \o InHand) \o notify_list
  BY DEF Fifo
<1>3. \* A step that moves none of the indices.
      ASSUME UNCHANGED <<posted, kicked, unserved, notify_list>>, InHand' = InHand
      PROVE  Fifo'
  BY <1>3 DEF Fifo
<1> USE NotifyAssumption DEF cvars, dvars, wvars, history, others
<1>4. ASSUME NEW d \in Drivers, Enqueue(d)
      PROVE  Fifo'
  <2>1. arg[d] \in Words
    BY IndexTypes DEF TypeOK
  <2>2. InHand' = InHand
    BY <1>4 DEF Enqueue, InHand
  <2>3. posted' = (told \o InHand) \o notify_list'
    <3>1. (told \o InHand) \o Append(notify_list, arg[d])
             = Append((told \o InHand) \o notify_list, arg[d])
      BY <1>1, <2>1, AppendToLast, SMTT(40)
    <3> QED
      BY <1>2, <1>4, <3>1 DEF Enqueue
  <2> QED
    BY <1>4, <2>2, <2>3 DEF Enqueue, Fifo
<1>5. ASSUME NEW d \in Drivers, (\E q \in Queues : Notify(d, q)) \/ Wake(d)
      PROVE  Fifo'
  <2>1. InHand' = InHand
    BY <1>5 DEF Notify, Wake, InHand
  <2> QED
    BY <1>3, <1>5, <2>1 DEF Notify, Wake
<1>6. CASE StartWorker \/ Lock \/ GoToSleep \/ Go \/ Doze \/ Timeout \/ TakeEmpty \/ Back
  <2>1. InHand' = InHand
    BY <1>6 DEF StartWorker, Lock, GoToSleep, Go, Doze, Timeout, TakeEmpty, Back, InHand
  <2> QED
    BY <1>3, <1>6, <2>1 DEF StartWorker, Lock, GoToSleep, Go, Doze, Timeout, TakeEmpty, Back
<1>7. CASE TakeFirst
  <2>1. InHand = <<>> /\ InHand' = <<Head(notify_list)>>
    BY <1>7 DEF TakeFirst, InHand
  <2>2. (told \o <<>>) \o notify_list = (told \o <<Head(notify_list)>>) \o Tail(notify_list)
    BY <1>1, <1>7, HeadMoves DEF TakeFirst
  <2> QED
    BY <1>2, <1>7, <2>1, <2>2 DEF TakeFirst, Fifo
<1>8. CASE Write
  <2>1. InHand' = InHand
    BY <1>8 DEF Write, Call, InHand, TypeOK, CTypeOK
  <2> QED
    BY <1>3, <1>8, <2>1 DEF Write
<1>9. CASE Written
  <2>1. CASE st[Worker] = "answered"
    <3>1. InHand' = InHand
      BY <1>9, <2>1 DEF Written, InHand
    <3> QED
      BY <1>3, <1>9, <2>1, <3>1 DEF Written
  <2>2. CASE st[Worker] # "answered"
    <3>1. InHand = <<cur>> /\ InHand' = <<>> /\ unserved' = unserved \o <<cur>>
      BY <1>1, <1>9, <2>2, AppendIsConcat DEF Written, InHand
    <3>2. (kicked \o unserved') \o InHand' = told \o <<cur>>
      <4>1. kicked \o (unserved \o <<cur>>) = told \o <<cur>>
        BY <1>1, ConcatAssociative
      <4>2. told \o <<cur>> \in Seq(Words)
        BY <1>1, <3>1
      <4> QED
        BY <3>1, <4>1, <4>2, ConcatEmptySeq
    <3> QED
      BY <1>2, <1>9, <3>1, <3>2 DEF Written, Fifo
  <2> QED
    BY <2>1, <2>2
<1>10. CASE AdapterServes
  <2>1. ASSUME (CTake(Worker) \/ \E w \in Words : CServe(Worker, w)),
               UNCHANGED <<others, history>>
        PROVE  Fifo'
    <3>1. InHand' = InHand
      BY <2>1 DEF CTake, CServe, InHand, TypeOK, CTypeOK
    <3> QED
      BY <1>3, <2>1, <3>1
  <2>2. ASSUME CAnswer(Worker), kicked' = Append(kicked, handled.data),
               UNCHANGED <<others, posted, unserved>>
        PROVE  Fifo'
    <3>1. wpc = "call" /\ handled.data = cur /\ unserved = <<>>
      BY <2>2 DEF CAnswer, InCall, Notification
    <3>2. InHand = <<cur>> /\ InHand' = <<>>
      BY <2>2, <3>1 DEF CAnswer, InHand, TypeOK, CTypeOK
    <3>3. kicked' = kicked \o <<cur>> /\ kicked' \in Seq(Words)
      BY <1>1, <2>2, <3>1, AppendIsConcat, AppendProperties
    <3>4. (kicked' \o unserved') \o InHand' = kicked'
      BY <2>2, <3>1, <3>2, <3>3, ConcatEmptySeq
    <3>5. told \o InHand = kicked \o <<cur>>
      BY <1>1, <3>1, <3>2, ConcatEmptySeq
    <3> QED
      BY <1>2, <2>2, <3>3, <3>4, <3>5 DEF Fifo
  <2> QED
    BY <1>10, <2>1, <2>2 DEF AdapterServes
<1>11. CASE AdapterLives
  <2>1. InHand' = InHand
    BY <1>11 DEF AdapterLives, Arrive, Depart, Disappear, InHand, TypeOK, CTypeOK
  <2> QED
    BY <1>3, <1>11, <2>1 DEF AdapterLives
<1>12. CASE UNCHANGED vars
  <2>1. InHand' = InHand
    BY <1>12 DEF vars, InHand
  <2> QED
    BY <1>3, <1>12, <2>1 DEF vars
<1> QED
  BY <1>4, <1>5, <1>6, <1>7, <1>8, <1>9, <1>10, <1>11, <1>12 DEF Next, WorkerStep

\* No notification is lost, doubled or overtaken between vm_notify and the
\* adapter.
THEOREM FifoOrder == Spec => []Fifo
<1>1. Init => InCall /\ Fifo
  BY OrderedInit
<1>2. TypeOK /\ InCall /\ Fifo /\ [Next]_vars => (InCall /\ Fifo)'
  BY InCallNext, FifoNext
<1> QED
  BY <1>1, <1>2, NotifyTypes, PTL DEF Spec

-----------------------------------------------------------------------------
(* The end of the worker.                                                  *)

\* A write that returned unanswered was the worker's last.
Last ==
    unserved # <<>> => Len(unserved) = 1 /\ wpc \in {"back", "end"}

LEMMA LastNext == TypeOK /\ InCall /\ Last /\ [Next]_vars => Last'
<1> SUFFICES ASSUME TypeOK, InCall, Last, [Next]_vars
             PROVE  Last'
  OBVIOUS
<1> USE NotifyAssumption DEF Last, cvars, dvars, wvars, history, others
<1>1. ASSUME NEW d \in Drivers, (\E q \in Queues : Notify(d, q)) \/ Enqueue(d) \/ Wake(d)
      PROVE  Last'
  BY <1>1 DEF Notify, Enqueue, Wake
<1>2. CASE StartWorker \/ Lock \/ GoToSleep \/ Go \/ Doze \/ Timeout
  BY <1>2 DEF StartWorker, Lock, GoToSleep, Go, Doze, Timeout
<1>3. CASE TakeFirst \/ TakeEmpty \/ Write
  BY <1>3 DEF TakeFirst, TakeEmpty, Write
<1>4. CASE Written
  <2>1. unserved = <<>>
    BY <1>4 DEF Written
  <2>2. Len(Append(<<>>, cur)) = 1
    OBVIOUS
  <2> QED
    BY <1>4, <2>1, <2>2 DEF Written
<1>5. CASE Back
  BY <1>5 DEF Back, InCall, Valid
<1>6. CASE AdapterServes
  BY <1>6 DEF AdapterServes
<1>7. CASE AdapterLives
  BY <1>7 DEF AdapterLives
<1>8. CASE UNCHANGED vars
  BY <1>8 DEF vars
<1> QED
  BY <1>1, <1>2, <1>3, <1>4, <1>5, <1>6, <1>7, <1>8 DEF Next, WorkerStep

\* Once the adapter is gone the worker makes at most one more write.
THEOREM WorkerStops == Spec => []StopsAfterClose
<1>1. Init => InCall /\ Last
  BY OrderedInit DEF Init, Last
<1>2. TypeOK /\ InCall /\ Last /\ [Next]_vars => (InCall /\ Last)'
  BY InCallNext, LastNext
<1>3. Last => StopsAfterClose
  <2>1. Len(<<>>) = 0
    OBVIOUS
  <2> QED
    BY <2>1 DEF Last, StopsAfterClose
<1> QED
  BY <1>1, <1>2, <1>3, NotifyTypes, PTL DEF Spec
=============================================================================
