------------------------ MODULE AdapterChannelProofs ------------------------
(***************************************************************************)
(* Proofs about AdapterChannel for any set of callers, registers, values   *)
(* and any number of opens.  FirstSession, the inductive invariant, speaks *)
(* of the first session of the device (opens <= 1): the second open breaks *)
(* it, as the run channel_second_adapter shows.                            *)
(***************************************************************************)
EXTENDS AdapterChannel, TLAPS

LEMMA RequestTypes == Requests \subseteq Request /\ Blank \in Requests
BY ChannelAssumption DEF Requests, Request, Blank

LEMMA InitType == Init => TypeOK
BY ChannelAssumption, RequestTypes, ZenonT(40)
   DEF Init, TypeOK, Pcs, Critical, AdapterPcs, Request, Requests, Blank

\* A step of a caller keeps every variable in its type.
LEMMA StepType ==
    ASSUME TypeOK, NEW t \in Threads, Step(t)
    PROVE  TypeOK'
<1> USE ChannelAssumption DEF TypeOK, Goto, Pcs, Critical, page, session
<1>1. CASE Block(t)
  BY <1>1 DEF Block
<1>2. CASE Acquire(t)
  BY <1>2 DEF Acquire
<1>3. CASE Store(t)
  BY <1>3, RequestTypes DEF Store
<1>4. CASE Arm(t)
  BY <1>4 DEF Arm
<1>5. CASE Signal(t)
  BY <1>5 DEF Signal
<1>6. CASE Wait(t)
  BY <1>6 DEF Wait
<1>7. CASE Timeout(t)
  BY <1>7 DEF Timeout
<1>8. CASE Leave(t)
  BY <1>8 DEF Leave
<1>9. CASE Collect(t)
  BY <1>9 DEF Collect, Request
<1>10. CASE Unlock(t)
  BY <1>10 DEF Unlock
<1> QED
  BY <1>1, <1>2, <1>3, <1>4, <1>5, <1>6, <1>7, <1>8, <1>9, <1>10 DEF Step

LEMMA NextType == TypeOK /\ [Next]_vars => TypeOK'
<1> SUFFICES ASSUME TypeOK, [Next]_vars
             PROVE  TypeOK'
  OBVIOUS
<1> USE ChannelAssumption, RequestTypes
    DEF TypeOK, AdapterGoto, AdapterPcs, page, session, calls
<1>1. ASSUME NEW t \in Threads, Step(t)
      PROVE  TypeOK'
  BY <1>1, StepType
<1>2. ASSUME NEW t \in Threads, NEW r \in Requests, Invoke(t, r)
      PROVE  TypeOK'
  BY <1>2 DEF Invoke, Goto, Pcs
<1>3. CASE Open
  BY <1>3 DEF Open, Pcs, Critical
<1>4. CASE EfdInit
  BY <1>4 DEF EfdInit
<1>5. CASE Start
  BY <1>5 DEF Start
<1>6. CASE Poll
  BY <1>6 DEF Poll
<1>7. CASE Take
  BY <1>7 DEF Take
<1>8. ASSUME NEW w \in Words, Reply(w)
      PROVE  TypeOK'
  BY <1>8 DEF Reply, Request
<1>9. CASE Wakeup
  BY <1>9 DEF Wakeup
<1>10. CASE Kick
  BY <1>10 DEF Kick, Pcs, Critical
<1>11. CASE Close
  BY <1>11 DEF Close
<1>12. CASE ReleaseFinish
  BY <1>12 DEF ReleaseFinish
<1>13. CASE UNCHANGED vars
  BY <1>13 DEF vars
<1> QED
  BY <1>1, <1>2, <1>3, <1>4, <1>5, <1>6, <1>7, <1>8, <1>9, <1>10, <1>11, <1>12, <1>13
     DEF Next, Serve

\* Every variable of the channel keeps its type, in every session.
THEOREM TypeCorrect == Spec => []TypeOK
<1>1. Init => TypeOK
  BY InitType
<1>2. TypeOK /\ [Next]_vars => TypeOK'
  BY NextType
<1> QED
  BY <1>1, <1>2, PTL DEF Spec

-----------------------------------------------------------------------------
(* The first session.                                                      *)

LEMMA InitFirst == Init => FirstSession
BY ChannelAssumption
   DEF Init, FirstSession, Owner, Session, OneToken, HoldersPage, InFlight, Critical

\* A caller's step: only the owner of the lock is past mutex_lock, so what the
\* step disturbs is the owner's part of the invariant.
LEMMA StepFirst ==
    ASSUME TypeOK, opens <= 1, FirstSession, NEW t \in Threads, Step(t)
    PROVE  FirstSession'
<1> USE ChannelAssumption DEF TypeOK, Goto, Critical, Waiting, page, session,
        FirstSession, Owner, Session, OneToken, HoldersPage, InFlight
<1>1. CASE Block(t)
  BY <1>1 DEF Block
<1>2. CASE Acquire(t)
  BY <1>2 DEF Acquire
<1>3. CASE Store(t)
  BY <1>3 DEF Store
<1>4. CASE Arm(t)
  BY <1>4 DEF Arm
<1>5. CASE Signal(t)
  BY <1>5 DEF Signal
<1>6. CASE Wait(t)
  BY <1>6 DEF Wait
<1>7. CASE Timeout(t)
  BY <1>7 DEF Timeout
<1>8. CASE Leave(t)
  BY <1>8 DEF Leave
<1>9. CASE Collect(t)
  BY <1>9 DEF Collect
<1>10. CASE Unlock(t)
  BY <1>10 DEF Unlock
<1> QED
  BY <1>1, <1>2, <1>3, <1>4, <1>5, <1>6, <1>7, <1>8, <1>9, <1>10 DEF Step

\* Any step that ends in the first session keeps its invariant.  The only open
\* that does is the first, when no caller has started.
LEMMA NextFirst ==
    ASSUME TypeOK, opens <= 1 => FirstSession, [Next]_vars, opens' <= 1
    PROVE  FirstSession'
<1> USE ChannelAssumption
    DEF TypeOK, AdapterGoto, AdapterPcs, Critical, Waiting, page, session, calls,
        FirstSession, Owner, Session, OneToken, HoldersPage, InFlight
<1>1. ASSUME NEW t \in Threads, Step(t)
      PROVE  FirstSession'
  <2>1. opens' = opens
    BY <1>1 DEF Step, Block, Acquire, Store, Arm, Signal, Wait, Timeout, Leave,
                Collect, Unlock
  <2> QED
    BY <1>1, <2>1, StepFirst
<1>2. ASSUME NEW t \in Threads, NEW r \in Requests, Invoke(t, r)
      PROVE  FirstSession'
  BY <1>2 DEF Invoke, Goto
<1>3. CASE Open
  BY <1>3 DEF Open
<1>4. CASE EfdInit
  BY <1>4 DEF EfdInit
<1>5. CASE Start
  BY <1>5 DEF Start
<1>6. CASE Poll
  BY <1>6 DEF Poll
<1>7. CASE Take
  BY <1>7 DEF Take
<1>8. ASSUME NEW w \in Words, Reply(w)
      PROVE  FirstSession'
  BY <1>8 DEF Reply
<1>9. CASE Wakeup
  BY <1>9 DEF Wakeup
<1>10. CASE Kick
  BY <1>10 DEF Kick
<1>11. CASE Close
  BY <1>11 DEF Close
<1>12. CASE ReleaseFinish
  BY <1>12 DEF ReleaseFinish
<1>13. CASE UNCHANGED vars
  BY <1>13 DEF vars
<1> QED
  BY <1>1, <1>2, <1>3, <1>4, <1>5, <1>6, <1>7, <1>8, <1>9, <1>10, <1>11, <1>12, <1>13
     DEF Next, Serve

\* The first-session invariant holds for as long as the session lasts.
THEOREM Inductive == Spec => []IInv
<1>1. Init => IInv
  BY InitType, InitFirst DEF IInv
<1>2. IInv /\ [Next]_vars => IInv'
  BY NextType, NextFirst DEF IInv
<1> QED
  BY <1>1, <1>2, PTL DEF Spec

\* Callers are inside read_write_lock one at a time, and the one inside owns it.
THEOREM Exclusive == Spec => []OneTransaction
<1>1. IInv => OneTransaction
  BY DEF IInv, FirstSession, Owner, OneTransaction
<1> QED
  BY <1>1, Inductive, PTL

\* The adapter works only on the request its waiting caller posted.
THEOREM Serves == Spec => []ServesItsCaller
<1>1. IInv => ServesItsCaller
  BY DEF IInv, FirstSession, OneToken, InFlight, ServesItsCaller
<1> QED
  BY <1>1, Inductive, PTL
-----------------------------------------------------------------------------
(* A device that is opened at most once.                                   *)

Once == IInv /\ opens <= 1

LEMMA AlwaysOnce ==
    ASSUME MaxOpens <= 1
    PROVE  Spec => []Once
<1> DEFINE Bounded == opens <= MaxOpens
<1>1. Init => Bounded
  BY ChannelAssumption DEF Init
<1>2. TypeOK /\ Bounded /\ [Next]_vars => Bounded'
  BY ChannelAssumption
     DEF TypeOK, Next, Serve, Step, Block, Acquire, Store, Arm, Signal, Wait, Timeout,
         Leave, Collect, Unlock, Invoke, Open, EfdInit, Start, Poll, Take, Reply,
         Wakeup, Kick, Close, ReleaseFinish, page, session, calls, vars
<1>3. IInv /\ Bounded => Once
  BY ChannelAssumption DEF IInv, TypeOK, Once
<1> QED
  BY <1>1, <1>2, <1>3, TypeCorrect, Inductive, PTL DEF Spec

\* With one adapter, no caller goes on without an answer before the adapter has
\* closed the device.
THEOREM Waits ==
    ASSUME MaxOpens <= 1
    PROVE  Spec => WaitsForAdapter
<1> DEFINE Patient == \A t \in Threads :
              pc[t] \in Waiting /\ pc'[t] = "collect" => done = 1 \/ ~inUse
<1>1. Once /\ [Next]_vars => [Patient]_vars
  <2> SUFFICES ASSUME Once, Next, NEW t \in Threads,
                      pc[t] \in Waiting, pc'[t] = "collect"
               PROVE  done = 1 \/ ~inUse
    BY DEF vars
  <2>1. Leave(t)
    BY DEF Once, IInv, TypeOK, Waiting, Next, Serve, Step, Block, Acquire, Store, Arm,
           Signal, Wait, Timeout, Collect, Unlock, Invoke, Open, EfdInit, Start, Poll,
           Take, Reply, Wakeup, Kick, Close, ReleaseFinish, Goto, calls, Leave
  <2> QED
    BY <2>1 DEF Leave, Once, IInv, FirstSession, Session
<1> QED
  BY <1>1, AlwaysOnce, PTL DEF Spec, WaitsForAdapter

-----------------------------------------------------------------------------
(* Refinement.                                                             *)

LEMMA InitRefines == Init => Abstract!CInit
BY ChannelAssumption
   DEF Init, Abstract!CInit, AdapterState, CallState, CallWord, Blank, Abstract!Blank

LEMMA StepRefines ==
    ASSUME Once, NEW t \in Threads, Step(t)
    PROVE  [Abstract!CNext]_(Abstract!cvars)
<1> USE ChannelAssumption
    DEF Once, IInv, TypeOK, FirstSession, Owner, Critical, Waiting, Goto, page, session,
        CallState, CallWord, AdapterState, Abstract!cvars
<1>1. CASE Block(t)
  BY <1>1 DEF Block
<1>2. CASE Acquire(t)
  BY <1>2 DEF Acquire
<1>3. CASE Store(t)
  BY <1>3 DEF Store
<1>4. CASE Arm(t)
  BY <1>4 DEF Arm, OneToken, InFlight
<1>5. CASE Signal(t)
  BY <1>5 DEF Signal, OneToken, InFlight
<1>6. CASE Wait(t)
  BY <1>6 DEF Wait
<1>7. CASE Timeout(t)
  BY <1>7 DEF Timeout
<1>8. CASE Leave(t)
  BY <1>8 DEF Leave, Session, AdapterPcs
<1>9. CASE Collect(t)
  <2>1. Abstract!CReturn(t)
    BY <1>9 DEF Collect, Session, HoldersPage, Abstract!CReturn
  <2> QED
    BY <2>1 DEF Abstract!CNext
<1>10. CASE Unlock(t)
  BY <1>10 DEF Unlock
<1> QED
  BY <1>1, <1>2, <1>3, <1>4, <1>5, <1>6, <1>7, <1>8, <1>9, <1>10 DEF Step

\* How the mapped functions change, from how the mapping of each caller does.
LEMMA MappedSt ==
    ASSUME NEW t \in Threads, NEW s, CallState(t)' = s,
           \A u \in Threads \ {t} : CallState(u)' = CallState(u)
    PROVE  [u \in Threads |-> CallState(u)]' =
               [[u \in Threads |-> CallState(u)] EXCEPT ![t] = s]
OBVIOUS

LEMMA MappedWord ==
    ASSUME NEW t \in Threads, NEW w, CallWord(t)' = w,
           \A u \in Threads \ {t} : CallWord(u)' = CallWord(u)
    PROVE  [u \in Threads |-> CallWord(u)]' =
               [[u \in Threads |-> CallWord(u)] EXCEPT ![t] = w]
OBVIOUS

LEMMA MappedSame ==
    ASSUME \A u \in Threads : CallState(u)' = CallState(u) /\ CallWord(u)' = CallWord(u)
    PROVE  /\ [u \in Threads |-> CallState(u)]' = [u \in Threads |-> CallState(u)]
           /\ [u \in Threads |-> CallWord(u)]' = [u \in Threads |-> CallWord(u)]
OBVIOUS

\* Every step of the channel is a step of the procedure call or leaves it alone.
LEMMA NextRefines == Once /\ Once' /\ [Next]_vars => [Abstract!CNext]_(Abstract!cvars)
<1> SUFFICES ASSUME Once, Once', [Next]_vars
             PROVE  [Abstract!CNext]_(Abstract!cvars)
  OBVIOUS
<1> USE ChannelAssumption
    DEF Once, IInv, TypeOK, FirstSession, Session, AdapterGoto, AdapterPcs, page,
        session, calls
<1>1. ASSUME NEW t \in Threads, Step(t)
      PROVE  [Abstract!CNext]_(Abstract!cvars)
  BY <1>1, StepRefines
<1>2. ASSUME NEW t \in Threads, NEW r \in Requests, Invoke(t, r)
      PROVE  [Abstract!CNext]_(Abstract!cvars)
  <2>1. r \in Abstract!Requests
    BY DEF Requests, Request, Abstract!Requests, Abstract!Request
  <2>2. CallState(t) = "idle" /\ CallState(t)' = "posted" /\ CallWord(t)' = r.data
    BY <1>2 DEF Invoke, Goto, CallState, CallWord
  <2>3. \A u \in Threads \ {t} :
           CallState(u)' = CallState(u) /\ CallWord(u)' = CallWord(u)
    BY <1>2 DEF Invoke, Goto, CallState, CallWord
  <2>4. [u \in Threads |-> CallState(u)]' =
           [[u \in Threads |-> CallState(u)] EXCEPT ![t] = "posted"]
    BY <2>2, <2>3
  <2>5. [u \in Threads |-> CallWord(u)]' =
           [[u \in Threads |-> CallWord(u)] EXCEPT ![t] = r.data]
    BY <2>2, <2>3
  <2>6. AdapterState' = AdapterState
    BY <1>2 DEF Invoke, AdapterState
  <2>7. Abstract!Call(t, r)
    BY <1>2, <2>2, <2>4, <2>5, <2>6 DEF Invoke, Abstract!Call
  <2> QED
    BY <2>1, <2>7 DEF Abstract!CNext
<1>3. CASE Open
  <2>1. opens = 0 /\ ~inUse /\ inUse'
    BY <1>3 DEF Open
  <2>2. \A u \in Threads : pc[u] = "idle" /\ pc'[u] = "idle"
    BY <1>3, <2>1 DEF Open
  <2>3. \A u \in Threads : CallState(u)' = CallState(u) /\ CallWord(u)' = CallWord(u)
    BY <2>2 DEF CallState, CallWord
  <2>4. AdapterState = "absent" /\ AdapterState' = "serving"
    BY <2>1 DEF AdapterState
  <2>5. Abstract!Arrive
    BY <1>3, <2>3, <2>4, MappedSame DEF Open, Abstract!Arrive
  <2> QED
    BY <2>5 DEF Abstract!CNext
<1>4. CASE EfdInit
  BY <1>4 DEF EfdInit, CallState, CallWord, AdapterState, Abstract!cvars
<1>5. CASE Start
  BY <1>5 DEF Start, CallState, CallWord, AdapterState, Abstract!cvars
<1>6. CASE Poll
  BY <1>6 DEF Poll, CallState, CallWord, AdapterState, Abstract!cvars
<1>7. CASE Take
  <2> PICK t \in Threads : t = lock
    BY <1>7 DEF Take, OneToken, InFlight
  <2> USE DEF Owner, OneToken, InFlight, Critical, Waiting
  <2>1. CallState(t) = "posted" /\ CallState(t)' = "taken"
    BY <1>7 DEF Take, CallState
  <2>2. \A u \in Threads \ {t} :
           CallState(u)' = CallState(u) /\ CallState(u) \in {"idle", "posted"}
    BY <1>7 DEF Take, CallState
  <2>3. \A u \in Threads : CallWord(u)' = CallWord(u)
    BY <1>7 DEF Take, CallWord
  <2>4. AdapterState = "serving" /\ AdapterState' = "serving" /\ seen' = req[t]
    BY <1>7 DEF Take, AdapterState
  <2>5. [u \in Threads |-> CallState(u)]' =
           [[u \in Threads |-> CallState(u)] EXCEPT ![t] = "taken"]
    BY <2>1, <2>2
  <2>6. Abstract!CTake(t)
    BY <1>7, <2>1, <2>2, <2>3, <2>4, <2>5 DEF Take, Abstract!CTake
  <2> QED
    BY <2>6 DEF Abstract!CNext
<1>8. ASSUME NEW w \in Words, Reply(w)
      PROVE  [Abstract!CNext]_(Abstract!cvars)
  <2> PICK t \in Threads : t = lock
    BY <1>8 DEF Reply, OneToken, InFlight
  <2> USE DEF Owner, OneToken, InFlight, Critical, Waiting
  <2>1. CallState(t) = "taken" /\ CallState(t)' = "served" /\ seen = req[t]
    BY <1>8 DEF Reply, CallState
  <2>2. CallWord(t) = mbox.data /\ CallWord(t)' = mbox'.data
    BY <1>8 DEF Reply, CallWord
  <2>3. \A u \in Threads \ {t} :
           CallState(u)' = CallState(u) /\ CallWord(u)' = CallWord(u)
    BY <1>8 DEF Reply, CallState, CallWord
  <2>4. AdapterState = "serving" /\ AdapterState' = "serving"
    BY <1>8 DEF Reply, AdapterState
  <2>5. [u \in Threads |-> CallState(u)]' =
           [[u \in Threads |-> CallState(u)] EXCEPT ![t] = "served"]
    BY <2>1, <2>3
  <2>6. [u \in Threads |-> CallWord(u)]' =
           [[u \in Threads |-> CallWord(u)] EXCEPT ![t] = mbox'.data]
    BY <2>2, <2>3
  <2>7. mbox'.data \in Words /\ (seen.read \/ mbox'.data = mbox.data)
    BY <1>8 DEF Reply, Request
  <2>8. Abstract!CServe(t, mbox'.data)
    BY <1>8, <2>1, <2>2, <2>4, <2>5, <2>6, <2>7 DEF Reply, Abstract!CServe
  <2>9. PICK v \in Words : v = mbox'.data
    BY <2>7
  <2> QED
    BY <2>8, <2>9 DEF Abstract!CNext
<1>9. CASE Wakeup
  <2> PICK t \in Threads : t = lock
    BY <1>9 DEF Wakeup, OneToken, InFlight
  <2> USE DEF Owner, OneToken, InFlight, Critical, Waiting, HoldersPage
  <2>1. CallState(t) = "served" /\ CallState(t)' = "answered"
    BY <1>9 DEF Wakeup, CallState
  <2>2. \A u \in Threads \ {t} : CallState(u)' = CallState(u)
    BY <1>9 DEF Wakeup, CallState
  <2>3. \A u \in Threads : CallWord(u)' = CallWord(u)
    BY <1>9 DEF Wakeup, CallWord
  <2>4. AdapterState = "serving" /\ AdapterState' = "serving"
    BY <1>9 DEF Wakeup, AdapterState
  <2>5. [u \in Threads |-> CallState(u)]' =
           [[u \in Threads |-> CallState(u)] EXCEPT ![t] = "answered"]
    BY <2>1, <2>2
  <2>6. Abstract!CAnswer(t)
    BY <1>9, <2>1, <2>3, <2>4, <2>5 DEF Wakeup, Abstract!CAnswer
  <2> QED
    BY <2>6 DEF Abstract!CNext
<1>10. CASE Kick
  BY <1>10 DEF Kick, CallState, CallWord, AdapterState, Abstract!cvars
<1>11. CASE Close
  <2>1. AdapterState = "serving" /\ AdapterState' = "closed"
    BY <1>11 DEF Close, AdapterState
  <2>2. \A u \in Threads :
           /\ CallState(u)' = IF CallState(u) \in {"taken", "served"} THEN "posted" ELSE CallState(u)
           /\ CallWord(u)' = CallWord(u)
    BY <1>11 DEF Close, CallState, CallWord
  <2>3. Abstract!Depart
    BY <1>11, <2>1, <2>2 DEF Close, Abstract!Depart
  <2> QED
    BY <2>3 DEF Abstract!CNext
<1>12. CASE ReleaseFinish
  <2>1. \A u \in Threads : CallState(u)' = CallState(u) /\ CallWord(u)' = CallWord(u)
    BY <1>12 DEF ReleaseFinish, CallState, CallWord
  <2>2. AdapterState' = "gone"
    BY <1>12 DEF ReleaseFinish, AdapterState
  <2>3. validEventfd => AdapterState = "closed"
    BY <1>12 DEF ReleaseFinish, AdapterState
  <2>4. ~validEventfd => AdapterState = "gone"
    BY <1>12 DEF ReleaseFinish, AdapterState
  <2>5. CASE validEventfd
    BY <1>12, <2>1, <2>2, <2>3, <2>5, MappedSame
       DEF ReleaseFinish, Abstract!Disappear, Abstract!CNext
  <2>6. CASE ~validEventfd
    BY <1>12, <2>1, <2>2, <2>4, <2>6, MappedSame DEF ReleaseFinish, Abstract!cvars
  <2> QED
    BY <2>5, <2>6
<1>13. CASE UNCHANGED vars
  BY <1>13 DEF vars, CallState, CallWord, AdapterState, Abstract!cvars
<1> QED
  BY <1>1, <1>2, <1>3, <1>4, <1>5, <1>6, <1>7, <1>8, <1>9, <1>10, <1>11, <1>12, <1>13
     DEF Next, Serve

\* A device that is opened at most once gives its callers the procedure call of
\* AdapterCall.
THEOREM Refines ==
    ASSUME MaxOpens <= 1
    PROVE  Spec => ImplementsCall
<1> QED
  BY InitRefines, NextRefines, AlwaysOnce, PTL DEF Spec, ImplementsCall, Abstract!CSpec
=============================================================================
