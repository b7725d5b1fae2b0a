--------------------------- MODULE AdapterChannel ---------------------------
(***************************************************************************)
(* The request channel between the virtio-loopback driver and the          *)
(* user-space adapter (loopback_driver0.c, the same text as driver1.c).    *)
(*                                                                         *)
(* read_adapter and write_adapter fill one shared page (virtio_neg_t)      *)
(* under read_write_lock, clear the page's done word, signal an eventfd    *)
(* and wait on wq until done is 1.  The adapter polls the eventfd, reads   *)
(* the page, serves the request and calls the WAKEUP ioctl.  Closing the   *)
(* device clears IN_USE and then valid_eventfd; opening it makes a fresh   *)
(* page and re-initialises the lock and the wait queue whatever threads    *)
(* are using them.                                                         *)
(***************************************************************************)
EXTENDS Naturals

CONSTANTS Threads,   \* kernel threads that call the transport
          NoThread,  \* "read_write_lock is free"
          Fns,       \* register offsets (VIRTIO_MMIO_MAGIC_VALUE is 0)
          Words,     \* register values
          MaxOpens   \* bound on the opens of the device

ASSUME ChannelAssumption ==
    /\ NoThread \notin Threads
    /\ Fns \subseteq Nat /\ 0 \in Fns
    /\ Words \subseteq Nat /\ 0 \in Words
    /\ MaxOpens \in Nat

VARIABLES
    lock,          \* holder of read_write_lock
    mbox,          \* notification, data and read of the shared page
    done,          \* done of the shared page
    efd,           \* the adapter's eventfd counter is not zero
    validEventfd,  \* valid_eventfd
    inUse,         \* IN_USE_BIT of loopback_flags
    releasing,     \* loopback_release is between clear_bit and its end
    opens,         \* how often the device was opened
    started,       \* START_LOOPBACK was issued: the transport may call
    apc,           \* where the adapter is
    seen,          \* the request the adapter read from the page
    pc,            \* where each caller is
    req,           \* the request of each caller
    ret            \* the result of each caller's last read

page    == <<mbox, done>>
session == <<validEventfd, inUse, releasing, opens, started>>
calls   == <<lock, pc, req, ret>>
vars    == <<page, session, calls, efd, apc, seen>>

Request == [fn : Fns, data : Words, read : BOOLEAN]

\* read_adapter stores a zero data word, write_adapter its argument.
Requests == {r \in Request : r.read => r.data = 0}

Blank == [fn |-> 0, data |-> 0, read |-> FALSE]

\* "blocked" sleeps in mutex_lock, "stranded" sleeps in a wait list that
\* mutex_init has emptied; "asleep" sleeps on wq.
Critical == {"store", "arm", "signal", "loop", "asleep", "collect", "unlock"}
Pcs      == {"idle", "lock", "blocked", "stranded"} \cup Critical
Waiting  == {"loop", "asleep"}
AdapterPcs == {"none", "opened", "ready", "poll", "take", "reply", "wake", "kick"}

TypeOK ==
    /\ lock \in Threads \cup {NoThread}
    /\ mbox \in Request
    /\ done \in {0, 1}
    /\ efd \in BOOLEAN /\ validEventfd \in BOOLEAN
    /\ inUse \in BOOLEAN /\ releasing \in BOOLEAN /\ started \in BOOLEAN
    /\ opens \in Nat
    /\ apc \in AdapterPcs
    /\ seen \in Request
    /\ pc \in [Threads -> Pcs]
    /\ req \in [Threads -> Requests]
    /\ ret \in [Threads -> Words]

Init ==
    /\ lock = NoThread
    /\ mbox = Blank /\ done = 0
    /\ efd = FALSE
    /\ validEventfd = TRUE
    /\ inUse = FALSE /\ releasing = FALSE
    /\ opens = 0 /\ started = FALSE
    /\ apc = "none" /\ seen = Blank
    /\ pc = [t \in Threads |-> "idle"]
    /\ req = [t \in Threads |-> Blank]
    /\ ret = [t \in Threads |-> 0]

-----------------------------------------------------------------------------
(* A caller: read_adapter (r.read) or write_adapter.                       *)

Goto(t, from, to) == pc[t] = from /\ pc' = [pc EXCEPT ![t] = to]

Invoke(t, r) ==
    /\ started
    /\ Goto(t, "idle", "lock")
    /\ req' = [req EXCEPT ![t] = r]
    /\ UNCHANGED <<page, session, lock, ret, efd, apc, seen>>

\* mutex_lock finds the lock taken and puts the thread on its wait list; a
\* thread may also spin for the lock, which is the state "lock".
Block(t) ==
    /\ lock # NoThread
    /\ Goto(t, "lock", "blocked")
    /\ UNCHANGED <<page, session, lock, req, ret, efd, apc, seen>>

\* Mutant: the lock is taken without looking at its owner.
AcquireHeld(t) ==
    /\ Goto(t, "lock", "store")
    /\ lock' = t
    /\ UNCHANGED <<page, session, req, ret, efd, apc, seen>>

Acquire(t) ==
    /\ lock = NoThread
    /\ Goto(t, "lock", "store") \/ Goto(t, "blocked", "store")
    /\ lock' = t
    /\ UNCHANGED <<page, session, req, ret, efd, apc, seen>>

Store(t) ==
    /\ Goto(t, "store", "arm")
    /\ mbox' = req[t]
    /\ UNCHANGED <<done, session, lock, req, ret, efd, apc, seen>>

\* Mutant: done is not reset.
ArmWithoutReset(t) ==
    /\ Goto(t, "arm", "signal")
    /\ UNCHANGED <<page, session, lock, req, ret, efd, apc, seen>>

Arm(t) ==
    /\ Goto(t, "arm", "signal")
    /\ done' = 0
    /\ UNCHANGED <<mbox, session, lock, req, ret, efd, apc, seen>>

Signal(t) ==
    /\ Goto(t, "signal", "loop")
    /\ efd' = TRUE
    /\ UNCHANGED <<page, session, lock, req, ret, apc, seen>>

\* while (valid_eventfd && done != 1) wait_event_timeout(wq, done == 1, HZ);
Wait(t) ==
    /\ validEventfd /\ done # 1
    /\ Goto(t, "loop", "asleep")
    /\ UNCHANGED <<page, session, lock, req, ret, efd, apc, seen>>

\* Mutants: a timeout ends the call; a plain wait_event never times out.
TimeoutGivesUp(t) ==
    /\ Goto(t, "asleep", "collect")
    /\ UNCHANGED <<page, session, lock, req, ret, efd, apc, seen>>

TimeoutNever(t) ==
    /\ done = 1
    /\ Goto(t, "asleep", "loop")
    /\ UNCHANGED <<page, session, lock, req, ret, efd, apc, seen>>

Timeout(t) ==
    /\ Goto(t, "asleep", "loop")
    /\ UNCHANGED <<page, session, lock, req, ret, efd, apc, seen>>

\* Mutant: an if in place of the while, any wake-up ends the wait.
LeaveOnWakeup(t) ==
    /\ Goto(t, "loop", "collect")
    /\ UNCHANGED <<page, session, lock, req, ret, efd, apc, seen>>

Leave(t) ==
    /\ ~validEventfd \/ done = 1
    /\ Goto(t, "loop", "collect")
    /\ UNCHANGED <<page, session, lock, req, ret, efd, apc, seen>>

Collect(t) ==
    /\ Goto(t, "collect", "unlock")
    /\ ret' = IF req[t].read THEN [ret EXCEPT ![t] = mbox.data] ELSE ret
    /\ UNCHANGED <<page, session, lock, req, efd, apc, seen>>

\* Mutant: a path that returns without mutex_unlock.
UnlockForgotten(t) ==
    /\ Goto(t, "unlock", "idle")
    /\ UNCHANGED <<page, session, lock, req, ret, efd, apc, seen>>

\* mutex_unlock clears the owner, whoever that is by now.
Unlock(t) ==
    /\ Goto(t, "unlock", "idle")
    /\ lock' = NoThread
    /\ UNCHANGED <<page, session, req, ret, efd, apc, seen>>

-----------------------------------------------------------------------------
(* The adapter process.                                                    *)

AdapterGoto(from, to) == apc = from /\ apc' = to

\* loopback_open: a fresh page (memcpy of device_neg, done = 0), fresh locks
\* and wait queues.  valid_eventfd is not set.  A thread on the mutex's old
\* wait list is on no list any more.
Open ==
    /\ ~inUse /\ opens < MaxOpens
    /\ AdapterGoto("none", "opened")
    /\ inUse' = TRUE
    /\ opens' = opens + 1
    /\ mbox' = Blank /\ done' = 0
    /\ lock' = NoThread
    /\ pc' = [t \in Threads |-> IF pc[t] = "blocked" THEN "stranded" ELSE pc[t]]
    /\ UNCHANGED <<validEventfd, releasing, started, req, ret, efd, seen>>

\* EFD_INIT installs the eventfd of this adapter, which nobody signalled yet.
EfdInit ==
    /\ AdapterGoto("opened", "ready")
    /\ efd' = FALSE
    /\ UNCHANGED <<page, session, calls, seen>>

\* START_LOOPBACK registers the platform driver and device; from here on the
\* virtio core, the virtio driver and the notify worker call the transport.
Start ==
    /\ AdapterGoto("ready", "poll")
    /\ started' = TRUE
    /\ UNCHANGED <<page, validEventfd, inUse, releasing, opens, calls, efd, seen>>

Poll ==
    /\ efd
    /\ AdapterGoto("poll", "take")
    /\ efd' = FALSE
    /\ UNCHANGED <<page, session, calls, seen>>

Take ==
    /\ AdapterGoto("take", "reply")
    /\ seen' = mbox
    /\ UNCHANGED <<page, session, calls, efd>>

\* The adapter answers a read in the page's data word.
Reply(w) ==
    /\ AdapterGoto("reply", "wake")
    /\ mbox' = IF seen.read THEN [mbox EXCEPT !.data = w] ELSE mbox
    /\ UNCHANGED <<done, session, calls, efd, seen>>

\* WAKEUP: atomic_set(done, 1), then wake_up(&wq).
Wakeup ==
    /\ AdapterGoto("wake", "kick")
    /\ done' = 1
    /\ UNCHANGED <<mbox, session, calls, efd, seen>>

\* A wait queue head that was re-initialised under its sleepers may miss any
\* of them.
Kick ==
    /\ AdapterGoto("kick", "poll")
    /\ \E missed \in SUBSET {t \in Threads : pc[t] = "asleep"} :
          /\ opens <= 1 => missed = {}
          /\ pc' = [t \in Threads |-> IF pc[t] = "asleep" /\ t \notin missed
                                        THEN "loop" ELSE pc[t]]
    /\ UNCHANGED <<page, session, lock, req, ret, efd, seen>>

\* The adapter exits or is killed, anywhere outside an ioctl;
\* loopback_release clears IN_USE_BIT ...
Close ==
    /\ apc \in AdapterPcs \ {"none", "kick"}
    /\ ~releasing
    /\ apc' = "none"
    /\ inUse' = FALSE
    /\ releasing' = TRUE
    /\ UNCHANGED <<page, validEventfd, opens, started, calls, efd, seen>>

\* Mutant: the release leaves valid_eventfd set.
ReleaseStillValid ==
    /\ releasing
    /\ releasing' = FALSE
    /\ UNCHANGED <<page, validEventfd, inUse, opens, started, calls, efd, apc, seen>>

\* ... and then valid_eventfd.
ReleaseFinish ==
    /\ releasing
    /\ releasing' = FALSE
    /\ validEventfd' = FALSE
    /\ UNCHANGED <<page, inUse, opens, started, calls, efd, apc, seen>>

Step(t) ==
    \/ Block(t) \/ Acquire(t) \/ Store(t) \/ Arm(t) \/ Signal(t) \/ Wait(t)
    \/ Timeout(t) \/ Leave(t) \/ Collect(t) \/ Unlock(t)

Serve ==
    \/ Poll \/ Take \/ (\E w \in Words : Reply(w)) \/ Wakeup \/ Kick

Next ==
    \/ \E t \in Threads : Step(t) \/ \E r \in Requests : Invoke(t, r)
    \/ Open \/ EfdInit \/ Start \/ Serve \/ Close \/ ReleaseFinish

Spec == Init /\ [][Next]_vars

(* Threads run, timers fire, a mutex is handed to its waiters in turn, an  *)
(* adapter that holds the device serves it and a release that has begun    *)
(* ends.  Nothing makes the adapter open or close the device.              *)
Fairness ==
    /\ \A t \in Threads : WF_vars(Step(t)) /\ SF_vars(Acquire(t))
    /\ WF_vars(Serve)
    /\ WF_vars(ReleaseFinish)

FairSpec == Spec /\ Fairness
-----------------------------------------------------------------------------
(* Properties.                                                             *)

\* read_write_lock makes a request and its answer one transaction: in the
\* first session of the device two callers are never inside it together, and
\* the one inside is the owner that mutex_unlock will clear.
OneTransaction ==
    opens <= 1 => \A t \in Threads : pc[t] \in Critical => lock = t

\* The page has no sequence number, so an answer belongs to a caller only by
\* time: while the adapter works on a request, the owner of read_write_lock
\* is still waiting for exactly that request, spurious and timed-out wake-ups
\* included.
ServesItsCaller ==
    opens <= 1 /\ apc \in {"reply", "wake"} =>
        lock \in Threads /\ pc[lock] \in Waiting /\ seen = req[lock]

\* The comments at valid_eventfd (159-164) and in loopback_release
\* (1317-1321): a caller goes on without the adapter's confirmation only when
\* the adapter has closed the device.
WaitsForAdapter ==
    [][\A t \in Threads :
          pc[t] \in Waiting /\ pc'[t] = "collect" => done = 1 \/ ~inUse]_vars

\* No caller of the first session waits for ever.  loopback_release does not
\* wake wq: a caller that sleeps when the adapter dies comes back through the
\* one-second timeout.
CallReturns == \A t \in Threads : pc[t] = "lock" ~> pc[t] = "idle" \/ opens > 1

\* When the device is opened again under its callers, the re-initialised mutex
\* and wait queue lose threads, but only a thread that slept in mutex_lock at
\* that moment is lost for good: every other call still ends.
OnlyBlockedAreLost ==
    \A t \in Threads : pc[t] = "lock" ~> pc[t] \in {"idle", "stranded"}

-----------------------------------------------------------------------------
(* The inductive invariant of the first session.                           *)

Owner ==
    \A t \in Threads : (pc[t] \in Critical <=> lock = t) /\ pc[t] # "stranded"

Session ==
    /\ inUse <=> apc # "none"
    /\ ~validEventfd => opens = 1 /\ ~inUse
    /\ releasing => opens = 1 /\ ~inUse
    /\ opens = 1 => inUse \/ releasing \/ ~validEventfd
    /\ opens = 0 => ~inUse /\ ~started
    /\ apc \in {"opened", "ready"} => ~started
    /\ ~started => \A t \in Threads : pc[t] = "idle"

\* While an adapter serves, the request is in one place at a time: about to be
\* signalled, in the eventfd, in the adapter's hands, or answered.
InFlight == apc \in {"take", "reply", "wake"} \/ (apc \in {"poll", "kick"} /\ efd)

OneToken ==
    /\ apc \in {"take", "reply", "wake"} => ~efd
    /\ ~started => ~efd
    /\ InFlight => /\ done = 0
                   /\ lock \in Threads
                   /\ pc[lock] \in Waiting
                   /\ apc # "wake" => mbox = req[lock]
                   /\ apc \in {"reply", "wake"} => seen = req[lock]

HoldersPage ==
    \A t \in Threads :
        /\ pc[t] \in {"arm", "signal"} => mbox = req[t]
        /\ pc[t] = "signal" => done = 0
        /\ pc[t] = "collect" => done = 1 \/ ~validEventfd

FirstSession == Owner /\ Session /\ OneToken /\ HoldersPage

IInv == TypeOK /\ (opens <= 1 => FirstSession)

-----------------------------------------------------------------------------
(* The channel of the first session implements the procedure call.         *)

CallState(t) ==
    CASE pc[t] \in {"idle", "unlock"} -> "idle"
      [] pc[t] \in {"signal", "loop", "asleep", "collect"} /\ done = 1 -> "answered"
      [] pc[t] \in {"loop", "asleep"} /\ done = 0 /\ apc = "reply" -> "taken"
      [] pc[t] \in {"loop", "asleep"} /\ done = 0 /\ apc = "wake" -> "served"
      [] OTHER -> "posted"

CallWord(t) ==
    CASE pc[t] \in {"idle", "unlock"} -> 0
      [] pc[t] \in {"arm", "signal", "loop", "asleep", "collect"} -> mbox.data
      [] OTHER -> req[t].data

AdapterState ==
    CASE inUse                                -> "serving"
      [] ~inUse /\ opens = 0                  -> "absent"
      [] ~inUse /\ opens # 0 /\ validEventfd  -> "closed"
      [] OTHER                                -> "gone"

Abstract == INSTANCE AdapterCall
    WITH adapter <- AdapterState,
         st      <- [t \in Threads |-> CallState(t)],
         word    <- [t \in Threads |-> CallWord(t)],
         asked   <- req,
         handled <- seen

\* Every read returns the word the adapter left for that very request (or
\* the zero it was posted with, once the adapter is gone), requests are
\* served one at a time and none is answered that was not taken.
ImplementsCall == Abstract!CSpec
=============================================================================
