---------------------------- MODULE AdapterCall ----------------------------
(***************************************************************************)
(* What read_adapter and write_adapter promise to the virtio-mmio          *)
(* transport: a remote procedure call.  Each caller has at most one call   *)
(* in progress; the adapter takes the requests one at a time, serves the   *)
(* request it took, and the caller returns with the word the adapter left  *)
(* for that very request.  A call ends without an answer only after the    *)
(* adapter has closed the device.  AdapterChannel is shown to implement    *)
(* this with one shared page, an eventfd and a wait queue.                 *)
(***************************************************************************)
EXTENDS Naturals

CONSTANTS Threads,  \* kernel threads that call the transport
          Fns,      \* virtio-mmio register offsets
          Words     \* register values

VARIABLES adapter,  \* "absent", "serving", "closed" (fd being released), "gone"
          st,       \* per caller: "idle", "posted", "taken", "served", "answered"
          asked,    \* per caller: its last request
          word,     \* per caller: the data word of its call in progress
          ret,      \* per caller: what its last read returned
          handled   \* the request the adapter took last

cvars == <<adapter, st, asked, word, ret, handled>>

Request == [fn : Fns, data : Words, read : BOOLEAN]

\* read_adapter puts a zero in the data word, write_adapter its argument.
Requests == {r \in Request : r.read => r.data = 0}

Blank == [fn |-> 0, data |-> 0, read |-> FALSE]

CTypeOK ==
    /\ adapter \in {"absent", "serving", "closed", "gone"}
    /\ st \in [Threads -> {"idle", "posted", "taken", "served", "answered"}]
    /\ asked \in [Threads -> Requests]
    /\ word \in [Threads -> Words]
    /\ ret \in [Threads -> Words]
    /\ handled \in Request

CInit ==
    /\ adapter = "absent"
    /\ st = [t \in Threads |-> "idle"]
    /\ asked = [t \in Threads |-> Blank]
    /\ word = [t \in Threads |-> 0]
    /\ ret = [t \in Threads |-> 0]
    /\ handled = Blank

Call(t, r) ==
    /\ st[t] = "idle"
    /\ st' = [st EXCEPT ![t] = "posted"]
    /\ asked' = [asked EXCEPT ![t] = r]
    /\ word' = [word EXCEPT ![t] = r.data]
    /\ UNCHANGED <<adapter, ret, handled>>

\* One transaction at a time: no other request is in the adapter's hands or
\* awaits its return.
CTake(t) ==
    /\ adapter = "serving"
    /\ st[t] = "posted"
    /\ \A u \in Threads : st[u] \in {"idle", "posted"}
    /\ st' = [st EXCEPT ![t] = "taken"]
    /\ handled' = asked[t]
    /\ UNCHANGED <<adapter, asked, word, ret>>

\* A read is answered with some word, a write leaves the caller's word alone.
CServe(t, w) ==
    /\ adapter = "serving"
    /\ st[t] = "taken"
    /\ handled = asked[t]
    /\ asked[t].read \/ w = word[t]
    /\ st' = [st EXCEPT ![t] = "served"]
    /\ word' = [word EXCEPT ![t] = w]
    /\ UNCHANGED <<adapter, asked, ret, handled>>

CAnswer(t) ==
    /\ adapter = "serving"
    /\ st[t] = "served"
    /\ st' = [st EXCEPT ![t] = "answered"]
    /\ UNCHANGED <<adapter, asked, word, ret, handled>>

CReturn(t) ==
    /\ \/ st[t] = "answered"
       \/ adapter = "gone" /\ st[t] # "idle"
    /\ st' = [st EXCEPT ![t] = "idle"]
    /\ ret' = IF asked[t].read THEN [ret EXCEPT ![t] = word[t]] ELSE ret
    /\ word' = [word EXCEPT ![t] = 0]
    /\ UNCHANGED <<adapter, asked, handled>>

Arrive ==
    /\ adapter = "absent"
    /\ adapter' = "serving"
    /\ UNCHANGED <<st, asked, word, ret, handled>>

\* The adapter dies or exits; a request in its hands is left unanswered.
Depart ==
    /\ adapter = "serving"
    /\ adapter' = "closed"
    /\ st' = [t \in Threads |-> IF st[t] \in {"taken", "served"} THEN "posted" ELSE st[t]]
    /\ UNCHANGED <<asked, word, ret, handled>>

Disappear ==
    /\ adapter = "closed"
    /\ adapter' = "gone"
    /\ UNCHANGED <<st, asked, word, ret, handled>>

CNext ==
    \/ Arrive \/ Depart \/ Disappear
    \/ \E t \in Threads :
          \/ \E r \in Requests : Call(t, r)
          \/ CTake(t)
          \/ \E w \in Words : CServe(t, w)
          \/ CAnswer(t)
          \/ CReturn(t)

CSpec == CInit /\ [][CNext]_cvars
============================================================================
