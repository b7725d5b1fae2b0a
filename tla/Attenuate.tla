----------------------------- MODULE Attenuate -----------------------------
(***************************************************************************)
(* module-attenuate of PulseAudio: while the sound played into its sink is *)
(* loud, a source is muted; after half a second of silence it is heard     *)
(* again.  The sink's IO thread measures the blocks it renders             *)
(* (test_volume) and posts what to do to the main thread.  What test_volume *)
(* remembers is in globals, which all loaded instances of the module share. *)
(* Time passes in ticks; a thread measures a block in no time.             *)
(***************************************************************************)
EXTENDS Naturals, Sequences

CONSTANTS Instances,  \* instances of the module, each with its sink and source
          Threshold,  \* ticks of silence before the source is heard again (500 ms)
          Block,      \* most ticks between two blocks of an open sink
          MaxQueue,   \* bound on the messages under way
          MaxLoads    \* bound on how often instances are loaded

ASSUME AttenuateAssumption ==
    Threshold \in Nat /\ Block \in Nat \ {0} /\ MaxQueue \in Nat /\ MaxLoads \in Nat

VARIABLES sink,            \* per instance: "out" (not loaded), "open", "suspended"
          g_silent_count,  \* ticks of silence counted, up to Enough
          elapsed,         \* now - g_last_time, up to Enough
          g_attenuate_on,
          outq,            \* per instance: messages to the main thread (TRUE: mute)
          muted,           \* per instance: its source's soft volume is MUTED
          rest,            \* per instance: ticks since its last block; Block: one is due
          quiet,           \* history: open ticks since its last loud block
          silence,         \* history: ticks since its last loud block
          loads            \* loads so far

globals == <<g_silent_count, elapsed, g_attenuate_on>>
history == <<quiet, silence>>
vars == <<sink, globals, outq, muted, rest, history, loads>>

\* Counts beyond this are as good as this: the code only compares with 500.
Enough == Threshold + 2 * Block + 1
Plus(m, n) == IF m + n < Enough THEN m + n ELSE Enough

TypeOK ==
    /\ sink \in [Instances -> {"out", "open", "suspended"}]
    /\ g_silent_count \in 0..Enough /\ elapsed \in 0..Enough
    /\ g_attenuate_on \in {0, 1}
    /\ outq \in [Instances -> Seq(BOOLEAN)]
    /\ muted \in [Instances -> BOOLEAN]
    /\ rest \in [Instances -> 0..Block]
    /\ quiet \in [Instances -> 0..Enough] /\ silence \in [Instances -> 0..Enough]
    /\ loads \in 0..MaxLoads

Init ==
    /\ sink = [i \in Instances |-> "out"]
    /\ g_silent_count = Enough /\ elapsed = Enough /\ g_attenuate_on = 0
    /\ outq = [i \in Instances |-> <<>>]
    /\ muted = [i \in Instances |-> FALSE]
    /\ rest = [i \in Instances |-> 0]
    /\ quiet = [i \in Instances |-> Enough] /\ silence = [i \in Instances |-> Enough]
    /\ loads = 0

-----------------------------------------------------------------------------
(* The IO thread: test_volume of a block.                                  *)

MayRender(i) == sink[i] = "open" /\ Len(outq[i]) < MaxQueue

\* Mutant: the count of silence is not reset.
LoudBlockNoReset(i) ==
    /\ MayRender(i)
    /\ g_attenuate_on' = 1
    /\ outq' = IF g_attenuate_on = 0 THEN [outq EXCEPT ![i] = Append(@, TRUE)] ELSE outq
    /\ elapsed' = 0 /\ UNCHANGED g_silent_count
    /\ rest' = [rest EXCEPT ![i] = 0]
    /\ quiet' = [quiet EXCEPT ![i] = 0] /\ silence' = [silence EXCEPT ![i] = 0]
    /\ UNCHANGED <<sink, muted, loads>>

LoudBlock(i) ==
    /\ MayRender(i)
    /\ g_attenuate_on' = 1
    /\ outq' = IF g_attenuate_on = 0 THEN [outq EXCEPT ![i] = Append(@, TRUE)] ELSE outq
    /\ g_silent_count' = 0 /\ elapsed' = 0
    /\ rest' = [rest EXCEPT ![i] = 0]
    /\ quiet' = [quiet EXCEPT ![i] = 0] /\ silence' = [silence EXCEPT ![i] = 0]
    /\ UNCHANGED <<sink, muted, loads>>

\* Mutants: g_attenuate_on is not looked at; the time is not added up.
QuietBlockAlways(i) ==
    /\ MayRender(i)
    /\ LET over == g_silent_count >= Threshold
       IN  /\ outq' = IF over THEN [outq EXCEPT ![i] = Append(@, FALSE)] ELSE outq
           /\ g_attenuate_on' = IF over THEN 0 ELSE g_attenuate_on
    /\ g_silent_count' = Plus(g_silent_count, elapsed) /\ elapsed' = 0
    /\ rest' = [rest EXCEPT ![i] = 0]
    /\ UNCHANGED <<sink, muted, history, loads>>

QuietBlockNoSum(i) ==
    /\ MayRender(i)
    /\ LET over == g_silent_count >= Threshold /\ g_attenuate_on = 1
       IN  /\ outq' = IF over THEN [outq EXCEPT ![i] = Append(@, FALSE)] ELSE outq
           /\ g_attenuate_on' = IF over THEN 0 ELSE g_attenuate_on
    /\ g_silent_count' = elapsed /\ elapsed' = 0
    /\ rest' = [rest EXCEPT ![i] = 0]
    /\ UNCHANGED <<sink, muted, history, loads>>

\* The count is compared before this block's time is added to it.
QuietBlock(i) ==
    /\ MayRender(i)
    /\ LET over == g_silent_count >= Threshold /\ g_attenuate_on = 1
       IN  /\ outq' = IF over THEN [outq EXCEPT ![i] = Append(@, FALSE)] ELSE outq
           /\ g_attenuate_on' = IF over THEN 0 ELSE g_attenuate_on
    /\ g_silent_count' = Plus(g_silent_count, elapsed) /\ elapsed' = 0
    /\ rest' = [rest EXCEPT ![i] = 0]
    /\ UNCHANGED <<sink, muted, history, loads>>

\* A sink that is suspended renders nothing; opened again it starts from now,
\* and a block is due at once.
Suspend(i) ==
    /\ sink[i] = "open"
    /\ sink' = [sink EXCEPT ![i] = "suspended"]
    /\ UNCHANGED <<globals, outq, muted, rest, history, loads>>

Resume(i) ==
    /\ sink[i] = "suspended"
    /\ sink' = [sink EXCEPT ![i] = "open"]
    /\ rest' = [rest EXCEPT ![i] = Block]
    /\ UNCHANGED <<globals, outq, muted, history, loads>>

\* The timer of thread_func is exact up to the block an open sink asked for.
Tick ==
    /\ \A i \in Instances : sink[i] = "open" => rest[i] < Block
    /\ elapsed' = Plus(elapsed, 1)
    /\ rest' = [i \in Instances |-> IF sink[i] = "open" THEN rest[i] + 1 ELSE rest[i]]
    /\ quiet' = [i \in Instances |-> IF sink[i] = "open" THEN Plus(quiet[i], 1) ELSE quiet[i]]
    /\ silence' = [i \in Instances |-> Plus(silence[i], 1)]
    /\ UNCHANGED <<sink, g_silent_count, g_attenuate_on, outq, muted, loads>>

-----------------------------------------------------------------------------
(* The main thread.                                                        *)

\* Mutant: the code of the message is not looked at.
DispatchMutes(i) ==
    /\ outq[i] # <<>>
    /\ muted' = [muted EXCEPT ![i] = TRUE]
    /\ outq' = [outq EXCEPT ![i] = Tail(@)]
    /\ UNCHANGED <<sink, globals, rest, history, loads>>

\* attenuate_process_msg_cb
Dispatch(i) ==
    /\ outq[i] # <<>>
    /\ muted' = [muted EXCEPT ![i] = Head(outq[i])]
    /\ outq' = [outq EXCEPT ![i] = Tail(@)]
    /\ UNCHANGED <<sink, globals, rest, history, loads>>

Load(i) ==
    /\ sink[i] = "out" /\ loads < MaxLoads
    /\ sink' = [sink EXCEPT ![i] = "open"]
    /\ rest' = [rest EXCEPT ![i] = Block]
    /\ quiet' = [quiet EXCEPT ![i] = Enough] /\ silence' = [silence EXCEPT ![i] = Enough]
    /\ loads' = loads + 1
    /\ UNCHANGED <<globals, outq, muted>>

\* What the source was last to be told.
Told(i) == IF outq[i] = <<>> THEN muted[i] ELSE outq[i][Len(outq[i])]

\* pa__done: the thread is stopped, its messages are dispatched, the source
\* stays as they leave it; the globals go with the last instance.
Unload(i) ==
    /\ sink[i] # "out"
    /\ sink' = [sink EXCEPT ![i] = "out"]
    /\ muted' = [muted EXCEPT ![i] = Told(i)]
    /\ outq' = [outq EXCEPT ![i] = <<>>]
    /\ IF \A j \in Instances \ {i} : sink[j] = "out"
       THEN g_silent_count' = Enough /\ elapsed' = Enough /\ g_attenuate_on' = 0
       ELSE UNCHANGED globals
    /\ UNCHANGED <<rest, history, loads>>

Next ==
    \/ Tick
    \/ \E i \in Instances :
          \/ LoudBlock(i) \/ QuietBlock(i) \/ Suspend(i) \/ Resume(i)
          \/ Dispatch(i) \/ Load(i) \/ Unload(i)

Spec == Init /\ [][Next]_vars

\* The main loop dispatches; nothing else has to happen.
FairSpec == Spec /\ \A i \in Instances : WF_vars(Dispatch(i))

-----------------------------------------------------------------------------
(* Properties.                                                             *)

\* While the module is loaded for the first time, the messages under way bring
\* the source to what test_volume decided last, and none says twice the same,
\* although the decision and the volume change in different threads.
MutedFollows ==
    loads <= 1 => \A i \in Instances : sink[i] # "out" =>
        LET said == <<muted[i]>> \o outq[i]
        IN  /\ \A k \in 1..Len(outq[i]) : said[k] # said[k + 1]
            /\ Told(i) <=> g_attenuate_on = 1

\* The source is never let through before the silence has lasted, however the
\* blocks fall and whatever the sink slept through.
NoEarlyUnmute ==
    [][\A i \in Instances :
          Len(outq'[i]) > Len(outq[i]) /\ ~outq'[i][Len(outq'[i])]
             => silence[i] >= Threshold]_vars

\* ... and it is let through at the second block after the silence has lasted:
\* the comparison comes before the sum, which costs one block more.
UnmutesInTime ==
    \A i \in Instances :
        sink[i] = "open" /\ g_attenuate_on = 1 => quiet[i] <= Threshold + 2 * Block

\* A source that is to be heard is heard in the end.
MuteEnds ==
    \A i \in Instances :
        sink[i] # "out" /\ loads <= 1 /\ g_attenuate_on = 0
           ~> ~muted[i] \/ g_attenuate_on = 1
=============================================================================
