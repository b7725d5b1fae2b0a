----------------------------- MODULE SoundProofs -----------------------------
(***************************************************************************)
(* Proofs about what is heard: Attenuate, for any threshold, any length of *)
(* a block and any number of messages under way; RadioClient and           *)
(* MediaPlayer, for any band, stations, library and bounds.                *)
(***************************************************************************)
EXTENDS Attenuate, MediaPlayer, SequenceTheorems, TLAPS

-----------------------------------------------------------------------------
(* Types.                                                                  *)

LEMMA EnoughIsEnough == Enough \in Nat /\ Threshold <= Enough /\ Block <= Enough
                        /\ Threshold + 2 * Block < Enough
BY AttenuateAssumption DEF Enough

LEMMA PlusStays == \A m, n \in 0..Enough : Plus(m, n) \in 0..Enough
BY EnoughIsEnough DEF Plus

LEMMA TypeInit == Init => TypeOK
BY AttenuateAssumption, EnoughIsEnough DEF Init, TypeOK

LEMMA TypeNext ==
    ASSUME TypeOK, [Next]_vars
    PROVE  TypeOK'
<1> USE AttenuateAssumption, EnoughIsEnough DEF globals, history, MayRender
<1>1. CASE Tick
  <2>1. \A n \in 0..Enough : Plus(n, 1) \in 0..Enough
    BY AttenuateAssumption, EnoughIsEnough DEF Plus
  <2>2. elapsed' \in 0..Enough /\ silence' \in [Instances -> 0..Enough]
    BY <1>1, <2>1 DEF Tick, TypeOK
  <2>3. quiet' \in [Instances -> 0..Enough]
    BY <1>1, <2>1 DEF Tick, TypeOK
  <2>4. rest' \in [Instances -> 0..Block]
    BY <1>1, AttenuateAssumption DEF Tick, TypeOK
  <2> QED
    BY <1>1, <2>2, <2>3, <2>4 DEF Tick, TypeOK
<1>2. ASSUME NEW i \in Instances, LoudBlock(i)
      PROVE  TypeOK'
  <2>1. outq' \in [Instances -> Seq(BOOLEAN)]
    BY <1>2 DEF LoudBlock, TypeOK
  <2> QED
    BY <1>2, <2>1, AttenuateAssumption, EnoughIsEnough DEF LoudBlock, TypeOK
<1>3. ASSUME NEW i \in Instances, QuietBlock(i)
      PROVE  TypeOK'
  <2>1. outq' \in [Instances -> Seq(BOOLEAN)]
    BY <1>3 DEF QuietBlock, TypeOK
  <2>2. g_silent_count' \in 0..Enough
    BY <1>3, PlusStays DEF QuietBlock, TypeOK
  <2> QED
    BY <1>3, <2>1, <2>2, AttenuateAssumption, EnoughIsEnough DEF QuietBlock, TypeOK
<1>4. ASSUME NEW i \in Instances, Suspend(i)
      PROVE  TypeOK'
  BY <1>4 DEF Suspend, TypeOK
<1>5. ASSUME NEW i \in Instances, Resume(i)
      PROVE  TypeOK'
  BY <1>5 DEF Resume, TypeOK
<1>6. ASSUME NEW i \in Instances, Dispatch(i)
      PROVE  TypeOK'
  <2>1. outq[i] \in Seq(BOOLEAN) /\ outq[i] # <<>>
    BY <1>6 DEF Dispatch, TypeOK
  <2>2. Head(outq[i]) \in BOOLEAN /\ Tail(outq[i]) \in Seq(BOOLEAN)
    BY <2>1, HeadTailProperties
  <2> QED
    BY <1>6, <2>2 DEF Dispatch, TypeOK
<1>7. ASSUME NEW i \in Instances, Load(i)
      PROVE  TypeOK'
  BY <1>7 DEF Load, TypeOK
<1>8. ASSUME NEW i \in Instances, Unload(i)
      PROVE  TypeOK'
  <2>1. Told(i) \in BOOLEAN
    BY DEF Told, TypeOK
  <2>2. outq' \in [Instances -> Seq(BOOLEAN)] /\ muted' \in [Instances -> BOOLEAN]
    BY <1>8, <2>1 DEF Unload, TypeOK
  <2>3. /\ g_silent_count' \in 0..Enough /\ elapsed' \in 0..Enough
        /\ g_attenuate_on' \in {0, 1}
    BY <1>8, EnoughIsEnough, SMTT(40) DEF Unload, TypeOK
  <2>4. sink' \in [Instances -> {"out", "open", "suspended"}]
        /\ UNCHANGED <<rest, quiet, silence, loads>>
    BY <1>8 DEF Unload, TypeOK
  <2> QED
    BY <2>2, <2>3, <2>4 DEF TypeOK
<1>9. CASE UNCHANGED vars
  BY <1>9 DEF vars, TypeOK
<1> QED
  BY <1>1, <1>2, <1>3, <1>4, <1>5, <1>6, <1>7, <1>8, <1>9 DEF Next

\* The module's globals, the messages and the source keep their types.
THEOREM AttenuateTypes == Spec => []TypeOK
BY TypeInit, TypeNext, PTL DEF Spec

-----------------------------------------------------------------------------
(* Not too early.                                                          *)

\* The silence that test_volume has counted, with what it would add now, is
\* silence of every sink that is loaded.
Counted ==
    \A i \in Instances : sink[i] # "out" => Plus(g_silent_count, elapsed) <= silence[i]

LEMMA CountedInit == Init => Counted
BY DEF Init, Counted

LEMMA CountedNext ==
    ASSUME TypeOK, Counted, [Next]_vars
    PROVE  Counted'
<1> USE AttenuateAssumption
<1>1. CASE Tick
  <2>1. /\ elapsed' = Plus(elapsed, 1) /\ UNCHANGED <<sink, g_silent_count>>
        /\ \A i \in Instances : silence'[i] = Plus(silence[i], 1)
    BY <1>1 DEF Tick
  <2>2. \A s \in 0..Enough : Plus(g_silent_count, elapsed) <= s =>
              Plus(g_silent_count, Plus(elapsed, 1)) <= Plus(s, 1)
    BY EnoughIsEnough DEF TypeOK, Plus
  <2> QED
    BY <2>1, <2>2 DEF Counted, TypeOK
<1>2. ASSUME NEW i \in Instances, LoudBlock(i)
      PROVE  Counted'
  <2>1. Plus(g_silent_count, elapsed)' = 0
    BY <1>2, EnoughIsEnough, AttenuateAssumption DEF LoudBlock, Plus, Enough
  <2>2. \A j \in Instances : silence'[j] >= 0
    BY <1>2 DEF LoudBlock, TypeOK
  <2> QED
    BY <2>1, <2>2 DEF Counted
<1>3. ASSUME NEW i \in Instances, QuietBlock(i)
      PROVE  Counted'
  <2>1. Plus(g_silent_count, elapsed)' = Plus(g_silent_count, elapsed)
    BY <1>3, EnoughIsEnough DEF QuietBlock, Plus, TypeOK
  <2> QED
    BY <1>3, <2>1 DEF QuietBlock, Counted, history
<1>4. ASSUME NEW i \in Instances, Suspend(i)
      PROVE  Counted'
  <2>1. UNCHANGED Plus(g_silent_count, elapsed)
    BY <1>4 DEF Suspend, globals
  <2> QED
    BY <1>4, <2>1 DEF Suspend, TypeOK, Counted, history
<1>5. ASSUME NEW i \in Instances, Resume(i)
      PROVE  Counted'
  <2>1. UNCHANGED Plus(g_silent_count, elapsed)
    BY <1>5 DEF Resume, globals
  <2> QED
    BY <1>5, <2>1 DEF Resume, TypeOK, Counted, history
<1>6. ASSUME NEW i \in Instances, Dispatch(i)
      PROVE  Counted'
  <2>1. UNCHANGED Plus(g_silent_count, elapsed)
    BY <1>6 DEF Dispatch, globals
  <2> QED
    BY <1>6, <2>1 DEF Dispatch, TypeOK, Counted, history
<1>7. ASSUME NEW i \in Instances, Load(i)
      PROVE  Counted'
  <2>1. \A m, n \in 0..Enough : Plus(m, n) <= Enough
    BY EnoughIsEnough DEF Plus
  <2>2. UNCHANGED Plus(g_silent_count, elapsed)
    BY <1>7 DEF Load, globals
  <2> QED
    BY <1>7, <2>1, <2>2 DEF Load, TypeOK, Counted
<1>8. ASSUME NEW i \in Instances, Unload(i)
      PROVE  Counted'
  <2>1. CASE \A j \in Instances \ {i} : sink[j] = "out"
    BY <1>8, <2>1 DEF Unload, TypeOK, Counted
  <2>2. CASE ~\A j \in Instances \ {i} : sink[j] = "out"
    <3>1. UNCHANGED Plus(g_silent_count, elapsed)
      BY <1>8, <2>2 DEF Unload, globals
    <3> QED
      BY <1>8, <3>1 DEF Unload, TypeOK, Counted, history
  <2> QED
    BY <2>1, <2>2
<1>9. CASE UNCHANGED vars
  <2>1. UNCHANGED Plus(g_silent_count, elapsed)
    BY <1>9 DEF vars, globals
  <2> QED
    BY <1>9, <2>1 DEF vars, Counted, history
<1> QED
  BY <1>1, <1>2, <1>3, <1>4, <1>5, <1>6, <1>7, <1>8, <1>9 DEF Next

LEMMA UnmutesLate ==
    ASSUME TypeOK, Counted, [Next]_vars, NEW i \in Instances,
           Len(outq'[i]) > Len(outq[i]), ~outq'[i][Len(outq'[i])]
    PROVE  silence[i] >= Threshold
<1>1. \E j \in Instances : QuietBlock(j) \/ LoudBlock(j)
  <2>1. CASE \E j \in Instances : Dispatch(j) \/ Unload(j)
    <3>1. PICK j \in Instances : Dispatch(j) \/ Unload(j)
      BY <2>1
    <3>2. outq'[i] \in {outq[i], <<>>} \/ (outq[i] # <<>> /\ outq'[i] = Tail(outq[i]))
      BY <3>1 DEF Dispatch, Unload, TypeOK
    <3>3. outq[i] \in Seq(BOOLEAN) /\ Len(outq[i]) \in Nat /\ Len(<<>>) = 0
      BY DEF TypeOK
    <3>4. outq[i] # <<>> => Len(Tail(outq[i])) = Len(outq[i]) - 1
      BY <3>3, HeadTailProperties
    <3>5. Len(outq'[i]) \in {Len(outq[i]), 0, Len(outq[i]) - 1}
      <4>1. CASE outq'[i] = outq[i]
        BY <4>1
      <4>2. CASE outq'[i] = <<>>
        BY <4>2, <3>3
      <4>3. CASE outq[i] # <<>> /\ outq'[i] = Tail(outq[i])
        BY <4>3, <3>4
      <4> QED
        BY <3>2, <4>1, <4>2, <4>3
    <3> QED
      BY <3>3, <3>5
  <2>2. Len(outq[i]) \in Nat
    BY DEF TypeOK
  <2> QED
    BY <2>1, <2>2 DEF Next, vars, Tick, Suspend, Resume, Load
<1>2. PICK j \in Instances : QuietBlock(j) \/ LoudBlock(j)
  BY <1>1
<1>3. outq[i] \in Seq(BOOLEAN) /\ Len(outq[i]) \in Nat
  BY DEF TypeOK
<1>4. CASE LoudBlock(j)
  <2>1. outq' = [outq EXCEPT ![j] = Append(@, TRUE)] /\ i = j
    BY <1>3, <1>4 DEF LoudBlock, TypeOK
  <2>2. outq'[i] = Append(outq[i], TRUE)
    BY <2>1 DEF TypeOK
  <2>3. outq'[i][Len(outq'[i])] = TRUE
    BY <1>3, <2>2
  <2> QED
    BY <2>3
<1>5. CASE QuietBlock(j)
  <2>1. i = j /\ sink[i] = "open" /\ g_silent_count >= Threshold
    BY <1>3, <1>5 DEF QuietBlock, MayRender, TypeOK
  <2>2. Plus(g_silent_count, elapsed) >= Threshold
    BY <2>1, EnoughIsEnough, AttenuateAssumption DEF Plus, TypeOK
  <2>3. Plus(g_silent_count, elapsed) <= silence[i] /\ Plus(g_silent_count, elapsed) \in Nat
    <3>1. g_silent_count \in 0..Enough /\ elapsed \in 0..Enough
      BY DEF TypeOK
    <3>2. Plus(g_silent_count, elapsed) \in 0..Enough
      BY <3>1, PlusStays
    <3> QED
      BY <2>1, <3>2, EnoughIsEnough DEF Counted
  <2> QED
    BY <2>2, <2>3, AttenuateAssumption DEF TypeOK
<1> QED
  BY <1>2, <1>4, <1>5

\* The source is never let through before the silence has lasted, for any number
\* of instances that share the globals.
THEOREM NeverEarly == Spec => NoEarlyUnmute
<1>1. TypeOK /\ Counted /\ [Next]_vars =>
      [\A i \in Instances :
          Len(outq'[i]) > Len(outq[i]) /\ ~outq'[i][Len(outq'[i])]
             => silence[i] >= Threshold]_vars
  BY UnmutesLate
<1> QED
  BY <1>1, TypeInit, CountedInit, TypeNext, CountedNext, PTL DEF Spec, NoEarlyUnmute

-----------------------------------------------------------------------------
(* Not too late.                                                           *)

\* The open ticks since a loud block are in the count of silence or came after
\* it; the block that lifts the count to the threshold and the next bound them.
Soon ==
    \A i \in Instances :
        /\ sink[i] = "out" => g_attenuate_on = 0
        /\ g_attenuate_on = 1 =>
              /\ quiet[i] <= g_silent_count + elapsed
              /\ g_silent_count < Threshold => quiet[i] <= g_silent_count + rest[i]
              /\ g_silent_count >= Threshold => quiet[i] <= Threshold + Block + rest[i]

LEMMA SoonInit == Init => Soon
<1>1. Init => g_attenuate_on = 0
  BY DEF Init
<1> QED
  BY <1>1 DEF Soon

LEMMA SoonNext ==
    ASSUME NEW g, Instances = {g}, TypeOK, Soon, [Next]_vars
    PROVE  Soon'
<1>1. CASE Tick
  <2>1. \A n \in 0..Enough : Plus(n, 1) <= n + 1 /\ Plus(n, 1) >= n
                             /\ (n < Enough => Plus(n, 1) = n + 1)
    BY EnoughIsEnough DEF Plus
  <2>2. ASSUME NEW i \in Instances, g_attenuate_on = 1
        PROVE  /\ quiet'[i] <= g_silent_count + elapsed'
               /\ g_silent_count < Threshold => quiet'[i] <= g_silent_count + rest'[i]
               /\ g_silent_count >= Threshold => quiet'[i] <= Threshold + Block + rest'[i]
    <3>1. /\ quiet[i] <= g_silent_count + elapsed
          /\ g_silent_count < Threshold => quiet[i] <= g_silent_count + rest[i]
          /\ g_silent_count >= Threshold => quiet[i] <= Threshold + Block + rest[i]
      BY <2>2 DEF Soon
    <3>2. /\ elapsed' = Plus(elapsed, 1)
          /\ \/ quiet'[i] = Plus(quiet[i], 1) /\ rest'[i] = rest[i] + 1
             \/ quiet'[i] = quiet[i] /\ rest'[i] = rest[i]
      BY <1>1 DEF Tick
    <3>3. /\ quiet[i] \in 0..Enough /\ elapsed \in 0..Enough /\ g_silent_count \in 0..Enough
          /\ rest[i] \in 0..Block
      BY DEF TypeOK
    <3>4. /\ Plus(quiet[i], 1) <= quiet[i] + 1 /\ Plus(quiet[i], 1) \in 0..Enough
          /\ elapsed <= Plus(elapsed, 1) /\ Plus(elapsed, 1) \in 0..Enough
          /\ elapsed < Enough => Plus(elapsed, 1) = elapsed + 1
          /\ elapsed = Enough => Plus(elapsed, 1) = Enough
      BY <3>3, EnoughIsEnough DEF Plus
    <3> QED
      BY <3>1, <3>2, <3>3, <3>4, EnoughIsEnough, AttenuateAssumption
  <2> QED
    BY <1>1, <2>2 DEF Tick, Soon
<1>2. ASSUME NEW i \in Instances, LoudBlock(i)
      PROVE  Soon'
  <2>1. i = g /\ quiet'[i] = 0 /\ g_silent_count' = 0 /\ elapsed' = 0 /\ rest'[i] = 0
        /\ sink'[i] = "open"
    BY <1>2 DEF LoudBlock, MayRender, TypeOK
  <2> QED
    BY <2>1, AttenuateAssumption DEF Soon
<1>3. ASSUME NEW i \in Instances, QuietBlock(i)
      PROVE  Soon'
  <2> SUFFICES ASSUME g_attenuate_on' = 1 PROVE Soon'
    BY <1>3 DEF QuietBlock, Soon, MayRender
  <2>1. /\ i = g /\ sink'[i] = "open" /\ g_attenuate_on = 1 /\ g_silent_count < Threshold
        /\ g_silent_count' = Plus(g_silent_count, elapsed) /\ elapsed' = 0
        /\ rest'[i] = 0 /\ quiet' = quiet
    BY <1>3, AttenuateAssumption DEF QuietBlock, MayRender, TypeOK, history
  <2>2. /\ quiet[i] <= g_silent_count + elapsed /\ quiet[i] <= g_silent_count + rest[i]
    BY <2>1 DEF Soon
  <2>3. /\ quiet[i] \in 0..Enough /\ elapsed \in 0..Enough /\ g_silent_count \in 0..Enough
        /\ rest[i] \in 0..Block
    BY DEF TypeOK
  <2>4. quiet[i] <= Plus(g_silent_count, elapsed) /\ Plus(g_silent_count, elapsed) \in Nat
    BY <2>2, <2>3, EnoughIsEnough DEF Plus
  <2>5. quiet[i] <= Threshold + Block
    BY <2>1, <2>2, <2>3, AttenuateAssumption
  <2> QED
    BY <2>1, <2>3, <2>4, <2>5, AttenuateAssumption DEF Soon
<1>4. ASSUME NEW i \in Instances, Suspend(i)
      PROVE  Soon'
  BY <1>4 DEF Suspend, TypeOK, Soon, globals, history
<1>5. ASSUME NEW i \in Instances, Resume(i)
      PROVE  Soon'
  <2>1. i = g /\ rest'[i] = Block /\ rest[i] \in 0..Block /\ sink'[i] = "open"
        /\ sink[i] # "out" /\ UNCHANGED <<quiet, g_silent_count, elapsed, g_attenuate_on>>
        /\ quiet[i] \in Nat /\ g_silent_count \in Nat /\ elapsed \in Nat
    BY <1>5, EnoughIsEnough DEF Resume, TypeOK, history, globals
  <2> QED
    BY <2>1, AttenuateAssumption DEF Soon
<1>6. ASSUME NEW i \in Instances, Dispatch(i)
      PROVE  Soon'
  BY <1>6 DEF Dispatch, TypeOK, Soon, globals, history
<1>7. ASSUME NEW i \in Instances, Load(i)
      PROVE  Soon'
  <2>1. g_attenuate_on' = 0
    BY <1>7 DEF Load, Soon, globals
  <2> QED
    BY <2>1 DEF Soon
<1>8. ASSUME NEW i \in Instances, Unload(i)
      PROVE  Soon'
  <2>1. g_attenuate_on' = 0
    BY <1>8 DEF Unload
  <2> QED
    BY <2>1 DEF Soon
<1>9. CASE UNCHANGED vars
  BY <1>9 DEF vars, TypeOK, Soon, globals, history
<1> QED
  BY <1>1, <1>2, <1>3, <1>4, <1>5, <1>6, <1>7, <1>8, <1>9 DEF Next

\* The source is let through at the second block after the silence has lasted.
THEOREM NotLate ==
    ASSUME NEW g, Instances = {g}
    PROVE  Spec => []UnmutesInTime
<1>1. TypeOK /\ Soon => UnmutesInTime
  <2> SUFFICES ASSUME TypeOK, Soon, NEW i \in Instances, g_attenuate_on = 1
               PROVE  quiet[i] <= Threshold + 2 * Block
    BY DEF UnmutesInTime
  <2>1. rest[i] \in 0..Block /\ g_silent_count \in Nat /\ quiet[i] \in Nat
    BY EnoughIsEnough DEF TypeOK
  <2> QED
    BY <2>1, AttenuateAssumption DEF Soon
<1>2. TypeOK /\ Soon /\ [Next]_vars => Soon'
  BY SoonNext
<1> QED
  BY <1>1, <1>2, TypeInit, SoonInit, TypeNext, PTL DEF Spec

-----------------------------------------------------------------------------
(* The source follows the decisions.                                       *)

\* No element of the sequence s is like the one before it, m before the first.
Alternates(m, s) ==
    /\ s # <<>> => s[1] # m
    /\ \A k \in 1..(Len(s) - 1) : s[k] # s[k + 1]

Latest(m, s) == IF s = <<>> THEN m ELSE s[Len(s)]

LEMMA AppendAlternates ==
    ASSUME NEW S, NEW s \in Seq(S), NEW m \in S, NEW b \in S, Alternates(m, s),
           b # Latest(m, s)
    PROVE  Alternates(m, Append(s, b)) /\ Latest(m, Append(s, b)) = b
<1>1. /\ Append(s, b) \in Seq(S) /\ Len(Append(s, b)) = Len(s) + 1 /\ Len(s) \in Nat
      /\ \A k \in 1..Len(s) : Append(s, b)[k] = s[k]
      /\ Append(s, b)[Len(s) + 1] = b /\ Append(s, b) # <<>>
      /\ s = <<>> <=> Len(s) = 0
  BY AppendProperties, EmptySeq
<1> QED
  BY <1>1 DEF Alternates, Latest

LEMMA TailAlternates ==
    ASSUME NEW S, NEW s \in Seq(S), NEW m \in S, Alternates(m, s), s # <<>>
    PROVE  /\ Alternates(Head(s), Tail(s))
           /\ Latest(Head(s), Tail(s)) = Latest(m, s)
<1>1. /\ Tail(s) \in Seq(S) /\ Len(Tail(s)) = Len(s) - 1 /\ Len(s) \in Nat \ {0}
      /\ \A k \in 1..(Len(s) - 1) : Tail(s)[k] = s[k + 1]
      /\ Head(s) = s[1]
  BY HeadTailProperties, EmptySeq
<1>2. Tail(s) = <<>> <=> Len(s) = 1
  <2>1. Tail(s) = <<>> <=> Len(Tail(s)) = 0
    BY <1>1, EmptySeq
  <2> QED
    BY <1>1, <2>1
<1> QED
  BY <1>1, <1>2 DEF Alternates, Latest

Follows ==
    /\ loads = 0 =>
          /\ \A i \in Instances : sink[i] = "out" /\ outq[i] = <<>> /\ muted[i] = FALSE
          /\ g_attenuate_on = 0
    /\ loads <= 1 => \A i, j \in Instances : sink[i] # "out" /\ sink[j] # "out" => i = j
    /\ loads <= 1 => \A i \in Instances : sink[i] # "out" =>
          /\ Alternates(muted[i], outq[i])
          /\ g_attenuate_on = 1 => Latest(muted[i], outq[i]) = TRUE
          /\ g_attenuate_on = 0 => Latest(muted[i], outq[i]) = FALSE

LEMMA FollowsInit == Init => Follows
BY DEF Init, Follows

LEMMA FollowsNext ==
    ASSUME TypeOK, Follows, [Next]_vars
    PROVE  Follows'
<1>1. CASE Tick
  BY <1>1 DEF Tick, TypeOK, Follows, globals, history, MayRender
<1>2. ASSUME NEW i \in Instances, LoudBlock(i)
      PROVE  Follows'
  <2> SUFFICES ASSUME loads <= 1 PROVE Follows'
    BY <1>2 DEF LoudBlock, Follows, MayRender
  <2>1. /\ sink[i] # "out" /\ \A j \in Instances : sink[j] # "out" => i = j
        /\ UNCHANGED <<sink, muted, loads>> /\ loads # 0
    BY <1>2 DEF LoudBlock, MayRender, Follows
  <2>2. /\ outq[i] \in Seq(BOOLEAN) /\ muted[i] \in BOOLEAN /\ Alternates(muted[i], outq[i])
        /\ g_attenuate_on = 0 => Latest(muted[i], outq[i]) = FALSE
        /\ g_attenuate_on = 1 => Latest(muted[i], outq[i]) = TRUE
    BY <2>1 DEF TypeOK, Follows
  <2>3. CASE outq' = outq /\ g_attenuate_on' = g_attenuate_on
    BY <2>1, <2>2, <2>3 DEF Follows
  <2>4. CASE outq' = [outq EXCEPT ![i] = Append(@, TRUE)] /\ g_attenuate_on = 0
             /\ g_attenuate_on' = 1
    <3>1. outq'[i] = Append(outq[i], TRUE)
      BY <2>4 DEF TypeOK
    <3>2. TRUE # Latest(muted[i], outq[i]) /\ TRUE \in BOOLEAN
      BY <2>2, <2>4
    <3>3. /\ Alternates(muted[i], Append(outq[i], TRUE))
          /\ Latest(muted[i], Append(outq[i], TRUE)) = TRUE
      BY <2>2, <3>2, AppendAlternates, Zenon
    <3>4. Alternates(muted[i], outq'[i]) /\ Latest(muted[i], outq'[i]) = TRUE
      BY <3>1, <3>3
    <3> QED
      BY <2>1, <2>4, <3>4 DEF Follows
  <2> QED
    BY <1>2, <2>3, <2>4 DEF LoudBlock, TypeOK
<1>3. ASSUME NEW i \in Instances, QuietBlock(i)
      PROVE  Follows'
  <2> SUFFICES ASSUME loads <= 1 PROVE Follows'
    BY <1>3 DEF QuietBlock, Follows, MayRender
  <2>1. /\ sink[i] # "out" /\ \A j \in Instances : sink[j] # "out" => i = j
        /\ UNCHANGED <<sink, muted, loads>> /\ loads # 0
    BY <1>3 DEF QuietBlock, MayRender, Follows
  <2>2. /\ outq[i] \in Seq(BOOLEAN) /\ muted[i] \in BOOLEAN /\ Alternates(muted[i], outq[i])
        /\ g_attenuate_on = 1 => Latest(muted[i], outq[i]) = TRUE
        /\ g_attenuate_on = 0 => Latest(muted[i], outq[i]) = FALSE
    BY <2>1 DEF TypeOK, Follows
  <2>3. CASE outq' = outq /\ g_attenuate_on' = g_attenuate_on
    BY <2>1, <2>2, <2>3 DEF Follows
  <2>4. CASE outq' = [outq EXCEPT ![i] = Append(@, FALSE)] /\ g_attenuate_on = 1
             /\ g_attenuate_on' = 0
    <3>1. outq'[i] = Append(outq[i], FALSE)
      BY <2>4 DEF TypeOK
    <3>2. FALSE # Latest(muted[i], outq[i]) /\ FALSE \in BOOLEAN
      BY <2>2, <2>4
    <3>3. /\ Alternates(muted[i], Append(outq[i], FALSE))
          /\ Latest(muted[i], Append(outq[i], FALSE)) = FALSE
      BY <2>2, <3>2, AppendAlternates, Zenon
    <3>4. Alternates(muted[i], outq'[i]) /\ Latest(muted[i], outq'[i]) = FALSE
      BY <3>1, <3>3
    <3> QED
      BY <2>1, <2>4, <3>4 DEF Follows
  <2> QED
    BY <1>3, <2>3, <2>4 DEF QuietBlock, TypeOK
<1>4. ASSUME NEW i \in Instances, Suspend(i)
      PROVE  Follows'
  BY <1>4 DEF Suspend, TypeOK, Follows, globals, history, MayRender
<1>5. ASSUME NEW i \in Instances, Resume(i)
      PROVE  Follows'
  BY <1>5 DEF Resume, TypeOK, Follows, globals, history, MayRender
<1>6. ASSUME NEW i \in Instances, Dispatch(i)
      PROVE  Follows'
  <2> SUFFICES ASSUME loads <= 1 PROVE Follows'
    BY <1>6 DEF Dispatch, Follows
  <2>1. /\ outq[i] # <<>> /\ muted' = [muted EXCEPT ![i] = Head(outq[i])]
        /\ outq' = [outq EXCEPT ![i] = Tail(@)]
        /\ UNCHANGED <<sink, g_attenuate_on, loads>>
    BY <1>6 DEF Dispatch, globals
  <2>2. loads # 0
    BY <2>1 DEF Follows
  <2>3. outq'[i] = Tail(outq[i]) /\ muted'[i] = Head(outq[i])
    BY <2>1 DEF TypeOK
  <2>4. ASSUME Alternates(muted[i], outq[i])
        PROVE  /\ Alternates(muted'[i], outq'[i])
               /\ Latest(muted'[i], outq'[i]) = Latest(muted[i], outq[i])
    <3>1. outq[i] \in Seq(BOOLEAN) /\ muted[i] \in BOOLEAN
      BY DEF TypeOK
    <3> QED
      BY <2>1, <2>3, <2>4, <3>1, TailAlternates
  <2>5. \A j \in Instances \ {i} : outq'[j] = outq[j] /\ muted'[j] = muted[j]
    BY <2>1 DEF TypeOK
  <2> QED
    BY <2>1, <2>2, <2>4, <2>5 DEF Follows
<1>7. ASSUME NEW i \in Instances, Load(i)
      PROVE  Follows'
  <2>0. loads' = loads + 1 /\ loads' # 0
    BY <1>7, AttenuateAssumption DEF Load, TypeOK
  <2> SUFFICES ASSUME loads' <= 1 PROVE Follows'
    BY <2>0, Zenon DEF Follows
  <2>1. /\ loads = 0 /\ loads' = 1 /\ UNCHANGED <<g_attenuate_on, outq, muted>>
        /\ \A j \in Instances : sink'[j] # "out" => j = i
    BY <1>7, AttenuateAssumption DEF Load, TypeOK, globals, Follows
  <2>2. outq[i] = <<>> /\ muted[i] = FALSE /\ g_attenuate_on = 0
    BY <2>1 DEF Follows
  <2>3. Alternates(muted[i], outq[i]) /\ Latest(muted[i], outq[i]) = FALSE
    <3>1. Len(<<>>) = 0
      OBVIOUS
    <3> QED
      BY <2>2, <3>1 DEF Alternates, Latest
  <2> QED
    BY <2>1, <2>2, <2>3 DEF Follows
<1>8. ASSUME NEW i \in Instances, Unload(i)
      PROVE  Follows'
  BY <1>8 DEF Unload, TypeOK, Follows, globals, history, MayRender
<1>9. CASE UNCHANGED vars
  BY <1>9 DEF vars, TypeOK, Follows, globals, history, MayRender
<1> QED
  BY <1>1, <1>2, <1>3, <1>4, <1>5, <1>6, <1>7, <1>8, <1>9 DEF Next

\* While the module is loaded for the first time, the messages under way bring
\* the source to what test_volume decided last, and none says twice the same.
THEOREM FollowsDecision == Spec => []MutedFollows
<1>1. TypeOK /\ Follows => MutedFollows
  <2> SUFFICES ASSUME TypeOK, Follows, loads <= 1, NEW i \in Instances, sink[i] # "out"
               PROVE  LET said == <<muted[i]>> \o outq[i]
                      IN  /\ \A k \in 1..Len(outq[i]) : said[k] # said[k + 1]
                          /\ Told(i) <=> g_attenuate_on = 1
    BY DEF MutedFollows
  <2> DEFINE said == <<muted[i]>> \o outq[i]
  <2>1. outq[i] \in Seq(BOOLEAN) /\ muted[i] \in BOOLEAN /\ Alternates(muted[i], outq[i])
    BY DEF TypeOK, Follows
  <2>2. <<muted[i]>> \in Seq(BOOLEAN) /\ Len(<<muted[i]>>) = 1 /\ <<muted[i]>>[1] = muted[i]
    BY <2>1
  <2>3. \A k \in 1..(Len(outq[i]) + 1) : said[k] = IF k = 1 THEN muted[i] ELSE outq[i][k - 1]
    BY <2>1, <2>2, ConcatProperties
  <2>4. ASSUME NEW k \in 1..Len(outq[i])
        PROVE  said[k] # said[k + 1]
    <3>1. Len(outq[i]) \in Nat /\ k \in Nat /\ outq[i] # <<>>
      BY <2>1, EmptySeq
    <3>2. said[k + 1] = outq[i][k] /\ said[k] = IF k = 1 THEN muted[i] ELSE outq[i][k - 1]
      BY <2>3, <3>1
    <3>3. CASE k = 1
      BY <2>1, <3>1, <3>2, <3>3 DEF Alternates
    <3>4. CASE k # 1
      <4>1. k - 1 \in 1..(Len(outq[i]) - 1) /\ (k - 1) + 1 = k
        BY <3>1, <3>4
      <4>2. outq[i][k - 1] # outq[i][(k - 1) + 1]
        BY <2>1, <4>1 DEF Alternates
      <4> QED
        BY <3>2, <3>4, <4>1, <4>2
    <3> QED
      BY <3>3, <3>4
  <2>5. Told(i) <=> g_attenuate_on = 1
    <3>1. Told(i) = Latest(muted[i], outq[i])
      BY DEF Told, Latest
    <3>2. g_attenuate_on \in {0, 1}
      BY DEF TypeOK
    <3>3. CASE g_attenuate_on = 1
      BY <3>1, <3>3 DEF Follows
    <3>4. CASE g_attenuate_on = 0
      BY <3>1, <3>4 DEF Follows
    <3> QED
      BY <3>2, <3>3, <3>4
  <2> QED
    BY <2>4, <2>5
<1> QED
  BY <1>1, TypeInit, FollowsInit, TypeNext, FollowsNext, PTL DEF Spec

-----------------------------------------------------------------------------
(* Queues of messages.                                                     *)

LEMMA ElementIs ==
    ASSUME NEW S, NEW s \in Seq(S), NEW i \in DOMAIN s
    PROVE  s[i] \in S
OBVIOUS

\* What is left of a sequence without its element at i.
LEMMA RemovedOne ==
    ASSUME NEW S, NEW s \in Seq(S), NEW i \in DOMAIN s
    PROVE  /\ RemoveAt(s, i) \in Seq(S)
           /\ Len(RemoveAt(s, i)) = Len(s) - 1
           /\ \A k \in 1..(Len(s) - 1) : RemoveAt(s, i)[k] = s[IF k < i THEN k ELSE k + 1]
<1> DEFINE before == SubSeq(s, 1, i - 1)
           after == SubSeq(s, i + 1, Len(s))
<1>1. i \in 1..Len(s) /\ Len(s) \in Nat /\ \A k \in 1..Len(s) : s[k] \in S
  OBVIOUS
<1>2. /\ before \in Seq(S) /\ Len(before) = i - 1
      /\ \A k \in 1..(i - 1) : before[k] = s[k]
  BY <1>1, SubSeqProperties
<1>3. /\ after \in Seq(S) /\ Len(after) = Len(s) - i
      /\ \A k \in 1..(Len(s) - i) : after[k] = s[i + k]
  <2>1. \A k \in (i + 1)..Len(s) : s[k] \in S
    BY <1>1
  <2>2. /\ after \in Seq(S)
        /\ Len(after) = IF i + 1 <= Len(s) THEN Len(s) - (i + 1) + 1 ELSE 0
        /\ \A k \in 1..(Len(s) - (i + 1) + 1) : after[k] = s[i + 1 + k - 1]
    BY <1>1, <2>1, SubSeqProperties
  <2> QED
    BY <1>1, <2>2
<1> HIDE DEF before, after
<1>4. /\ before \o after \in Seq(S) /\ Len(before \o after) = Len(s) - 1
      /\ \A k \in 1..(Len(s) - 1) :
            (before \o after)[k] = IF k <= i - 1 THEN before[k] ELSE after[k - (i - 1)]
  <2>1. Len(before) + Len(after) = Len(s) - 1
    BY <1>1, <1>2, <1>3
  <2>2. /\ before \o after \in Seq(S) /\ Len(before \o after) = Len(before) + Len(after)
        /\ \A k \in 1..(Len(before) + Len(after)) : (before \o after)[k] =
              IF k <= Len(before) THEN before[k] ELSE after[k - Len(before)]
    BY <1>2, <1>3, ConcatProperties
  <2> QED
    BY <1>2, <2>1, <2>2
<1>5. \A k \in 1..(Len(s) - 1) : (before \o after)[k] = s[IF k < i THEN k ELSE k + 1]
  <2> TAKE k \in 1..(Len(s) - 1)
  <2>1. CASE k < i
    BY <1>1, <1>2, <1>4, <2>1
  <2>2. CASE ~(k < i)
    <3>1. k - (i - 1) \in 1..(Len(s) - i) /\ i + (k - (i - 1)) = k + 1 /\ ~(k <= i - 1)
      BY <1>1, <2>2
    <3>2. after[k - (i - 1)] = s[k + 1]
      BY <1>3, <3>1
    <3>3. (before \o after)[k] = after[k - (i - 1)]
      BY <1>4, <3>1
    <3> QED
      BY <2>2, <3>2, <3>3
  <2> QED
    BY <2>1, <2>2
<1> QED
  BY <1>4, <1>5 DEF RemoveAt, before, after

LEMMA RangeRemoved ==
    ASSUME NEW S, NEW s \in Seq(S), NEW i \in DOMAIN s
    PROVE  /\ Range(RemoveAt(s, i)) \subseteq Range(s)
           /\ Range(s) \ {s[i]} \subseteq Range(RemoveAt(s, i))
<1> DEFINE t == RemoveAt(s, i)
<1>1. i \in 1..Len(s) /\ Len(s) \in Nat /\ DOMAIN t = 1..(Len(s) - 1)
  BY RemovedOne
<1>2. \A k \in DOMAIN t : t[k] \in Range(s)
  <2> TAKE k \in DOMAIN t
  <2>1. t[k] = s[IF k < i THEN k ELSE k + 1]
    BY <1>1, RemovedOne
  <2>2. (IF k < i THEN k ELSE k + 1) \in DOMAIN s
    BY <1>1
  <2> QED
    BY <2>1, <2>2 DEF Range
<1>3. \A j \in 1..Len(s) : j # i => s[j] \in Range(t)
  <2> TAKE j \in 1..Len(s)
  <2>1. CASE j < i
    <3>1. j \in DOMAIN t /\ t[j] = s[j]
      BY <1>1, <2>1, RemovedOne
    <3> QED
      BY <3>1 DEF Range
  <2>2. CASE j > i
    <3>1. j - 1 \in DOMAIN t /\ ~(j - 1 < i) /\ (j - 1) + 1 = j
      BY <1>1, <2>2
    <3>2. t[j - 1] = s[j]
      BY <1>1, <3>1, RemovedOne
    <3> QED
      BY <3>1, <3>2 DEF Range
  <2> QED
    BY <1>1, <2>1, <2>2
<1> QED
  BY <1>1, <1>2, <1>3 DEF Range

LEMMA RangeAppended ==
    ASSUME NEW S, NEW s \in Seq(S), NEW e \in S
    PROVE  Append(s, e) \in Seq(S) /\ Range(Append(s, e)) = Range(s) \cup {e}
<1>1. /\ Append(s, e) \in Seq(S) /\ DOMAIN Append(s, e) = 1..(Len(s) + 1)
      /\ \A k \in 1..Len(s) : Append(s, e)[k] = s[k]
      /\ Append(s, e)[Len(s) + 1] = e /\ DOMAIN s = 1..Len(s) /\ Len(s) \in Nat
  BY AppendProperties
<1> QED
  BY <1>1 DEF Range

LEMMA RangeJoined ==
    ASSUME NEW S, NEW s \in Seq(S), NEW t \in Seq(S)
    PROVE  s \o t \in Seq(S) /\ Range(s \o t) = Range(s) \cup Range(t)
BY ConcatProperties, RangeConcatenation

LEMMA RangeOne == \A e : Range(<<e>>) = {e} /\ Range(<<>>) = {}
BY DEF Range

LEMMA RangeTail ==
    ASSUME NEW S, NEW s \in Seq(S), s # <<>>
    PROVE  /\ Head(s) \in S /\ Tail(s) \in Seq(S)
           /\ Range(s) = {Head(s)} \cup Range(Tail(s))
<1>1. /\ Head(s) \in S /\ Tail(s) \in Seq(S) /\ Head(s) = s[1]
      /\ DOMAIN Tail(s) = 1..(Len(s) - 1) /\ DOMAIN s = 1..Len(s) /\ Len(s) \in Nat \ {0}
      /\ \A k \in 1..(Len(s) - 1) : Tail(s)[k] = s[k + 1]
  BY HeadTailProperties, EmptySeq
<1>2. \A k \in 1..Len(s) : k # 1 => k - 1 \in 1..(Len(s) - 1) /\ (k - 1) + 1 = k
  BY <1>1
<1>3. \A k \in 1..(Len(s) - 1) : k + 1 \in 1..Len(s)
  BY <1>1
<1>4. Range(Tail(s)) \subseteq Range(s) /\ Head(s) \in Range(s)
  BY <1>1, <1>3 DEF Range
<1>5. Range(s) \subseteq {Head(s)} \cup Range(Tail(s))
  <2> SUFFICES ASSUME NEW k \in 1..Len(s), k # 1
               PROVE  s[k] \in Range(Tail(s))
    BY <1>1 DEF Range
  <2>1. k - 1 \in DOMAIN Tail(s) /\ Tail(s)[k - 1] = s[k]
    BY <1>1, <1>2
  <2> QED
    BY <2>1 DEF Range
<1> QED
  BY <1>1, <1>4, <1>5

\* e is the last of the elements of s that are in T.
LastIs(s, T, e) ==
    \E k \in DOMAIN s : s[k] = e /\ e \in T /\ \A j \in DOMAIN s : j > k => s[j] \notin T

LEMMA LastAppended ==
    ASSUME NEW S, NEW s \in Seq(S), NEW e \in S, NEW T, NEW x
    PROVE  /\ e \in T => LastIs(Append(s, e), T, e)
           /\ e \notin T /\ LastIs(s, T, x) => LastIs(Append(s, e), T, x)
<1>1. /\ DOMAIN Append(s, e) = 1..(Len(s) + 1)
      /\ \A k \in 1..Len(s) : Append(s, e)[k] = s[k]
      /\ Append(s, e)[Len(s) + 1] = e /\ DOMAIN s = 1..Len(s) /\ Len(s) \in Nat
  BY AppendProperties
<1>2. ASSUME e \in T
      PROVE  LastIs(Append(s, e), T, e)
  BY <1>1, <1>2 DEF LastIs
<1>3. ASSUME e \notin T, LastIs(s, T, x)
      PROVE  LastIs(Append(s, e), T, x)
  <2>1. PICK k \in 1..Len(s) : s[k] = x /\ x \in T /\ \A j \in 1..Len(s) : j > k => s[j] \notin T
    BY <1>1, <1>3 DEF LastIs
  <2>2. \A j \in 1..(Len(s) + 1) : j > k => Append(s, e)[j] \notin T
    BY <1>1, <1>3, <2>1
  <2> QED
    BY <1>1, <2>1, <2>2 DEF LastIs
<1> QED
  BY <1>2, <1>3

LEMMA LastOfTail ==
    ASSUME NEW S, NEW s \in Seq(S), s # <<>>, NEW T, NEW x, LastIs(s, T, x)
    PROVE  LastIs(Tail(s), T, x) \/ (Head(s) = x /\ Range(Tail(s)) \cap T = {})
<1>1. /\ Tail(s) \in Seq(S) /\ Head(s) = s[1]
      /\ DOMAIN Tail(s) = 1..(Len(s) - 1) /\ DOMAIN s = 1..Len(s) /\ Len(s) \in Nat \ {0}
      /\ \A k \in 1..(Len(s) - 1) : Tail(s)[k] = s[k + 1] /\ k + 1 \in 1..Len(s)
  BY HeadTailProperties, EmptySeq
<1>2. PICK k \in 1..Len(s) : s[k] = x /\ x \in T /\ \A j \in 1..Len(s) : j > k => s[j] \notin T
  BY <1>1 DEF LastIs
<1>3. \A j \in 1..(Len(s) - 1) : j + 1 > k => Tail(s)[j] \notin T
  BY <1>1, <1>2
<1>4. CASE k = 1
  <2>1. \A j \in 1..(Len(s) - 1) : Tail(s)[j] \notin T
    <3> TAKE j \in 1..(Len(s) - 1)
    <3>1. j + 1 > k
      BY <1>1, <1>4
    <3> QED
      BY <1>3, <3>1
  <2> QED
    BY <1>1, <1>2, <1>4, <2>1 DEF Range
<1>5. CASE k # 1
  <2>1. k - 1 \in 1..(Len(s) - 1) /\ (k - 1) + 1 = k /\ Tail(s)[k - 1] = x
    BY <1>1, <1>2, <1>5
  <2>2. \A j \in 1..(Len(s) - 1) : j > k - 1 => Tail(s)[j] \notin T
    BY <1>3
  <2> QED
    BY <1>1, <1>2, <2>1, <2>2 DEF LastIs
<1> QED
  BY <1>4, <1>5

-----------------------------------------------------------------------------
(* The radio: types.                                                       *)

\* What the media player's buttons do to the radio.
Switches ==
    /\ \E rs \in {<<>>, start, stop} : Sends(rs)
    /\ UNCHANGED <<service, statuses, start_up, RadioState, dragged, radio_history>>

RadioNext == Service \/ Client \/ Release \/ PressRadio \/ Drag \/ Switches

LEMMA RequestsAreTyped ==
    /\ <<>> \in Seq(Requests) /\ start \in Seq(Requests) /\ stop \in Seq(Requests)
    /\ \A by \in {-1, 1} : scan_start(by) \in Seq(Requests)
    /\ \A f \in Nat : <<[name |-> "set", to |-> f]>> \in Seq(Requests)
    /\ <<[name |-> "scanstop"]>> \in Seq(Requests)
BY DEF start, stop, scan_start, Requests

LEMMA BandIsTyped ==
    ASSUME RadioTypeOK
    PROVE  /\ band.min \in Nat /\ band.max \in Nat /\ band.step \in Nat \ {0}
           /\ Band.min \in Nat \ {0} /\ Band.max \in Nat /\ Band.step \in Nat \ {0}
           /\ Unknown.min \in Nat /\ Unknown.max \in Nat /\ Unknown.step \in Nat \ {0}
           /\ Grid \subseteq Nat \ {0}
BY RadioAssumption DEF RadioTypeOK, Grid

\* Every step of the home screen is one of the radio's, or a press that sends it at
\* most a start or a stop.
LEMMA RadioMoves ==
    ASSUME RadioTypeOK, [PlayerNext]_player_vars
    PROVE  RadioNext
<1>1. ASSUME UNCHANGED radio
      PROVE  RadioNext
  <2>1. requests' = requests \o <<>>
    BY <1>1, ConcatEmptySeq DEF RadioTypeOK, radio, calls
  <2> QED
    BY <1>1, <2>1 DEF RadioNext, Switches, Sends, radio, calls
<1>2. ASSUME NEW cs, NEW rs \in {<<>>, start, stop}, NEW to, NEW going, Press(cs, rs, to, going)
      PROVE  RadioNext
  BY <1>2 DEF Press, RadioNext, Switches
<1>3. CASE User
  BY <1>2, <1>3 DEF User, PressPlay, PressPrevious, PressNext, pickTrack, PressMediaPage,
     PressVolumeBar, PressFm, PressMedia, PressRadioPage, RadioNext
<1>4. CASE UNCHANGED player_vars
  BY <1>1, <1>4 DEF player_vars
<1> QED
  BY <1>1, <1>3, <1>4 DEF PlayerNext, RadioNext

LEMMA TypeOfPresses ==
    ASSUME RadioTypeOK
    PROVE  /\ tuneForward \in Seq(Requests) /\ tuneBackward \in Seq(Requests)
           /\ \A f \in Nat : setFrequency(f) \in Seq(Requests)
<1> USE RequestsAreTyped, BandIsTyped
<1>1. tuneForward \in Seq(Requests)
  <2>1. (IF frequency + band.step > band.max THEN band.max ELSE frequency + band.step) \in Nat
    BY DEF RadioTypeOK
  <2> QED
    BY <2>1 DEF tuneForward
<1>2. tuneBackward \in Seq(Requests)
  <2>1. (IF frequency - band.step < band.min THEN band.min ELSE frequency - band.step) \in Nat
    <3>1. frequency \in Nat
      BY DEF RadioTypeOK
    <3>2. frequency - band.step \in Int
      BY <3>1
    <3> QED
      BY <3>2
  <2> QED
    BY <2>1 DEF tuneBackward
<1> QED
  BY <1>1, <1>2 DEF setFrequency

LEMMA PressSends ==
    ASSUME RadioTypeOK, PressRadio
    PROVE  \E rs \in {tuneForward, tuneBackward} \cup {setFrequency(f) : f \in Presets} \cup
                     {scan_start(1), scan_start(-1), <<>>} :
              rs \in Seq(Requests) /\ Sends(rs)
BY RequestsAreTyped, TypeOfPresses, RadioAssumption DEF PressRadio

LEMMA RadioTypeInit == PlayerInit => RadioTypeOK
<1> SUFFICES ASSUME RadioInit
             PROVE  RadioTypeOK
  BY DEF PlayerInit
<1>1. tuned \in Nat /\ frequency \in Nat /\ band \in {Band, Unknown}
  BY RadioAssumption DEF RadioInit, Grid
<1>2. requests \in Seq(Requests) /\ statuses \in Seq(Statuses)
  BY DEF RadioInit
<1> QED
  BY <1>1, <1>2 DEF RadioInit, RadioTypeOK

LEMMA RadioTypeNext ==
    ASSUME RadioTypeOK, RadioNext
    PROVE  RadioTypeOK'
<1> USE DEF service, calls, start_up, RadioState, radio_history
<1>0. /\ requests \in Seq(Requests) /\ statuses \in Seq(Statuses)
      /\ \A n \in Nat : [frequency |-> n] \in Statuses
      /\ \A x \in BOOLEAN : [playing |-> x] \in Statuses
  BY DEF RadioTypeOK, Statuses
<1>1. ASSUME NEW i \in DOMAIN requests, ServiceHandles(i)
      PROVE  RadioTypeOK'
  <2> DEFINE r == requests[i]
  <2>1. r \in Requests /\ RemoveAt(requests, i) \in Seq(Requests)
    BY <1>0, RemovedOne
  <2>2. requests' = RemoveAt(requests, i) /\ UNCHANGED <<start_up, RadioState, dragged, radio_history>>
    BY <1>1 DEF ServiceHandles
  <2>3. CASE r.name = "set"
    <3>1. r.to \in Nat /\ tuned' = r.to /\ statuses' = Append(statuses, [frequency |-> r.to])
          /\ scan' = 0 /\ UNCHANGED on
      BY <1>1, <2>1, <2>3 DEF ServiceHandles, Tunes, Requests
    <3>2. statuses' \in Seq(Statuses)
      BY <1>0, <3>1, AppendProperties
    <3> QED
      BY <2>1, <2>2, <3>1, <3>2 DEF RadioTypeOK
  <2>4. CASE r.name \in {"start", "stop"}
    <3>1. on' \in BOOLEAN /\ statuses' = Append(statuses, [playing |-> on'])
          /\ scan' \in {scan, 0} /\ UNCHANGED tuned
      BY <1>1, <2>4 DEF ServiceHandles
    <3>2. statuses' \in Seq(Statuses)
      BY <1>0, <3>1, AppendProperties
    <3> QED
      BY <2>1, <2>2, <3>1, <3>2 DEF RadioTypeOK
  <2>5. CASE r.name = "scan"
    <3>1. r.by \in {-1, 1} /\ scan' \in {r.by, 0} /\ UNCHANGED <<tuned, on, statuses>>
      BY <1>1, <2>1, <2>5 DEF ServiceHandles, Requests
    <3> QED
      BY <2>1, <2>2, <3>1 DEF RadioTypeOK
  <2>6. CASE r.name = "scanstop"
    BY <1>1, <2>1, <2>2, <2>6 DEF ServiceHandles, RadioTypeOK
  <2> QED
    BY <2>1, <2>3, <2>4, <2>5, <2>6 DEF Requests
<1>2. CASE ScanStep
  <2>1. tuned' \in Nat /\ statuses' = Append(statuses, [frequency |-> tuned'])
    <3> DEFINE f == tuned + scan * Band.step
    <3>1. f \in Int
      BY BandIsTyped DEF RadioTypeOK
    <3>2. tuned' = (IF f > Band.max THEN Band.min ELSE IF f < Band.min THEN Band.max ELSE f)
          /\ statuses' = Append(statuses, [frequency |-> tuned'])
      BY <1>2 DEF ScanStep, Tunes
    <3> HIDE DEF f
    <3> QED
      BY <3>1, <3>2, BandIsTyped
  <2>2. statuses' \in Seq(Statuses)
    BY <1>0, <2>1, AppendProperties
  <2>3. scan' \in {scan, 0} /\ UNCHANGED <<on, requests, start_up, RadioState, dragged, radio_history>>
    BY <1>2 DEF ScanStep
  <2> QED
    BY <2>1, <2>2, <2>3 DEF RadioTypeOK
<1>3. CASE FetchBand \/ AnswerFrequency \/ FetchFrequency \/ FetchFails
  BY <1>3 DEF FetchBand, AnswerFrequency, FetchFrequency, FetchFails, RadioTypeOK
<1>4. CASE handleStatusEvent
  <2> DEFINE s == Head(statuses)
  <2>1. s \in Statuses /\ statuses' \in Seq(Statuses)
    BY <1>0, <1>4, HeadTailProperties DEF handleStatusEvent
  <2>2. /\ "frequency" \in DOMAIN s => s.frequency \in Nat
        /\ "frequency" \notin DOMAIN s => s.playing \in BOOLEAN
    BY <2>1 DEF Statuses
  <2>3. frequency' \in Nat /\ playing' \in BOOLEAN /\ {untold', astray'} \subseteq BOOLEAN
    BY <1>4, <2>2 DEF handleStatusEvent, RadioTypeOK
  <2>4. UNCHANGED <<service, requests, start_up, band, dragged, rounded, rushed, unheard>>
    BY <1>4 DEF handleStatusEvent
  <2> QED
    BY <2>1, <2>3, <2>4 DEF RadioTypeOK
<1>5. ASSUME NEW i \in DOMAIN requests, RequestFails(i)
      PROVE  RadioTypeOK'
  <2>1. RemoveAt(requests, i) \in Seq(Requests)
    BY <1>0, RemovedOne
  <2> QED
    BY <1>5, <2>1 DEF RequestFails, RadioTypeOK
<1>6. CASE Release
  <2>1. dragged \in Nat
    BY <1>6 DEF Release, RadioTypeOK
  <2>2. requests' \in Seq(Requests)
    BY <1>0, <1>6, <2>1, TypeOfPresses, ConcatProperties DEF Release, Sends
  <2> QED
    BY <1>6, <2>1, <2>2 DEF Release, RadioTypeOK
<1>7. CASE PressRadio
  <2>1. requests' \in Seq(Requests)
    BY <1>0, <1>7, PressSends, ConcatProperties DEF Sends
  <2> QED
    BY <1>7, <2>1 DEF PressRadio, Rushes, RadioTypeOK
<1>8. CASE Drag
  <2>1. requests' \in Seq(Requests)
    BY <1>0, <1>8, RequestsAreTyped, ConcatProperties DEF Drag, Sends
  <2>2. PICK f \in Grid, off \in {0, 1} :
           /\ dragged' = f - off /\ frequency' = f - off
           /\ rounded' = (rounded \/ off = 1)
    BY <1>8 DEF Drag
  <2>3. f - off \in Nat
    BY BandIsTyped
  <2> QED
    BY <1>8, <2>1, <2>2, <2>3 DEF Drag, Rushes, RadioTypeOK
<1>9. CASE Switches
  <2>1. requests' \in Seq(Requests)
    BY <1>0, <1>9, RequestsAreTyped, ConcatProperties DEF Switches, Sends
  <2> QED
    BY <1>9, <2>1 DEF Switches, RadioTypeOK
<1> QED
  BY <1>1, <1>2, <1>3, <1>4, <1>5, <1>6, <1>7, <1>8, <1>9 DEF RadioNext, Service, Client

-----------------------------------------------------------------------------
(* The radio: the band.                                                    *)

\* The steps of the band, counted.
LEMMA GridCounted ==
    /\ \A f \in Grid : f \in Band.min..Band.max /\ \E q \in Nat : f - Band.min = q * Band.step
    /\ \A f \in Band.min..Band.max, q \in Nat : f - Band.min = q * Band.step => f \in Grid
<1>1. Band.min \in Nat /\ Band.max \in Nat /\ Band.step \in Nat \ {0}
  BY RadioAssumption
<1>2. \A a \in Nat, s \in Nat \ {0} : a % s = 0 => \E q \in Nat : a = q * s
  BY SMTT(30)
<1>3. \A q \in Nat, s \in Nat \ {0} : (q * s) % s = 0
  BY SMTT(30)
<1>4. ASSUME NEW f \in Grid
      PROVE  f \in Band.min..Band.max /\ \E q \in Nat : f - Band.min = q * Band.step
  <2>1. f \in Band.min..Band.max /\ (f - Band.min) % Band.step = 0
    BY DEF Grid
  <2>2. f - Band.min \in Nat
    BY <1>1, <2>1
  <2> QED
    BY <1>1, <1>2, <2>1, <2>2
<1>5. ASSUME NEW f \in Band.min..Band.max, NEW q \in Nat, f - Band.min = q * Band.step
      PROVE  f \in Grid
  <2>1. (f - Band.min) % Band.step = 0
    BY <1>1, <1>3, <1>5
  <2> QED
    BY <2>1 DEF Grid
<1> QED
  BY <1>4, <1>5

\* One step of the band further, or less far.
LEMMA GridSteps ==
    /\ Band.min \in Grid
    /\ \A f \in Grid : f + Band.step <= Band.max => f + Band.step \in Grid
    /\ \A f \in Grid : f - Band.step >= Band.min => f - Band.step \in Grid
<1>1. Band.min \in Nat /\ Band.max \in Nat /\ Band.step \in Nat \ {0}
  BY RadioAssumption
<1>2. Band.min \in Grid
  <2>1. PICK f \in Grid : TRUE
    BY RadioAssumption
  <2>2. Band.min \in Band.min..Band.max /\ Band.min - Band.min = 0 * Band.step
    BY <1>1, <2>1, GridCounted
  <2> QED
    BY <2>2, GridCounted
<1>3. ASSUME NEW f \in Grid, f + Band.step <= Band.max
      PROVE  f + Band.step \in Grid
  <2>1. PICK q \in Nat : f - Band.min = q * Band.step
    BY GridCounted
  <2>2. f \in Band.min..Band.max
    BY GridCounted
  <2>3. (f + Band.step) - Band.min = (q + 1) * Band.step
    BY <1>1, <2>1, <2>2
  <2>4. f + Band.step \in Band.min..Band.max
    BY <1>1, <1>3, <2>2
  <2> QED
    BY <2>3, <2>4, GridCounted
<1>4. ASSUME NEW f \in Grid, f - Band.step >= Band.min
      PROVE  f - Band.step \in Grid
  <2>1. PICK q \in Nat : f - Band.min = q * Band.step
    BY GridCounted
  <2>2. f \in Band.min..Band.max
    BY GridCounted
  <2>3. (f - Band.step) - Band.min = (q - 1) * Band.step
    <3>1. \A m \in Nat, s \in Nat : (m - 1) * s = m * s - s
      OBVIOUS
    <3> QED
      BY <1>1, <2>1, <2>2, <3>1
  <2>4. f - Band.step \in Band.min..Band.max
    BY <1>1, <1>4, <2>2
  <2>5. q # 0
    BY <1>1, <1>4, <2>1, <2>2
  <2> QED
    BY <2>3, <2>4, <2>5, GridCounted
<1> QED
  BY <1>2, <1>3, <1>4

\* What a press makes of a frequency of the band is one.
LEMMA GridPresses ==
    ASSUME RadioTypeOK, Band.max \in Grid, band = Band, frequency \in Grid
    PROVE  \A rs \in {tuneForward, tuneBackward} \cup {setFrequency(f) : f \in Nat} :
              \A r \in Range(rs) : r.name = "set" => r.to \in Grid
<1>1. Band.min \in Nat /\ Band.max \in Nat /\ Band.step \in Nat \ {0} /\ frequency \in Nat
  BY RadioAssumption DEF RadioTypeOK
<1>2. \A r \in Range(tuneForward) : r.name = "set" => r.to \in Grid
  <2>1. CASE frequency >= Band.max
    BY <2>1, RangeOne DEF tuneForward
  <2>2. CASE ~(frequency >= Band.max)
    <3> DEFINE to == IF frequency + Band.step > Band.max THEN Band.max ELSE frequency + Band.step
    <3>1. to \in Grid
      BY <1>1, GridSteps
    <3>2. tuneForward = <<[name |-> "set", to |-> to]>>
      BY <2>2 DEF tuneForward
    <3> HIDE DEF to
    <3> QED
      BY <3>1, <3>2, RangeOne
  <2> QED
    BY <2>1, <2>2
<1>3. \A r \in Range(tuneBackward) : r.name = "set" => r.to \in Grid
  <2>1. CASE frequency <= Band.min
    BY <2>1, RangeOne DEF tuneBackward
  <2>2. CASE ~(frequency <= Band.min)
    <3> DEFINE to == IF frequency - Band.step < Band.min THEN Band.min ELSE frequency - Band.step
    <3>1. to \in Grid
      BY <1>1, GridSteps
    <3>2. tuneBackward = <<[name |-> "set", to |-> to]>>
      BY <2>2 DEF tuneBackward
    <3> HIDE DEF to
    <3> QED
      BY <3>1, <3>2, RangeOne
  <2> QED
    BY <2>1, <2>2
<1>4. ASSUME NEW f \in Nat
      PROVE  \A r \in Range(setFrequency(f)) : r.name = "set" => r.to \in Grid
  <2>1. CASE f < Band.min \/ f > Band.max \/ (f - Band.min) % Band.step # 0
    BY <2>1, RangeOne DEF setFrequency
  <2>2. CASE ~(f < Band.min \/ f > Band.max \/ (f - Band.min) % Band.step # 0)
    <3>1. f \in Grid
      BY <1>1, <2>2 DEF Grid
    <3>2. setFrequency(f) = <<[name |-> "set", to |-> f]>>
      BY <2>2 DEF setFrequency
    <3> QED
      BY <3>1, <3>2, RangeOne
  <2> QED
    BY <2>1, <2>2
<1> QED
  BY <1>2, <1>3, <1>4

\* The frequency shown is of the band once both are known, and so is all that was
\* asked for, tuned or told since.
BandKnown ==
    /\ fetch \in {"frequency", "done"} => band = Band
    /\ reply # None => fetch = "frequency"

AllInBand ==
    ~rounded /\ ~rushed =>
        /\ tuned \in Grid /\ {reply, dragged} \subseteq Grid \cup {None}
        /\ fetch = "done" => frequency \in Grid
        /\ \A s \in Range(statuses) : "frequency" \in DOMAIN s => s.frequency \in Grid
        /\ \A r \in Range(requests) : r.name = "set" => r.to \in Grid

LEMMA BandInit == PlayerInit => BandKnown /\ AllInBand
BY RangeOne, RadioAssumption DEF PlayerInit, RadioInit, BandKnown, AllInBand

LEMMA BandKnownNext ==
    ASSUME RadioTypeOK, BandKnown, RadioNext
    PROVE  BandKnown'
<1> USE DEF BandKnown, start_up, RadioState
<1>1. ASSUME NEW i \in DOMAIN requests, ServiceHandles(i) \/ RequestFails(i)
      PROVE  BandKnown'
  BY <1>1 DEF ServiceHandles, RequestFails
<1>2. CASE ScanStep
  BY <1>2 DEF ScanStep
<1>3. CASE FetchBand
  BY <1>3 DEF FetchBand
<1>4. CASE AnswerFrequency
  BY <1>4 DEF AnswerFrequency
<1>5. CASE FetchFrequency
  BY <1>5 DEF FetchFrequency
<1>6. CASE FetchFails
  BY <1>6 DEF FetchFails
<1>7. CASE handleStatusEvent
  BY <1>7 DEF handleStatusEvent
<1>8. CASE Release
  BY <1>8 DEF Release
<1>9. CASE PressRadio
  BY <1>9 DEF PressRadio
<1>10. CASE Drag
  BY <1>10 DEF Drag
<1>11. CASE Switches
  BY <1>11 DEF Switches
<1> QED
  BY <1>1, <1>2, <1>3, <1>4, <1>5, <1>6, <1>7, <1>8, <1>9, <1>10, <1>11
     DEF RadioNext, Service, Client

\* What is sent is added to what is under way.
LEMMA SentInBand ==
    ASSUME RadioTypeOK, NEW rs \in Seq(Requests), Sends(rs),
           \A r \in Range(requests) \cup Range(rs) : r.name = "set" => r.to \in Grid
    PROVE  \A r \in Range(requests)' : r.name = "set" => r.to \in Grid
BY RangeJoined DEF Sends, RadioTypeOK

LEMMA AllInBandNext ==
    ASSUME RadioTypeOK, BandKnown, AllInBand, RadioNext, Band.max \in Grid
    PROVE  AllInBand'
<1> USE DEF service, calls, start_up, RadioState, radio_history
<1> SUFFICES ASSUME ~rounded', ~rushed'
             PROVE  AllInBand'
  BY DEF AllInBand
<1>0. /\ ~rounded /\ ~rushed
      /\ requests \in Seq(Requests) /\ statuses \in Seq(Statuses)
      /\ \A n \in Nat : [frequency |-> n] \in Statuses
      /\ \A x \in BOOLEAN : [playing |-> x] \in Statuses
      /\ Grid \subseteq Nat
  BY BandIsTyped DEF RadioTypeOK, Statuses, RadioNext, Service, Client, ServiceHandles, ScanStep,
     FetchBand, AnswerFrequency, FetchFrequency, FetchFails, handleStatusEvent, RequestFails,
     Release, PressRadio, Rushes, Drag, Switches
<1>1. ASSUME NEW f \in Grid, statuses' = Append(statuses, [frequency |-> f])
      PROVE  \A s \in Range(statuses)' : "frequency" \in DOMAIN s => s.frequency \in Grid
  BY <1>0, <1>1, RangeAppended DEF AllInBand
<1>2. ASSUME NEW x \in BOOLEAN, statuses' = Append(statuses, [playing |-> x])
      PROVE  \A s \in Range(statuses)' : "frequency" \in DOMAIN s => s.frequency \in Grid
  BY <1>0, <1>2, RangeAppended DEF AllInBand
<1>3. ASSUME NEW i \in DOMAIN requests, requests' = RemoveAt(requests, i)
      PROVE  \A r \in Range(requests)' : r.name = "set" => r.to \in Grid
  BY <1>0, <1>3, RangeRemoved DEF AllInBand
<1>4. ASSUME NEW i \in DOMAIN requests, ServiceHandles(i)
      PROVE  AllInBand'
  <2> DEFINE r == requests[i]
  <2>1. r \in Requests /\ r \in Range(requests)
    BY <1>0 DEF Range
  <2>2. requests' = RemoveAt(requests, i) /\ UNCHANGED <<start_up, RadioState, dragged, radio_history>>
    BY <1>4 DEF ServiceHandles
  <2>3. CASE r.name = "set"
    <3>1. r.to \in Grid
      BY <1>0, <2>1, <2>3 DEF AllInBand
    <3>2. tuned' = r.to /\ statuses' = Append(statuses, [frequency |-> r.to])
      BY <1>4, <2>3 DEF ServiceHandles, Tunes
    <3> QED
      BY <1>0, <1>1, <1>3, <2>2, <3>1, <3>2 DEF AllInBand
  <2>4. CASE r.name \in {"start", "stop"}
    <3>1. on' \in BOOLEAN /\ statuses' = Append(statuses, [playing |-> on']) /\ UNCHANGED tuned
      BY <1>4, <2>4 DEF ServiceHandles
    <3> QED
      BY <1>0, <1>2, <1>3, <2>2, <3>1 DEF AllInBand
  <2>5. CASE r.name \in {"scan", "scanstop"}
    <3>1. UNCHANGED <<tuned, statuses>>
      BY <1>4, <2>5 DEF ServiceHandles
    <3> QED
      BY <1>0, <1>3, <2>2, <3>1 DEF AllInBand
  <2> QED
    BY <2>1, <2>3, <2>4, <2>5 DEF Requests
<1>5. CASE ScanStep
  <2> DEFINE f == tuned + scan * Band.step
  <2>1. /\ tuned' = (IF f > Band.max THEN Band.min ELSE IF f < Band.min THEN Band.max ELSE f)
        /\ statuses' = Append(statuses, [frequency |-> tuned'])
        /\ scan \in {-1, 1} /\ tuned \in Grid
        /\ UNCHANGED <<requests, start_up, RadioState, dragged, radio_history>>
    BY <1>0, <1>5 DEF ScanStep, Tunes, AllInBand, RadioTypeOK
  <2>2. CASE scan = 1
    <3>1. f = tuned + Band.step /\ tuned \in Band.min..Band.max
      BY <1>0, <2>1, <2>2, BandIsTyped DEF Grid
    <3> HIDE DEF f
    <3>2. tuned' \in Grid
      BY <2>1, <3>1, GridSteps, BandIsTyped
    <3> QED
      BY <1>0, <1>1, <2>1, <3>2 DEF AllInBand
  <2>3. CASE scan = -1
    <3>1. f = tuned - Band.step /\ tuned \in Band.min..Band.max
      BY <1>0, <2>1, <2>3, BandIsTyped DEF Grid
    <3> HIDE DEF f
    <3>2. tuned' \in Grid
      BY <2>1, <3>1, GridSteps, BandIsTyped
    <3> QED
      BY <1>0, <1>1, <2>1, <3>2 DEF AllInBand
  <2> QED
    BY <2>1, <2>2, <2>3
<1>6. CASE FetchBand \/ AnswerFrequency \/ FetchFails
  BY <1>0, <1>6 DEF FetchBand, AnswerFrequency, FetchFails, AllInBand
<1>7. CASE FetchFrequency
  BY <1>0, <1>7 DEF FetchFrequency, AllInBand
<1>8. CASE handleStatusEvent
  <2>1. Head(statuses) \in Range(statuses) /\ Range(statuses)' \subseteq Range(statuses)
    BY <1>0, <1>8, RangeTail DEF handleStatusEvent
  <2>2. frequency' \in Grid \cup {frequency}
    BY <1>0, <1>8, <2>1 DEF handleStatusEvent, AllInBand
  <2> QED
    BY <1>0, <1>8, <2>1, <2>2 DEF handleStatusEvent, AllInBand
<1>9. ASSUME NEW i \in DOMAIN requests, RequestFails(i)
      PROVE  AllInBand'
  BY <1>0, <1>3, <1>9 DEF RequestFails, AllInBand
<1>10. CASE Release
  <2>1. dragged \in Grid
    BY <1>0, <1>10 DEF Release, AllInBand
  <2>2. setFrequency(dragged) \in {<<>>, <<[name |-> "set", to |-> dragged]>>}
    BY DEF setFrequency
  <2>3. \A r \in Range(requests)' : r.name = "set" => r.to \in Grid
    <3>1. /\ setFrequency(dragged) \in Seq(Requests) /\ Sends(setFrequency(dragged))
          /\ \A r \in Range(setFrequency(dragged)) : r.name = "set" => r.to \in Grid
      <4>1. setFrequency(dragged) \in Seq(Requests) /\ Sends(setFrequency(dragged))
        BY <1>0, <1>10, <2>1, <2>2, RequestsAreTyped DEF Release
      <4>2. CASE setFrequency(dragged) = <<>>
        BY <4>1, <4>2, RangeOne
      <4>3. CASE setFrequency(dragged) = <<[name |-> "set", to |-> dragged]>>
        BY <2>1, <4>1, <4>3, RangeOne
      <4> QED
        BY <2>2, <4>1, <4>2, <4>3
    <3> QED
      BY <1>0, <3>1, SentInBand DEF AllInBand
  <2> QED
    BY <1>0, <1>10, <2>1, <2>3 DEF Release, AllInBand
<1>11. CASE PressRadio
  <2>1. fetch = "done" /\ band = Band /\ frequency \in Grid
    BY <1>0, <1>11 DEF PressRadio, Rushes, BandKnown, AllInBand
  <2>2. \A r \in Range(requests)' : r.name = "set" => r.to \in Grid
    <3>1. PICK rs \in {tuneForward, tuneBackward} \cup {setFrequency(f) : f \in Presets} \cup
                      {scan_start(1), scan_start(-1), <<>>} : rs \in Seq(Requests) /\ Sends(rs)
      BY <1>11, PressSends
    <3>2. \A r \in Range(rs) : r.name = "set" => r.to \in Grid
      BY <2>1, RadioAssumption, GridPresses, RangeOne DEF scan_start
    <3> QED
      BY <1>0, <3>1, <3>2, SentInBand DEF AllInBand
  <2> QED
    BY <1>0, <1>11, <2>2 DEF PressRadio, AllInBand
<1>12. CASE Drag
  <2>1. dragged' \in Grid /\ frequency' \in Grid
    <3>1. PICK f \in Grid, off \in {0, 1} :
             /\ dragged' = f - off /\ frequency' = f - off
             /\ rounded' = (rounded \/ off = 1)
      BY <1>12 DEF Drag
    <3>2. off = 0
      BY <3>1
    <3> QED
      BY <1>0, <3>1, <3>2
  <2>2. \A r \in Range(requests)' : r.name = "set" => r.to \in Grid
    <3> DEFINE rs == <<[name |-> "scanstop"]>>
    <3>1. rs \in Seq(Requests) /\ Sends(rs) /\ \A r \in Range(rs) : r.name # "set"
      BY <1>12, RequestsAreTyped, RangeOne DEF Drag
    <3> HIDE DEF rs
    <3> QED
      BY <1>0, <3>1, SentInBand DEF AllInBand
  <2> QED
    BY <1>0, <1>12, <2>1, <2>2 DEF Drag, AllInBand
<1>13. CASE Switches
  <2>1. \A r \in Range(requests)' : r.name = "set" => r.to \in Grid
    <3>1. PICK rs \in {<<>>, start, stop} : Sends(rs)
      BY <1>13 DEF Switches
    <3>2. rs \in Seq(Requests) /\ \A r \in Range(rs) : r.name # "set"
      <4>1. CASE rs = <<>>
        BY <4>1, RequestsAreTyped, RangeOne
      <4>2. CASE rs = start
        BY <4>2, RequestsAreTyped, RangeOne DEF start
      <4>3. CASE rs = stop
        BY <4>3, RequestsAreTyped, RangeOne DEF stop
      <4> QED
        BY <4>1, <4>2, <4>3
    <3> QED
      BY <1>0, <3>1, <3>2, SentInBand DEF AllInBand
  <2> QED
    BY <1>0, <1>13, <2>1 DEF Switches, AllInBand
<1> QED
  BY <1>4, <1>5, <1>6, <1>7, <1>8, <1>9, <1>10, <1>11, <1>12, <1>13
     DEF RadioNext, Service, Client

\* The service is asked for frequencies of its band only, if its band ends on one of
\* its steps.
THEOREM TunesInBandHolds == ASSUME Band.max \in Grid PROVE PlayerSpec => []TunesInBand
<1>1. RadioTypeOK /\ BandKnown /\ AllInBand /\ [PlayerNext]_player_vars
         => (RadioTypeOK /\ BandKnown /\ AllInBand)'
  BY RadioMoves, RadioTypeNext, BandKnownNext, AllInBandNext
<1>2. AllInBand => TunesInBand
  BY DEF AllInBand, TunesInBand, Range
<1> QED
  BY <1>1, <1>2, RadioTypeInit, BandInit, PTL DEF PlayerSpec

-----------------------------------------------------------------------------
(* The radio: what it shows.                                               *)

Frequencies == [frequency : Nat]
Playings == [playing : BOOLEAN]

\* Whether the tuner plays is what the last status says, or what is shown already,
\* unless nothing has told of it.
PlayingHeard ==
    \/ Range(statuses) \cap Playings = {} /\ (~untold => playing = on)
    \/ LastIs(statuses, Playings, [playing |-> on])

\* So is its frequency, once it was asked for and unless what is shown is known to be
\* astray or a request is on its way.
FrequencyHeard ==
    \/ /\ Range(statuses) \cap Frequencies = {}
       /\ fetch \in {"done", "failed"} /\ ~astray /\ (\A r \in Range(requests) : r.name # "set")
             => frequency = tuned
    \/ LastIs(statuses, Frequencies, [frequency |-> tuned])

LEMMA HeardInit == PlayerInit => PlayingHeard /\ FrequencyHeard
<1> SUFFICES ASSUME RadioInit
             PROVE  PlayingHeard /\ FrequencyHeard
  BY DEF PlayerInit
<1>1. on \in BOOLEAN /\ untold = on /\ playing = FALSE /\ Range(statuses) = {} /\ fetch = "band"
  BY RangeOne DEF RadioInit
<1>2. ~untold => playing = on
  <2>1. CASE on = TRUE
    BY <1>1, <2>1
  <2>2. CASE on = FALSE
    BY <1>1, <2>2
  <2> QED
    BY <1>1, <2>1, <2>2
<1> QED
  BY <1>1, <1>2 DEF PlayingHeard, FrequencyHeard

\* A status says one of the two.
LEMMA StatusesAreOne ==
    /\ Statuses = Frequencies \cup Playings /\ Frequencies \cap Playings = {}
    /\ \A n \in Nat : [frequency |-> n] \in Frequencies
    /\ \A x \in BOOLEAN : [playing |-> x] \in Playings
    /\ \A s \in Frequencies : "frequency" \in DOMAIN s /\ s.frequency \in Nat
    /\ \A s \in Playings : "frequency" \notin DOMAIN s /\ s.playing \in BOOLEAN
<1>1. /\ \A s \in Frequencies : "frequency" \in DOMAIN s /\ s.frequency \in Nat
      /\ \A s \in Playings : "frequency" \notin DOMAIN s /\ s.playing \in BOOLEAN
  BY DEF Frequencies, Playings
<1>2. Statuses = Frequencies \cup Playings /\ Frequencies \cap Playings = {}
  BY <1>1 DEF Statuses, Frequencies, Playings
<1> QED
  BY <1>1, <1>2 DEF Frequencies, Playings

\* The two after a status of each kind was sent, and after one was handled.
LEMMA HeardTunes ==
    ASSUME RadioTypeOK, PlayingHeard, NEW f \in Nat, Tunes(f), UNCHANGED <<on, playing, untold>>
    PROVE  PlayingHeard' /\ FrequencyHeard'
<1> DEFINE e == [frequency |-> f]
<1>1. /\ statuses \in Seq(Statuses) /\ e \in Statuses /\ e \in Frequencies /\ e \notin Playings
      /\ statuses' = Append(statuses, e) /\ tuned' = f
  BY StatusesAreOne DEF RadioTypeOK, Tunes
<1> HIDE DEF e
<1>2. LastIs(statuses', Frequencies, e)
  BY <1>1, LastAppended
<1>3. LastIs(statuses', Frequencies, [frequency |-> tuned'])
  BY <1>1, <1>2 DEF e
<1>4. CASE LastIs(statuses, Playings, [playing |-> on])
  <2>1. LastIs(statuses', Playings, [playing |-> on])
    BY <1>1, <1>4, LastAppended
  <2> QED
    BY <1>3, <2>1 DEF PlayingHeard, FrequencyHeard
<1>5. CASE Range(statuses) \cap Playings = {} /\ (~untold => playing = on)
  <2>1. Range(statuses') \cap Playings = {}
    BY <1>1, <1>5, RangeAppended
  <2> QED
    BY <1>3, <1>5, <2>1 DEF PlayingHeard, FrequencyHeard
<1> QED
  BY <1>4, <1>5 DEF PlayingHeard

LEMMA HeardSwitches ==
    ASSUME RadioTypeOK, FrequencyHeard, on' \in BOOLEAN,
           statuses' = Append(statuses, [playing |-> on']),
           UNCHANGED <<tuned, frequency, fetch, astray>>,
           \A r \in Range(requests) : r.name = "set" => r \in Range(requests)'
    PROVE  PlayingHeard' /\ FrequencyHeard'
<1> DEFINE e == [playing |-> on']
<1>1. /\ statuses \in Seq(Statuses) /\ e \in Statuses /\ e \in Playings /\ e \notin Frequencies
      /\ statuses' = Append(statuses, e)
  BY StatusesAreOne DEF RadioTypeOK
<1> HIDE DEF e
<1>2. LastIs(statuses', Playings, e)
  BY <1>1, LastAppended
<1>3. LastIs(statuses', Playings, [playing |-> on'])
  BY <1>2 DEF e
<1>4. CASE LastIs(statuses, Frequencies, [frequency |-> tuned])
  <2>1. LastIs(statuses', Frequencies, [frequency |-> tuned])
    BY <1>1, <1>4, LastAppended
  <2> QED
    BY <1>3, <2>1 DEF PlayingHeard, FrequencyHeard
<1>5. CASE ~LastIs(statuses, Frequencies, [frequency |-> tuned])
  <2>1. Range(statuses') \cap Frequencies = {}
    BY <1>1, <1>5, RangeAppended DEF FrequencyHeard
  <2> QED
    BY <1>3, <1>5, <2>1 DEF PlayingHeard, FrequencyHeard
<1> QED
  BY <1>4, <1>5

LEMMA HeardHandled ==
    ASSUME RadioTypeOK, PlayingHeard, FrequencyHeard, handleStatusEvent
    PROVE  PlayingHeard' /\ FrequencyHeard'
<1> USE DEF service, calls, start_up, RadioState, radio_history
<1> DEFINE s == Head(statuses)
<1>1. /\ statuses \in Seq(Statuses) /\ statuses # <<>> /\ statuses' = Tail(statuses)
      /\ s \in Statuses /\ Range(statuses) = {s} \cup Range(statuses')
      /\ UNCHANGED <<tuned, on, requests, fetch>>
  BY RangeTail DEF handleStatusEvent, RadioTypeOK
<1>2. CASE s \in Frequencies
  <2>1. frequency' = s.frequency /\ astray' = FALSE /\ UNCHANGED <<playing, untold>> /\ s \notin Playings
    BY <1>2, StatusesAreOne DEF handleStatusEvent
  <2>2. PlayingHeard'
    <3>1. CASE LastIs(statuses, Playings, [playing |-> on])
      <4>1. LastIs(statuses', Playings, [playing |-> on]) \/ s = [playing |-> on]
        BY <1>1, <3>1, LastOfTail
      <4>2. [playing |-> on] \in Playings
        BY StatusesAreOne DEF RadioTypeOK
      <4> QED
        BY <1>1, <2>1, <4>1, <4>2 DEF PlayingHeard
    <3> QED
      BY <1>1, <2>1, <3>1 DEF PlayingHeard
  <2>3. LastIs(statuses, Frequencies, [frequency |-> tuned])
    BY <1>1, <1>2 DEF FrequencyHeard
  <2>4. \/ LastIs(statuses', Frequencies, [frequency |-> tuned])
        \/ s = [frequency |-> tuned] /\ Range(statuses') \cap Frequencies = {}
    BY <1>1, <2>3, LastOfTail
  <2> QED
    BY <1>1, <2>1, <2>2, <2>4 DEF FrequencyHeard
<1>3. CASE s \in Playings
  <2>1. playing' = s.playing /\ UNCHANGED <<frequency, astray>> /\ s \notin Frequencies
    BY <1>3, StatusesAreOne DEF handleStatusEvent
  <2>2. FrequencyHeard'
    <3>1. CASE LastIs(statuses, Frequencies, [frequency |-> tuned])
      <4>1. LastIs(statuses', Frequencies, [frequency |-> tuned]) \/ s = [frequency |-> tuned]
        BY <1>1, <3>1, LastOfTail
      <4>2. [frequency |-> tuned] \in Frequencies
        BY StatusesAreOne DEF RadioTypeOK
      <4> QED
        BY <1>1, <2>1, <4>1, <4>2 DEF FrequencyHeard
    <3> QED
      BY <1>1, <2>1, <3>1 DEF FrequencyHeard
  <2>3. LastIs(statuses, Playings, [playing |-> on])
    BY <1>1, <1>3 DEF PlayingHeard
  <2>4. \/ LastIs(statuses', Playings, [playing |-> on])
        \/ s = [playing |-> on] /\ Range(statuses') \cap Playings = {}
    BY <1>1, <2>3, LastOfTail
  <2> QED
    BY <1>1, <2>1, <2>2, <2>4 DEF PlayingHeard
<1> QED
  BY <1>1, <1>2, <1>3, StatusesAreOne

LEMMA HeardNext ==
    ASSUME RadioTypeOK, PlayingHeard, FrequencyHeard, RadioNext
    PROVE  PlayingHeard' /\ FrequencyHeard'
<1> USE DEF service, calls, start_up, RadioState, radio_history
<1>0. requests \in Seq(Requests)
  BY DEF RadioTypeOK
<1>1. ASSUME NEW i \in DOMAIN requests, ServiceHandles(i)
      PROVE  PlayingHeard' /\ FrequencyHeard'
  <2> DEFINE r == requests[i]
  <2>1. /\ r \in Requests /\ requests' = RemoveAt(requests, i)
        /\ Range(requests) \ {r} \subseteq Range(requests)'
        /\ UNCHANGED <<start_up, RadioState, dragged, radio_history>>
    BY <1>0, <1>1, RangeRemoved DEF ServiceHandles
  <2>2. CASE r.name = "set"
    <3>1. r.to \in Nat /\ Tunes(r.to) /\ UNCHANGED on
      BY <1>1, <2>1, <2>2 DEF ServiceHandles, Requests
    <3> QED
      BY <2>1, <3>1, HeardTunes
  <2>3. CASE r.name \in {"start", "stop"}
    <3>1. on' \in BOOLEAN /\ statuses' = Append(statuses, [playing |-> on']) /\ UNCHANGED tuned
      BY <1>1, <2>3 DEF ServiceHandles
    <3>2. \A q \in Range(requests) : q.name = "set" => q \in Range(requests)'
      BY <2>1, <2>3
    <3> QED
      BY <2>1, <3>1, <3>2, HeardSwitches
  <2>4. CASE r.name \in {"scan", "scanstop"}
    <3>1. UNCHANGED <<tuned, on, statuses>>
      BY <1>1, <2>4 DEF ServiceHandles
    <3>2. \A q \in Range(requests) : q.name = "set" => q \in Range(requests)'
      BY <2>1, <2>4
    <3> QED
      BY <2>1, <3>1, <3>2 DEF PlayingHeard, FrequencyHeard
  <2> QED
    BY <2>1, <2>2, <2>3, <2>4 DEF Requests
<1>2. CASE ScanStep
  <2>1. PICK f : Tunes(f)
    BY <1>2 DEF ScanStep
  <2>2. f \in Nat
    BY <2>1, RadioTypeNext DEF RadioTypeOK, RadioNext, Service, Tunes
  <2> QED
    BY <1>2, <2>1, <2>2, HeardTunes DEF ScanStep
<1>3. CASE FetchBand \/ AnswerFrequency \/ FetchFails
  BY <1>3 DEF FetchBand, AnswerFrequency, FetchFails, PlayingHeard, FrequencyHeard
<1>4. CASE FetchFrequency
  BY <1>4 DEF FetchFrequency, PlayingHeard, FrequencyHeard
<1>5. CASE handleStatusEvent
  BY <1>5, HeardHandled
<1>6. ASSUME NEW i \in DOMAIN requests, RequestFails(i)
      PROVE  PlayingHeard' /\ FrequencyHeard'
  <2>1. Range(requests) \ {requests[i]} \subseteq Range(requests)'
    BY <1>0, <1>6, RangeRemoved DEF RequestFails
  <2> QED
    BY <1>6, <2>1 DEF RequestFails, PlayingHeard, FrequencyHeard
<1>7. ASSUME NEW rs \in Seq(Requests), Sends(rs)
      PROVE  Range(requests) \subseteq Range(requests)' /\ Range(rs) \subseteq Range(requests)'
  BY <1>0, <1>7, RangeJoined DEF Sends
<1>8. CASE Release
  <2>1. dragged \in Nat /\ setFrequency(dragged) \in Seq(Requests)
    BY <1>8, TypeOfPresses DEF Release, RadioTypeOK
  <2>2. Range(setFrequency(dragged)) \subseteq Range(requests)'
    BY <1>7, <1>8, <2>1 DEF Release
  <2>3. CASE setFrequency(dragged) = <<>>
    BY <1>8, <2>3 DEF Release, PlayingHeard, FrequencyHeard
  <2>4. CASE setFrequency(dragged) # <<>>
    <3>1. setFrequency(dragged) = <<[name |-> "set", to |-> dragged]>>
      BY <2>4 DEF setFrequency
    <3>2. \E r \in Range(requests)' : r.name = "set"
      BY <2>2, <3>1, RangeOne
    <3> QED
      BY <1>8, <3>2 DEF Release, PlayingHeard, FrequencyHeard
  <2> QED
    BY <2>3, <2>4
<1>9. CASE PressRadio
  <2>1. Range(requests) \subseteq Range(requests)'
    BY <1>7, <1>9, PressSends
  <2> QED
    BY <1>9, <2>1 DEF PressRadio, PlayingHeard, FrequencyHeard
<1>10. CASE Drag
  BY <1>10 DEF Drag, PlayingHeard, FrequencyHeard
<1>11. CASE Switches
  <2>1. Range(requests) \subseteq Range(requests)'
    BY <1>7, <1>11, RequestsAreTyped DEF Switches
  <2> QED
    BY <1>11, <2>1 DEF Switches, PlayingHeard, FrequencyHeard
<1> QED
  BY <1>1, <1>2, <1>3, <1>4, <1>5, <1>6, <1>8, <1>9, <1>10, <1>11 DEF RadioNext, Service, Client

\* When nothing is under way the screen shows the tuner.
THEOREM ShowsTheTunerHolds == PlayerSpec => []ShowsTheTuner
<1>1. RadioTypeOK /\ PlayingHeard /\ FrequencyHeard /\ [PlayerNext]_player_vars
         => (RadioTypeOK /\ PlayingHeard /\ FrequencyHeard)'
  BY RadioMoves, RadioTypeNext, HeardNext
<1>2. PlayingHeard /\ FrequencyHeard => ShowsTheTuner
  BY RangeOne DEF PlayingHeard, FrequencyHeard, LastIs, ShowsTheTuner, RadioSettled
<1> QED
  BY <1>1, <1>2, RadioTypeInit, HeardInit, PTL DEF PlayerSpec

\* The radio's state, its requests and its statuses keep their types.
THEOREM RadioTypes == PlayerSpec => []RadioTypeOK
<1>1. RadioTypeOK /\ [PlayerNext]_player_vars => RadioTypeOK'
  BY RadioMoves, RadioTypeNext
<1> QED
  BY <1>1, RadioTypeInit, PTL DEF PlayerSpec

-----------------------------------------------------------------------------
(* The media player: types.                                                *)

LEMMA PositionsOf ==
    /\ Positions \subseteq Nat /\ None \notin Nat /\ None \notin Positions /\ None # NoArt
    /\ None \notin Songs /\ NoArt \notin Songs
    /\ \A q \in Queues \cup {<<>>} :
          /\ q \in Seq(Songs) /\ Len(q) \in Nat
          /\ \A p \in Nat : p < Len(q) => p \in Positions /\ q[p + 1] \in Songs
          /\ q # <<>> => Len(q) > 0 /\ Head(q) = q[1]
<1>1. ASSUME NEW q \in Queues
      PROVE  q \in Seq(Songs) /\ Len(q) \in Nat
  BY PlayerAssumption, LenProperties
<1>2. Positions \subseteq Nat
  BY <1>1 DEF Positions
<1>3. ASSUME NEW q \in Queues \cup {<<>>}
      PROVE  /\ q \in Seq(Songs) /\ Len(q) \in Nat
             /\ \A p \in Nat : p < Len(q) => p \in Positions /\ q[p + 1] \in Songs
             /\ q # <<>> => Len(q) > 0 /\ Head(q) = q[1]
  <2>1. q \in Seq(Songs) /\ Len(q) \in Nat
    BY <1>1, EmptySeq
  <2>2. ASSUME NEW p \in Nat, p < Len(q)
        PROVE  p \in Positions /\ q[p + 1] \in Songs
    <3>1. q \in Queues
      BY <2>2, EmptySeq
    <3>2. p \in 0..(Len(q) - 1) /\ p + 1 \in 1..Len(q)
      BY <2>1, <2>2
    <3> QED
      BY <2>1, <3>1, <3>2, ElementOfSeq DEF Positions
  <2>3. q # <<>> => Len(q) > 0 /\ Head(q) = q[1]
    BY <2>1, EmptySeq
  <2> QED
    BY <2>1, <2>2, <2>3
<1> QED
  BY <1>2, <1>3, PlayerAssumption

\* The answers to idle: each event once, in one order.
Events == {"database", "playlist", "player"}
Rank(event) == IF event = "database" THEN 1 ELSE IF event = "playlist" THEN 2 ELSE 3
Ordered(t) == t \in Seq(Events) /\ \A i, j \in DOMAIN t : i < j => Rank(t[i]) < Rank(t[j])

LEMMA OrderedTail ==
    ASSUME NEW t, Ordered(t), t # <<>>
    PROVE  /\ Ordered(Tail(t)) /\ Range(t) = {Head(t)} \cup Range(Tail(t))
           /\ Head(t) \in Events
           /\ "database" \notin Range(Tail(t))
           /\ Head(t) \in {"playlist", "player"} => "playlist" \notin Range(Tail(t))
<1>1. /\ t \in Seq(Events) /\ Head(t) = t[1] /\ Head(t) \in Events /\ Tail(t) \in Seq(Events)
      /\ DOMAIN Tail(t) = 1..(Len(t) - 1) /\ DOMAIN t = 1..Len(t) /\ Len(t) \in Nat \ {0}
      /\ \A k \in 1..(Len(t) - 1) : Tail(t)[k] = t[k + 1]
      /\ \A i, j \in 1..Len(t) : i < j => Rank(t[i]) < Rank(t[j])
  BY HeadTailProperties, EmptySeq DEF Ordered
<1>2. Range(t) = {Head(t)} \cup Range(Tail(t))
  BY <1>1, RangeTail
<1>3. \A k \in 1..(Len(t) - 1) : k + 1 \in 1..Len(t) /\ 1 \in 1..Len(t) /\ 1 < k + 1
  BY <1>1
<1>4. \A i, j \in 1..(Len(t) - 1) : i < j => i + 1 < j + 1
  BY <1>1
<1>5. Ordered(Tail(t))
  BY <1>1, <1>3, <1>4 DEF Ordered
<1>6. \A k \in 1..(Len(t) - 1) : Rank(Head(t)) < Rank(Tail(t)[k])
  BY <1>1, <1>3
<1>7. \A e \in Range(Tail(t)) : Rank(Head(t)) < Rank(e)
  BY <1>1, <1>6 DEF Range
<1> QED
  BY <1>1, <1>2, <1>5, <1>7 DEF Rank, Events

LEMMA OrderedJoined ==
    ASSUME NEW s, Ordered(s), NEW t, Ordered(t),
           \A d \in Range(s), e \in Range(t) : Rank(d) < Rank(e)
    PROVE  Ordered(s \o t) /\ Range(s \o t) = Range(s) \cup Range(t)
<1>1. /\ s \in Seq(Events) /\ t \in Seq(Events) /\ Len(s) \in Nat /\ Len(t) \in Nat
      /\ DOMAIN s = 1..Len(s) /\ DOMAIN t = 1..Len(t)
  BY DEF Ordered
<1>2. /\ s \o t \in Seq(Events) /\ DOMAIN (s \o t) = 1..(Len(s) + Len(t))
      /\ \A i \in 1..(Len(s) + Len(t)) : (s \o t)[i] = IF i <= Len(s) THEN s[i] ELSE t[i - Len(s)]
  BY <1>1, ConcatProperties
<1>3. ASSUME NEW i \in 1..(Len(s) + Len(t)), NEW j \in 1..(Len(s) + Len(t)), i < j
      PROVE  Rank((s \o t)[i]) < Rank((s \o t)[j])
  <2>1. CASE j <= Len(s)
    <3>1. i \in 1..Len(s) /\ j \in 1..Len(s)
      BY <1>1, <1>3, <2>1
    <3> QED
      BY <1>1, <1>2, <1>3, <3>1 DEF Ordered
  <2>2. CASE i <= Len(s) /\ ~(j <= Len(s))
    <3>1. i \in DOMAIN s /\ j - Len(s) \in DOMAIN t
      BY <1>1, <1>3, <2>2
    <3>2. s[i] \in Range(s) /\ t[j - Len(s)] \in Range(t)
      BY <3>1 DEF Range
    <3> QED
      BY <1>2, <2>2, <3>2
  <2>3. CASE ~(i <= Len(s))
    <3>1. /\ i - Len(s) \in DOMAIN t /\ j - Len(s) \in DOMAIN t /\ i - Len(s) < j - Len(s)
          /\ ~(j <= Len(s))
      BY <1>1, <1>3, <2>3
    <3>2. Rank(t[i - Len(s)]) < Rank(t[j - Len(s)])
      BY <3>1 DEF Ordered
    <3> QED
      BY <1>2, <2>3, <3>1, <3>2
  <2> QED
    BY <2>1, <2>2, <2>3
<1> QED
  BY <1>1, <1>2, <1>3, RangeJoined DEF Ordered

LEMMA BatchesAnswer ==
    ASSUME NEW S \in SUBSET Events
    PROVE  Ordered(Batch(S)) /\ Range(Batch(S)) = S
<1>1. ASSUME NEW e \in Events
      PROVE  Ordered(Named(e, S)) /\ Range(Named(e, S)) = S \cap {e}
  <2>1. CASE e \in S
    <3>1. Named(e, S) = <<e>>
      BY <2>1 DEF Named
    <3>2. <<e>> \in Seq(Events) /\ DOMAIN <<e>> = {1}
      OBVIOUS
    <3> QED
      BY <2>1, <3>1, <3>2, RangeOne DEF Ordered
  <2>2. CASE e \notin S
    <3>1. Named(e, S) = <<>>
      BY <2>2 DEF Named
    <3>2. <<>> \in Seq(Events) /\ DOMAIN <<>> = {}
      OBVIOUS
    <3> QED
      BY <2>2, <3>1, <3>2, RangeOne DEF Ordered
  <2> QED
    BY <2>1, <2>2
<1> DEFINE two == Named("database", S) \o Named("playlist", S)
<1>2. Ordered(two) /\ Range(two) = (S \cap {"database"}) \cup (S \cap {"playlist"})
  BY <1>1, OrderedJoined DEF Rank, Events
<1> HIDE DEF two
<1>3. Ordered(two \o Named("player", S))
      /\ Range(two \o Named("player", S)) = Range(two) \cup (S \cap {"player"})
  BY <1>1, <1>2, OrderedJoined DEF Rank, Events
<1> QED
  BY <1>2, <1>3 DEF Batch, two, Events

\* The daemon as it may say it is.
DaemonIs(q, c, m) ==
    /\ c \in Positions \cup {None} /\ (c # None => c < Len(q))
    /\ m \in Modes /\ (m # "stopped" => c # None)

\* What goes with the types: between clear and add the daemon is stopped; the loop
\* awaits an answer with no command on its way before it, and the answer is of the
\* daemon's queue, which nothing changes meanwhile.
Shaped ==
    /\ Ordered(todo)
    /\ pc = "idle" => todo = <<>>
    /\ sent \in {<<>>, <<"add">>, <<"clear", "add">>}
    /\ sent = <<"add">> => queue = <<>> /\ current = None /\ mode = "stopped"
    /\ answer # None =>
          /\ pc \in {"queue", "song", "status"} /\ sent = <<>>
          /\ answer.queue = queue /\ DaemonIs(queue, answer.current, answer.mode)
    /\ "database" \in Range(todo) => sent = <<>> /\ pc = "next"
    /\ pc # "status" => target = [position |-> None, file |-> None]
    /\ target.file = None <=> target.position = None

\* The types of the loop and of what is shown, and those of the user's part.
LoopTyped ==
    /\ files \in Queues /\ queue \in Queues \cup {<<>>} /\ DaemonIs(queue, current, mode)
    /\ events \subseteq Events
    /\ pc \in {"idle", "next", "queue", "song", "status", "ended"} /\ answer \in Answers \cup {None}
    /\ target \in [position : Positions \cup {None}, file : Songs \cup {None}]
    /\ playlist \in Queues \cup {<<>>} /\ song \in Songs \cup {None}
    /\ position \in Positions \cup {None} /\ playState \in Modes
    /\ artState \in [Positions \cup {None} -> {"none", "reading", "read"}]
    /\ art \in [Positions \cup {None} -> Songs \cup {NoArt, None}]
    /\ readers \in Seq([position : Positions, file : Songs, epoch : Nat])
    /\ unseen \subseteq {"playlist", "player"}
    /\ epoch \in Nat /\ {outlived, failed} \subseteq BOOLEAN

UserTyped ==
    /\ commands \in Seq(Commands) /\ source \in {"media", "radio"}
    /\ {mediaPlaying, hasty} \subseteq BOOLEAN
    /\ updates \in 0..MaxUpdates /\ presses \in 0..MaxPresses /\ moves \in 0..MaxMoves
    /\ tunes \in 0..MaxTunes

LEMMA TypesTogether ==
    /\ Shaped => (PlayerTypeOK <=> RadioTypeOK /\ LoopTyped /\ UserTyped)
    /\ (Shaped => (PlayerTypeOK <=> RadioTypeOK /\ LoopTyped /\ UserTyped))'
<1>1. <<>> \in Seq({"clear", "add"}) /\ <<"add">> \in Seq({"clear", "add"})
      /\ <<"clear", "add">> \in Seq({"clear", "add"})
  OBVIOUS
<1>2. Shaped => todo \in Seq({"database", "playlist", "player"}) /\ sent \in Seq({"clear", "add"})
  BY <1>1 DEF Shaped, Ordered, Events
<1>3. Shaped' => todo' \in Seq({"database", "playlist", "player"}) /\ sent' \in Seq({"clear", "add"})
  BY <1>1 DEF Shaped, Ordered, Events
<1> QED
  BY <1>2, <1>3 DEF PlayerTypeOK, LoopTyped, UserTyped, DaemonIs, Events

\* The daemon's player goes on, and it says so.
PlayerMoved ==
    /\ events' = events \cup {"player"} /\ DaemonIs(queue, current', mode')
    /\ UNCHANGED <<files, queue>>

\* What moves neither the loop nor what is shown: the daemon's player, and presses.
Moves ==
    /\ PlayerMoved \/ UNCHANGED mpd
    /\ UNCHANGED <<loop, shown, pictures, unseen, epoch, outlived, failed>>

MediaNext ==
    \/ DatabaseUpdate \/ MpdSent \/ Moves
    \/ Idle \/ EndOfBatch \/ handleDatabaseEvent \/ handleQueueEvent \/ handlePlayerEvent
    \/ Answer \/ QueueAnswered \/ SongAnswered \/ StatusAnswered \/ LoopThrows
    \/ \E i \in DOMAIN readers : ReadEnds(i) \/ ReadThrows(i)

LEMMA PlaysAtMoves ==
    ASSUME PlayerTypeOK, NEW p \in Nat, PlaysAt(p), UNCHANGED <<files, queue>>
    PROVE  PlayerMoved /\ mode' \in {"playing", "stopped"}
BY PositionsOf DEF PlaysAt, PlayerMoved, DaemonIs, Modes, PlayerTypeOK

\* A pause never starts the player.
LEMMA CommandMoves ==
    ASSUME PlayerTypeOK, MpdCommand
    PROVE  /\ Moves
           /\ Head(commands) \in Commands /\ commands' = Tail(commands)
           /\ Head(commands) = [name |-> "pause", on |-> TRUE] => mode' # "playing"
<1> DEFINE c == Head(commands)
<1>1. commands \in Seq(Commands) /\ commands # <<>> /\ c \in Commands
      /\ commands' = Tail(commands)
  BY HeadTailProperties DEF MpdCommand, PlayerTypeOK
<1>2. /\ UNCHANGED <<files, queue, loop, shown, pictures, unseen, epoch, outlived, failed>>
      /\ mode # "stopped" => current \in Nat
      /\ c.name = "play" => c.position \in Nat
  BY <1>1, PositionsOf DEF MpdCommand, PlayerTypeOK, player_history, Commands
<1>3. ASSUME NEW p \in Nat, PlaysAt(p)
      PROVE  PlayerMoved
  BY <1>2, <1>3, PlaysAtMoves
<1>4. \/ c.name = "play" /\ c.position < Len(queue) /\ PlaysAt(c.position)
      \/ c.name = "pause" /\ mode = (IF c.on THEN "playing" ELSE "paused")
         /\ mode' = (IF c.on THEN "paused" ELSE "playing")
         /\ events' = events \cup {"player"} /\ UNCHANGED current
      \/ c.name = "next" /\ mode # "stopped" /\ PlaysAt(current + 1)
      \/ c.name = "previous" /\ mode # "stopped"
         /\ PlaysAt(IF current = 0 THEN 0 ELSE current - 1)
      \/ /\ c.name = "play" => c.position >= Len(queue)
         /\ c.name = "pause" => mode # (IF c.on THEN "playing" ELSE "paused")
         /\ c.name \in {"next", "previous"} => mode = "stopped"
         /\ UNCHANGED <<current, mode, events>>
  BY DEF MpdCommand
<1>5. CASE c.name = "play" /\ PlaysAt(c.position)
  BY <1>1, <1>2, <1>3, <1>5 DEF Moves
<1>6. CASE /\ c.name = "pause" /\ mode = (IF c.on THEN "playing" ELSE "paused")
           /\ mode' = (IF c.on THEN "paused" ELSE "playing")
           /\ events' = events \cup {"player"} /\ UNCHANGED current
  BY <1>1, <1>2, <1>6 DEF Moves, PlayerMoved, DaemonIs, PlayerTypeOK, Modes
<1>7. CASE c.name = "next" /\ mode # "stopped" /\ PlaysAt(current + 1)
  BY <1>1, <1>2, <1>3, <1>7 DEF Moves
<1>8. CASE /\ c.name = "previous" /\ mode # "stopped"
           /\ PlaysAt(IF current = 0 THEN 0 ELSE current - 1)
  <2>1. (IF current = 0 THEN 0 ELSE current - 1) \in Nat
    BY <1>2, <1>8
  <2> QED
    BY <1>1, <1>2, <1>3, <1>8, <2>1 DEF Moves
<1>9. CASE /\ c.name = "pause" => mode # (IF c.on THEN "playing" ELSE "paused")
           /\ UNCHANGED <<current, mode, events>>
  BY <1>1, <1>2, <1>9 DEF Moves, mpd
<1> QED
  BY <1>4, <1>5, <1>6, <1>7, <1>8, <1>9

LEMMA SongEndsMoves ==
    ASSUME PlayerTypeOK, SongEnds
    PROVE  Moves
<1>1. /\ PlaysAt(current + 1) /\ current # None /\ current \in Positions \cup {None}
      /\ UNCHANGED <<files, queue, loop, shown, pictures, player_history>>
  BY DEF SongEnds, PlayerTypeOK
<1>2. current + 1 \in Nat
  BY <1>1, PositionsOf
<1> QED
  BY <1>1, <1>2, PlaysAtMoves DEF Moves, player_history

\* Every step of the home screen, for the daemon, the loop and what is shown.
LEMMA PlayerMoves ==
    ASSUME PlayerTypeOK, [PlayerNext]_player_vars
    PROVE  MediaNext
<1>1. CASE User
  BY <1>1 DEF User, PressPlay, PressPrevious, PressNext, pickTrack, PressMediaPage, PressVolumeBar,
     PressFm, PressMedia, PressRadioPage, Press, MediaNext, Moves, player_history
<1>2. CASE UNCHANGED media
  BY <1>2 DEF media, MediaNext, Moves, player_history
<1>3. CASE UNCHANGED player_vars
  BY <1>2, <1>3 DEF player_vars
<1> QED
  BY <1>1, <1>2, <1>3, CommandMoves, SongEndsMoves DEF PlayerNext, Daemon, Loop, Reads, MediaNext

LEMMA SentIs == <<"clear", "add">> # <<>> /\ <<"add">> # <<>> /\ Head(<<"clear", "add">>) = "clear"
                /\ Tail(<<"clear", "add">>) = <<"add">> /\ Head(<<"add">>) = "add"
                /\ Tail(<<"add">>) = <<>> /\ <<>> \o <<"clear", "add">> = <<"clear", "add">>
                /\ <<"clear", "add">> # <<"add">>
OBVIOUS

\* The daemon gets to clear or to add.
LEMMA SentGoes ==
    ASSUME Shaped, MpdSent
    PROVE  /\ sent # <<>> /\ answer = None /\ "database" \notin Range(todo)
           /\ UNCHANGED <<files, pc, todo, answer, target, shown, pictures, player_history>>
           /\ current' = None /\ mode' = "stopped"
           /\ events' \in {events \cup {"playlist"}, events \cup {"playlist", "player"}}
           /\ "player" \in events' \/ mode = "stopped"
           /\ \/ sent' = <<"add">> /\ queue' = <<>>
              \/ sent' = <<>> /\ queue' = files
<1>1. sent \in {<<"clear", "add">>, <<"add">>} /\ sent' = Tail(sent)
  BY DEF MpdSent, Shaped
<1>2. CASE sent = <<"clear", "add">>
  BY <1>1, <1>2, SentIs DEF MpdSent, Shaped
<1>3. CASE sent = <<"add">>
  BY <1>1, <1>3, SentIs DEF MpdSent, Shaped
<1> QED
  BY <1>1, <1>2, <1>3

LEMMA TypesInit == PlayerInit => Shaped /\ LoopTyped /\ UserTyped
<1> SUFFICES ASSUME PlayerInit
             PROVE  Shaped /\ LoopTyped /\ UserTyped
  OBVIOUS
<1>1. <<>> \in Seq(Events) /\ DOMAIN <<>> = {} /\ Range(<<>>) = {}
  BY RangeOne
<1>2. Shaped
  BY <1>1 DEF PlayerInit, Shaped, Ordered
<1>3. LoopTyped
  <2>1. artState \in [Positions \cup {None} -> {"none", "reading", "read"}]
        /\ art \in [Positions \cup {None} -> Songs \cup {NoArt, None}]
    BY DEF PlayerInit, NoPictures, NoArtState
  <2>2. target \in [position : Positions \cup {None}, file : Songs \cup {None}]
        /\ readers \in Seq([position : Positions, file : Songs, epoch : Nat])
    BY DEF PlayerInit
  <2> QED
    <3>1. DaemonIs(queue, current, mode)
      <4>1. CASE current = None
        BY <4>1 DEF PlayerInit, DaemonIs, Modes
      <4>2. CASE current # None
        <5>1. queue \in Queues \cup {<<>>} /\ current \in 0..(Len(queue) - 1) /\ mode \in Modes
          BY <4>2 DEF PlayerInit
        <5>2. Len(queue) \in Nat
          BY <5>1, PositionsOf
        <5>3. current \in Nat /\ current < Len(queue)
          BY <5>1, <5>2
        <5> QED
          BY <4>2, <5>1, <5>3, PositionsOf DEF DaemonIs
      <4> QED
        BY <4>1, <4>2
    <3> QED
      BY <2>1, <2>2, <3>1 DEF PlayerInit, LoopTyped, Modes
<1>4. UserTyped
  <2>1. /\ updates \in 0..MaxUpdates /\ presses \in 0..MaxPresses
        /\ moves \in 0..MaxMoves /\ tunes \in 0..MaxTunes
    BY PlayerAssumption DEF PlayerInit, Count
  <2>2. commands \in Seq(Commands)
    BY DEF PlayerInit
  <2> QED
    BY <2>1, <2>2 DEF PlayerInit, UserTyped
<1> QED
  BY <1>2, <1>3, <1>4

\* Handling an event: the batch is shorter.
LEMMA HandlesOne ==
    ASSUME Shaped, NEW event, Handles(event)
    PROVE  /\ pc = "next" /\ todo' = Tail(todo) /\ Ordered(todo')
           /\ Range(todo) = {event} \cup Range(todo') /\ "database" \notin Range(todo')
           /\ event \in {"playlist", "player"} => "playlist" \notin Range(todo')
           /\ answer = None
BY OrderedTail DEF Handles, Shaped

LEMMA ShapedNext ==
    ASSUME LoopTyped, Shaped, MediaNext
    PROVE  Shaped'
<1> USE DEF mpd, loop
<1>1. CASE DatabaseUpdate
  BY <1>1 DEF DatabaseUpdate, Shaped
<1>2. CASE MpdSent
  BY <1>2, SentGoes, SentIs DEF Shaped
<1>3. CASE Moves
  <2>1. CASE PlayerMoved
    <3>1. sent = <<"add">> => current' = None /\ mode' = "stopped"
      <4>1. \A p \in Nat : ~(p < Len(<<>>))
        OBVIOUS
      <4> QED
        BY <2>1, <4>1, PositionsOf DEF Shaped, PlayerMoved, DaemonIs
    <3> QED
      BY <1>3, <2>1, <3>1 DEF Moves, PlayerMoved, Shaped
  <2> QED
    BY <1>3, <2>1 DEF Moves, Shaped
<1>4. CASE Idle
  <2>1. Ordered(todo')
    BY <1>4, BatchesAnswer DEF Idle, LoopTyped
  <2> QED
    BY <1>4, <2>1 DEF Idle, Shaped
<1>5. CASE EndOfBatch
  BY <1>5, RangeOne DEF EndOfBatch, Shaped
<1>6. CASE handleDatabaseEvent
  BY <1>6, HandlesOne, SentIs DEF handleDatabaseEvent, Shaped
<1>7. CASE handleQueueEvent
  BY <1>7, HandlesOne DEF handleQueueEvent, Shaped
<1>8. CASE handlePlayerEvent
  BY <1>8, HandlesOne DEF handlePlayerEvent, Shaped
<1>9. CASE Answer
  BY <1>9 DEF Answer, Shaped, LoopTyped
<1>10. CASE QueueAnswered
  BY <1>10 DEF QueueAnswered, Shaped
<1>11. CASE SongAnswered
  <2>1. answer.queue \in Queues \cup {<<>>} /\ DaemonIs(answer.queue, answer.current, answer.mode)
    BY <1>11 DEF SongAnswered, Shaped, LoopTyped
  <2>2. answer.current # None => answer.queue[answer.current + 1] \in Songs
    BY <2>1, PositionsOf DEF DaemonIs
  <2> QED
    BY <1>11, <2>2, PositionsOf DEF SongAnswered, Shaped
<1>12. CASE StatusAnswered
  BY <1>12 DEF StatusAnswered, Shaped
<1>13. ASSUME NEW i \in DOMAIN readers, ReadEnds(i) \/ ReadThrows(i)
       PROVE  Shaped'
  BY <1>13 DEF ReadEnds, ReadThrows, Shaped
<1>14. CASE LoopThrows
  <2>1. <<>> \in Seq(Events) /\ DOMAIN <<>> = {} /\ Range(<<>>) = {}
    BY RangeOne
  <2> QED
    BY <1>14, <2>1 DEF LoopThrows, Shaped, Ordered
<1> QED
  BY <1>1, <1>2, <1>3, <1>4, <1>5, <1>6, <1>7, <1>8, <1>9, <1>10, <1>11, <1>12, <1>13, <1>14
     DEF MediaNext

\* readSongArt marks a place and sends one read, or nothing.
LEMMA ReadStarts ==
    ASSUME LoopTyped, NEW p \in Positions, NEW file \in Songs, readSongArt(p, file)
    PROVE  /\ artState' \in [Positions \cup {None} -> {"none", "reading", "read"}]
           /\ readers' \in Seq([position : Positions, file : Songs, epoch : Nat])
<1>1. [position |-> p, file |-> file, epoch |-> epoch] \in [position : Positions, file : Songs, epoch : Nat]
  BY DEF LoopTyped
<1>2. CASE artState[p] = "reading"
  BY <1>2 DEF readSongArt, LoopTyped
<1>3. CASE artState[p] # "reading"
  <2>1. /\ artState' = [artState EXCEPT ![p] = "reading"]
        /\ readers' = Append(readers, [position |-> p, file |-> file, epoch |-> epoch])
        /\ artState \in [Positions \cup {None} -> {"none", "reading", "read"}]
        /\ readers \in Seq([position : Positions, file : Songs, epoch : Nat])
    BY <1>3 DEF readSongArt, LoopTyped
  <2>2. artState' \in [Positions \cup {None} -> {"none", "reading", "read"}]
    BY <2>1
  <2>3. readers' \in Seq([position : Positions, file : Songs, epoch : Nat])
    BY <1>1, <2>1, RangeAppended
  <2> QED
    BY <2>2, <2>3
<1> QED
  BY <1>2, <1>3

LEMMA LoopTypedNext ==
    ASSUME LoopTyped, Shaped, MediaNext
    PROVE  LoopTyped'
<1> USE DEF mpd, loop, shown, pictures, player_history
<1>1. CASE DatabaseUpdate
  BY <1>1 DEF DatabaseUpdate, LoopTyped, Events
<1>2. CASE MpdSent
  BY <1>2, SentGoes DEF LoopTyped, DaemonIs, Modes, Events
<1>3. CASE Moves
  BY <1>3 DEF Moves, PlayerMoved, LoopTyped, Events
<1>4. CASE Idle \/ EndOfBatch \/ handleDatabaseEvent \/ handlePlayerEvent
  BY <1>4 DEF Idle, EndOfBatch, handleDatabaseEvent, handlePlayerEvent, Handles, LoopTyped
<1>5. CASE handleQueueEvent
  BY <1>5 DEF handleQueueEvent, Handles, LoopTyped, NoArtState, NoPictures, Modes
<1>6. CASE Answer
  BY <1>6 DEF Answer, LoopTyped, Answers, DaemonIs
<1>7. CASE QueueAnswered
  <2>1. answer \in Answers /\ answer.queue \in Queues \cup {<<>>}
    BY <1>7 DEF QueueAnswered, LoopTyped, Answers
  <2>2. CASE answer.queue = <<>>
    BY <1>7, <2>1, <2>2 DEF QueueAnswered, LoopTyped
  <2>3. CASE answer.queue # <<>>
    <3>1. 0 \in Positions /\ Head(answer.queue) \in Songs
      BY <2>1, <2>3, PositionsOf
    <3> QED
      BY <1>7, <2>1, <2>3, <3>1, ReadStarts DEF QueueAnswered, LoopTyped
  <2> QED
    BY <2>2, <2>3
<1>8. CASE SongAnswered
  <2>1. answer \in Answers /\ answer.queue \in Queues \cup {<<>>} /\ answer.current \in Positions \cup {None}
        /\ (answer.current # None => answer.current < Len(answer.queue))
    BY <1>8 DEF SongAnswered, LoopTyped, Answers, Shaped, DaemonIs
  <2>2. CASE answer.current = None
    BY <1>8, <2>2 DEF SongAnswered, LoopTyped
  <2>3. CASE answer.current # None
    <3>1. answer.current \in Positions /\ answer.queue[answer.current + 1] \in Songs
      BY <2>1, <2>3, PositionsOf
    <3> QED
      BY <1>8, <2>3, <3>1 DEF SongAnswered, LoopTyped
  <2> QED
    BY <2>2, <2>3
<1>9. CASE StatusAnswered
  <2>1. answer.mode \in Modes /\ target.position \in Positions \cup {None} /\ target.file \in Songs \cup {None}
        /\ (target.file # None => target.position \in Positions)
    BY <1>9 DEF StatusAnswered, LoopTyped, Answers, Shaped
  <2>2. /\ artState' \in [Positions \cup {None} -> {"none", "reading", "read"}]
        /\ art' \in [Positions \cup {None} -> Songs \cup {NoArt, None}]
        /\ readers' \in Seq([position : Positions, file : Songs, epoch : Nat])
    BY <1>9, <2>1, ReadStarts DEF StatusAnswered, LoopTyped
  <2> QED
    BY <1>9, <2>1, <2>2 DEF StatusAnswered, LoopTyped
<1>10. ASSUME NEW i \in DOMAIN readers, ReadEnds(i) \/ ReadThrows(i)
       PROVE  LoopTyped'
  <2>1. /\ readers' \in Seq([position : Positions, file : Songs, epoch : Nat])
        /\ readers[i] \in [position : Positions, file : Songs, epoch : Nat]
    <3>1. readers \in Seq([position : Positions, file : Songs, epoch : Nat])
      BY DEF LoopTyped
    <3>2. readers' = RemoveAt(readers, i)
      BY <1>10 DEF ReadEnds, ReadThrows
    <3>3. RemoveAt(readers, i) \in Seq([position : Positions, file : Songs, epoch : Nat])
      BY <3>1, RemovedOne
    <3>4. readers[i] \in [position : Positions, file : Songs, epoch : Nat]
      BY <3>1, ElementIs
    <3> QED
      BY <3>2, <3>3, <3>4
  <2>2. CASE ReadThrows(i)
    BY <2>1, <2>2 DEF ReadThrows, LoopTyped
  <2>3. CASE ReadEnds(i)
    <3>1. /\ artState' \in [Positions \cup {None} -> {"none", "reading", "read"}]
          /\ art' \in [Positions \cup {None} -> Songs \cup {NoArt, None}]
          /\ outlived' \in BOOLEAN
      BY <2>1, <2>3 DEF ReadEnds, LoopTyped
    <3> QED
      BY <2>1, <2>3, <3>1 DEF ReadEnds, LoopTyped
  <2> QED
    BY <1>10, <2>2, <2>3
<1>11. CASE LoopThrows
  BY <1>11 DEF LoopThrows, LoopTyped
<1> QED
  BY <1>1, <1>2, <1>3, <1>4, <1>5, <1>6, <1>7, <1>8, <1>9, <1>10, <1>11 DEF MediaNext

\* What the buttons of the media page say, by what is shown.
LEMMA PressesAreTyped ==
    ASSUME LoopTyped
    PROVE  /\ {play, pause, next, previous, <<>>} \subseteq Seq(Commands)
           /\ \A n \in 0..(Len(playlist) - 1) : <<[name |-> "play", position |-> n]>> \in Seq(Commands)
<1>1. \A c \in Commands : <<c>> \in Seq(Commands)
  OBVIOUS
<1>2. \A n \in Positions : [name |-> "play", position |-> n] \in Commands
  BY DEF Commands
<1>3. \A x \in BOOLEAN : [name |-> "pause", on |-> x] \in Commands
  BY DEF Commands
<1>4. [name |-> "next"] \in Commands /\ [name |-> "previous"] \in Commands
  BY DEF Commands
<1>5. \A n \in 0..(Len(playlist) - 1) : n \in Positions
  BY PositionsOf DEF LoopTyped
<1> QED
  <2>0. <<>> \in Seq(Commands) /\ <<[name |-> "pause", on |-> TRUE]>> \in Seq(Commands)
        /\ <<[name |-> "pause", on |-> FALSE]>> \in Seq(Commands)
    <3>1. [name |-> "pause", on |-> TRUE] \in Commands /\ [name |-> "pause", on |-> FALSE] \in Commands
      BY <1>3
    <3>2. <<>> \in Seq(Commands)
      OBVIOUS
    <3> QED
      BY <1>1, <3>1, <3>2
  <2>1. play \in Seq(Commands)
    <3>1. CASE playState = "stopped" /\ position # None
      <4>1. position \in Positions
        BY <3>1 DEF LoopTyped
      <4>2. <<[name |-> "play", position |-> position]>> \in Seq(Commands)
        BY <1>1, <1>2, <4>1
      <4> QED
        BY <3>1, <4>2 DEF play
    <3> QED
      BY <2>0, <3>1 DEF play
  <2>2. pause \in Seq(Commands)
    BY <2>0 DEF pause
  <2>3. next \in Seq(Commands) /\ previous \in Seq(Commands)
    BY <1>1, <1>4 DEF next, previous
  <2> QED
    BY <1>1, <1>2, <1>5, <2>1, <2>2, <2>3

LEMMA UserTypedNext ==
    ASSUME LoopTyped, UserTyped, PlayerNext
    PROVE  UserTyped'
<1> USE DEF user, bounds, player_history, UserTyped
<1>1. ASSUME NEW cs \in Seq(Commands), NEW rs, NEW to \in {"media", "radio"}, NEW going \in BOOLEAN,
             Press(cs, rs, to, going)
      PROVE  UserTyped'
  <2>1. commands' \in Seq(Commands)
    BY <1>1, ConcatProperties DEF Press
  <2> QED
    BY <1>1, <2>1, PlayerAssumption DEF Press
<1>2. CASE PressPlay \/ PressPrevious \/ PressNext
  BY <1>1, <1>2, PressesAreTyped DEF PressPlay, PressPrevious, PressNext, PressMediaPage
<1>3. CASE pickTrack
  BY <1>1, <1>3, PressesAreTyped DEF pickTrack, PressMediaPage
<1>4. CASE PressVolumeBar
  BY <1>1, <1>4, PressesAreTyped DEF PressVolumeBar
<1>5. CASE PressFm \/ PressMedia
  BY <1>1, <1>5, PressesAreTyped DEF PressFm, PressMedia
<1>6. CASE PressRadioPage
  BY <1>6, PlayerAssumption DEF PressRadioPage
<1>7. CASE DatabaseUpdate \/ SongEnds
  BY <1>7, PlayerAssumption, SMTT(40) DEF DatabaseUpdate, SongEnds
<1>8. CASE MpdSent
  BY <1>8 DEF MpdSent
<1>9. CASE MpdCommand
  <2>1. commands' \in Seq(Commands)
    BY <1>9, HeadTailProperties DEF MpdCommand
  <2> QED
    BY <1>9, <2>1 DEF MpdCommand
<1>10. CASE Loop
  BY <1>10 DEF Loop, Idle, EndOfBatch, handleDatabaseEvent, handleQueueEvent, handlePlayerEvent,
     Answer, QueueAnswered, SongAnswered, StatusAnswered, LoopThrows
<1>11. CASE Reads
  BY <1>11 DEF Reads, ReadEnds, ReadThrows
<1>12. CASE UNCHANGED media
  BY <1>12 DEF media
<1> QED
  BY <1>2, <1>3, <1>4, <1>5, <1>6, <1>7, <1>8, <1>9, <1>10, <1>11, <1>12 DEF PlayerNext, User, Daemon

\* The types of the home screen's media player, with what they rest on.
PlayerTyped == PlayerTypeOK /\ Shaped

LEMMA PlayerTypedInit == PlayerInit => PlayerTyped
BY RadioTypeInit, TypesInit, TypesTogether DEF PlayerTyped

LEMMA PlayerTypedNext ==
    ASSUME PlayerTyped, [PlayerNext]_player_vars
    PROVE  PlayerTyped' /\ MediaNext
<1>1. RadioTypeOK /\ LoopTyped /\ UserTyped /\ Shaped /\ MediaNext
  BY TypesTogether, PlayerMoves DEF PlayerTyped
<1>2. Shaped' /\ LoopTyped'
  BY <1>1, ShapedNext, LoopTypedNext
<1>3. RadioTypeOK'
  BY <1>1, RadioMoves, RadioTypeNext
<1>4. CASE PlayerNext
  <2>1. UserTyped'
    BY <1>1, <1>4, UserTypedNext
  <2>2. PlayerTypeOK' <=> RadioTypeOK' /\ LoopTyped' /\ UserTyped'
    BY <1>2, TypesTogether
  <2> QED
    BY <1>1, <1>2, <1>3, <2>1, <2>2 DEF PlayerTyped
<1>5. CASE UNCHANGED player_vars
  <2>1. UserTyped'
    BY <1>1, <1>5 DEF player_vars, media, user, player_history, bounds, UserTyped
  <2>2. PlayerTypeOK' <=> RadioTypeOK' /\ LoopTyped' /\ UserTyped'
    BY <1>2, TypesTogether
  <2> QED
    BY <1>1, <1>2, <1>3, <2>1, <2>2 DEF PlayerTyped
<1> QED
  BY <1>4, <1>5

\* Everything on either side of the home screen keeps its type.
THEOREM PlayerTypes == PlayerSpec => []PlayerTypeOK
<1>1. PlayerTyped /\ [PlayerNext]_player_vars => PlayerTyped'
  BY PlayerTypedNext
<1>2. PlayerTyped => PlayerTypeOK
  BY DEF PlayerTyped
<1> QED
  BY <1>1, <1>2, PlayerTypedInit, PTL DEF PlayerSpec

-----------------------------------------------------------------------------
(* The media player: what the screen shows of the daemon.                  *)

\* The screen will be told of the daemon's queue, or of its player, once more.
PlaylistDue == sent # <<>> \/ "playlist" \in events \cup Range(todo)
PlayerDue == "player" \in events \cup Range(todo)

\* An answer that is older than the player's state is followed by an event.
AnswerFresh ==
    answer # None /\ "player" \notin events => answer.mode = mode /\ answer.current = current

\* A queue event that makes the screen forget what plays comes before a player
\* event, unless nothing plays.
PlaylistFirst ==
    mode # "stopped" =>
        /\ "playlist" \in events => "player" \in events
        /\ "playlist" \in Range(todo) \/ pc = "queue" => PlayerDue

\* Part by part, what was told of, no event is due for and no answer awaited for is
\* shown, while the loop goes on; the song is, before the state that comes with it.
Following ==
    /\ ~PlaylistDue /\ pc \notin {"queue", "ended"} /\ "playlist" \notin unseen => playlist = queue
    /\ ~PlayerDue /\ pc \notin {"song", "status", "ended"} /\ "player" \notin unseen =>
          playState = mode
    /\ ~PlayerDue /\ pc \notin {"song", "ended"} /\ mode # "stopped" /\
             (pc = "status" \/ "player" \notin unseen) =>
          position = current /\ song = queue[current + 1]
    /\ pc = "queue" => playState = "stopped"

Followed == AnswerFresh /\ PlaylistFirst /\ Following

LEMMA FollowedInit == PlayerInit => Followed
BY RangeOne DEF PlayerInit, Followed, AnswerFresh, PlaylistFirst, Following

LEMMA FollowedNext ==
    ASSUME LoopTyped, Shaped, MediaNext, Followed
    PROVE  Followed'
<1> USE DEF mpd, loop, shown, pictures, player_history, Followed, AnswerFresh, PlaylistFirst,
        Following, PlaylistDue, PlayerDue
<1>1. CASE DatabaseUpdate
  BY <1>1 DEF DatabaseUpdate
<1>2. CASE MpdSent
  BY <1>2, SentGoes DEF LoopTyped
<1>3. CASE Moves
  <2>1. CASE PlayerMoved
    <3>1. "player" \in events' /\ events \subseteq events'
      BY <2>1 DEF PlayerMoved
    <3>2. UNCHANGED <<loop, shown, queue, unseen>> /\ events' = events \cup {"player"}
      BY <1>3, <2>1 DEF Moves, PlayerMoved
    <3> QED
      BY <3>1, <3>2
  <2> QED
    BY <1>3, <2>1 DEF Moves
<1>4. CASE Idle
  <2>1. Range(todo') = events /\ events' = {} /\ pc' = "next" /\ pc = "idle" /\ Range(todo) = {}
    BY <1>4, BatchesAnswer, RangeOne DEF Idle, LoopTyped, Shaped
  <2> QED
    BY <1>4, <2>1 DEF Idle, Shaped
<1>5. CASE EndOfBatch
  BY <1>5 DEF EndOfBatch
<1>6. CASE handleDatabaseEvent
  <2>1. /\ Range(todo) = {"database"} \cup Range(todo') /\ sent' # <<>>
        /\ UNCHANGED <<mpd, pc, answer, shown, unseen>>
    BY <1>6, HandlesOne, SentIs DEF handleDatabaseEvent, Shaped
  <2> QED
    BY <2>1
<1>7. CASE handleQueueEvent
  <2>1. /\ Range(todo) = {"playlist"} \cup Range(todo') /\ pc = "next" /\ pc' = "queue"
        /\ playState' = "stopped" /\ answer = None
        /\ UNCHANGED <<mpd, sent, answer, unseen>>
    BY <1>7, HandlesOne DEF handleQueueEvent
  <2> QED
    BY <2>1
<1>8. CASE handlePlayerEvent
  <2>1. /\ Range(todo) = {"player"} \cup Range(todo') /\ pc = "next" /\ pc' = "song"
        /\ "playlist" \notin Range(todo') /\ answer = None
        /\ UNCHANGED <<mpd, sent, answer, shown, unseen>>
    BY <1>8, HandlesOne DEF handlePlayerEvent
  <2> QED
    BY <2>1
<1>9. CASE Answer
  BY <1>9 DEF Answer
<1>10. CASE QueueAnswered
  <2>1. /\ pc = "queue" /\ pc' = "next" /\ answer' = None /\ playlist' = queue
        /\ unseen' = unseen \ {"playlist"}
        /\ UNCHANGED <<mpd, todo, sent, playState>>
    BY <1>10 DEF QueueAnswered, Shaped
  <2> QED
    BY <2>1
<1>11. CASE SongAnswered
  <2>1. /\ pc = "song" /\ pc' = "status" /\ answer' = None /\ answer # None
        /\ UNCHANGED <<mpd, todo, sent, playlist, playState, unseen>>
        /\ answer.queue = queue
        /\ answer.current # None => song' = queue[answer.current + 1] /\ position' = answer.current
    BY <1>11 DEF SongAnswered, Shaped
  <2>2. mode # "stopped" => current # None
    BY DEF LoopTyped, DaemonIs
  <2> QED
    BY <2>1, <2>2
<1>12. CASE StatusAnswered
  <2>1. /\ pc = "status" /\ pc' = "next" /\ answer' = None /\ answer # None
        /\ UNCHANGED <<mpd, todo, sent, playlist, song, position>>
        /\ playState' = answer.mode /\ unseen' = unseen \ {"player"}
    BY <1>12 DEF StatusAnswered
  <2> QED
    BY <2>1
<1>13. ASSUME NEW i \in DOMAIN readers, ReadEnds(i) \/ ReadThrows(i)
       PROVE  Followed'
  BY <1>13 DEF ReadEnds, ReadThrows
<1>14. CASE LoopThrows
  BY <1>14, RangeOne DEF LoopThrows
<1> QED
  BY <1>1, <1>2, <1>3, <1>4, <1>5, <1>6, <1>7, <1>8, <1>9, <1>10, <1>11, <1>12, <1>13, <1>14
     DEF MediaNext

\* Whenever every event is handled, the screen shows what it was told of the daemon's
\* queue and its player, for every library, start of the daemon, bound and order of
\* events, commands, answers and exceptions.
THEOREM ShowsTheDaemonHolds == PlayerSpec => []ShowsTheDaemon
<1> DEFINE IInv == PlayerTyped /\ Followed
<1>1. PlayerInit => IInv
  BY PlayerTypedInit, FollowedInit
<1>2. IInv /\ [PlayerNext]_player_vars => IInv'
  <2> SUFFICES ASSUME IInv, [PlayerNext]_player_vars
               PROVE  IInv'
    OBVIOUS
  <2>1. PlayerTyped' /\ MediaNext /\ LoopTyped /\ Shaped
    BY PlayerTypedNext, TypesTogether DEF PlayerTyped
  <2> QED
    BY <2>1, FollowedNext
<1>3. IInv => ShowsTheDaemon
  BY RangeOne DEF PlayerTyped, Shaped, Followed, Following, PlaylistDue, PlayerDue, ShowsTheDaemon, Settled
<1> QED
  BY <1>1, <1>2, <1>3, PTL DEF PlayerSpec

-----------------------------------------------------------------------------
(* The media player: the pictures.                                         *)

\* file is in place p of the daemon's queue.
IsAt(p, file) == p < Len(queue) /\ file = queue[p + 1]

\* Unless the queue has changed or the loop is over, what is being read, shown or
\* asked for in a place is of the song in that place.
Pictures ==
    /\ \A r \in Range(readers) : r.epoch <= epoch
    /\ ~PlaylistDue /\ pc # "ended" =>
          /\ \A r \in Range(readers) : r.epoch = epoch => IsAt(r.position, r.file)
          /\ ~outlived => \A p \in Positions : art[p] \in Songs => IsAt(p, art[p])
          /\ target.file # None => IsAt(target.position, target.file)

LEMMA ReadersAreTyped ==
    ASSUME LoopTyped
    PROVE  /\ readers \in Seq([position : Positions, file : Songs, epoch : Nat])
           /\ Range(readers) \subseteq [position : Positions, file : Songs, epoch : Nat]
<1>1. readers \in Seq([position : Positions, file : Songs, epoch : Nat])
  BY DEF LoopTyped
<1>2. \A i \in DOMAIN readers : readers[i] \in [position : Positions, file : Songs, epoch : Nat]
  BY <1>1, ElementIs
<1> QED
  BY <1>1, <1>2 DEF Range

\* readSongArt adds at most its own read.
LEMMA ReadSends ==
    ASSUME LoopTyped, NEW p \in Positions, NEW file \in Songs, readSongArt(p, file)
    PROVE  /\ Range(readers') \subseteq
                 Range(readers) \cup {[position |-> p, file |-> file, epoch |-> epoch]}
           /\ Range(readers) \subseteq Range(readers')
           /\ artState' = [artState EXCEPT ![p] = "reading"]
           /\ artState[p] # "reading" =>
                 readers' = Append(readers, [position |-> p, file |-> file, epoch |-> epoch])
<1>1. [position |-> p, file |-> file, epoch |-> epoch] \in [position : Positions, file : Songs, epoch : Nat]
  BY DEF LoopTyped
<1>2. readers \in Seq([position : Positions, file : Songs, epoch : Nat])
  BY ReadersAreTyped
<1>3. artState \in [Positions \cup {None} -> {"none", "reading", "read"}]
  BY DEF LoopTyped
<1>4. CASE artState[p] = "reading"
  <2>1. artState' = artState /\ readers' = readers
    BY <1>4 DEF readSongArt
  <2>2. artState = [artState EXCEPT ![p] = "reading"]
    BY <1>3, <1>4
  <2> QED
    BY <1>4, <2>1, <2>2
<1>5. CASE artState[p] # "reading"
  <2>1. /\ artState' = [artState EXCEPT ![p] = "reading"]
        /\ readers' = Append(readers, [position |-> p, file |-> file, epoch |-> epoch])
    BY <1>5 DEF readSongArt
  <2> DEFINE r == [position |-> p, file |-> file, epoch |-> epoch]
             S == [position : Positions, file : Songs, epoch : Nat]
  <2>2. r \in S /\ readers \in Seq(S) /\ readers' = Append(readers, r)
    BY <1>1, <1>2, <2>1
  <2>3. Range(readers') = Range(readers) \cup {r}
    <3> HIDE DEF r, S
    <3> QED
      BY <2>2, RangeAppended
  <2> QED
    BY <1>5, <2>1, <2>3
<1> QED
  BY <1>4, <1>5

\* The end of a read.
LEMMA ReadGoes ==
    ASSUME LoopTyped, NEW i \in DOMAIN readers, ReadEnds(i) \/ ReadThrows(i)
    PROVE  /\ readers' = RemoveAt(readers, i)
           /\ Range(readers') \subseteq Range(readers)
           /\ readers[i] \in Range(readers) /\ Range(readers) \ {readers[i]} \subseteq Range(readers')
           /\ readers[i] \in [position : Positions, file : Songs, epoch : Nat]
           /\ UNCHANGED <<mpd, loop, shown, epoch>>
<1>1. readers \in Seq([position : Positions, file : Songs, epoch : Nat]) /\ readers' = RemoveAt(readers, i)
      /\ UNCHANGED <<mpd, loop, shown, epoch>>
  BY ReadersAreTyped DEF ReadEnds, ReadThrows
<1>2. readers[i] \in Range(readers)
  BY DEF Range
<1> QED
  BY <1>1, <1>2, RangeRemoved, ReadersAreTyped

LEMMA PicturesInit == PlayerInit => Pictures
<1> SUFFICES ASSUME PlayerInit
             PROVE  Pictures
  OBVIOUS
<1>1. Range(readers) = {} /\ \A p \in Positions : art[p] = None
  BY RangeOne DEF PlayerInit, NoPictures
<1> QED
  BY <1>1, PositionsOf DEF PlayerInit, Pictures

LEMMA PicturesNext ==
    ASSUME LoopTyped, Shaped, MediaNext, Pictures
    PROVE  Pictures'
<1> USE DEF mpd, loop, shown, pictures, player_history
<1>0. /\ epoch \in Nat /\ \A r \in Range(readers) : r.epoch \in Nat
      /\ Range(readers) \subseteq [position : Positions, file : Songs, epoch : Nat]
  BY ReadersAreTyped DEF LoopTyped
<1>1. ASSUME UNCHANGED <<queue, readers, art, target, epoch, outlived>>, PlaylistDue => PlaylistDue',
             pc = "ended" => pc' = "ended"
      PROVE  Pictures'
  BY <1>1 DEF Pictures, IsAt
<1>2. CASE DatabaseUpdate
  BY <1>1, <1>2 DEF DatabaseUpdate, PlaylistDue
<1>3. CASE MpdSent
  <2>1. PlaylistDue' /\ UNCHANGED <<readers, epoch>>
    BY <1>3, SentGoes DEF PlaylistDue
  <2> QED
    BY <2>1 DEF Pictures
<1>4. CASE Moves
  <2>1. UNCHANGED <<queue, pc>> /\ (PlaylistDue => PlaylistDue')
    BY <1>4 DEF Moves, PlayerMoved, PlaylistDue
  <2> QED
    BY <1>1, <1>4, <2>1 DEF Moves
<1>5. CASE Idle
  <2>1. Range(todo') = events /\ sent' = sent /\ Range(todo) = {}
    BY <1>5, BatchesAnswer, RangeOne DEF Idle, LoopTyped, Shaped
  <2> QED
    BY <1>1, <1>5, <2>1 DEF Idle, PlaylistDue
<1>6. CASE EndOfBatch
  BY <1>1, <1>6 DEF EndOfBatch, PlaylistDue
<1>7. CASE handleDatabaseEvent
  <2>1. PlaylistDue'
    BY <1>7, SentIs DEF handleDatabaseEvent, Handles, Shaped, PlaylistDue
  <2> QED
    BY <1>1, <1>7, <2>1 DEF handleDatabaseEvent
<1>8. CASE handleQueueEvent
  <2>1. /\ target'.file = None /\ epoch' = epoch + 1 /\ readers' = readers
        /\ \A p \in Positions : art'[p] = None
    BY <1>8, HandlesOne DEF handleQueueEvent, Shaped, NoPictures
  <2>2. \A r \in Range(readers) : r.epoch <= epoch' /\ r.epoch # epoch'
    BY <1>0, <2>1 DEF Pictures
  <2> QED
    BY <2>1, <2>2, PositionsOf DEF Pictures
<1>9. CASE handlePlayerEvent
  <2>1. PlaylistDue => PlaylistDue'
    BY <1>9, HandlesOne DEF handlePlayerEvent, PlaylistDue
  <2> QED
    BY <1>1, <1>9, <2>1 DEF handlePlayerEvent, Handles
<1>10. CASE Answer
  BY <1>1, <1>10 DEF Answer, PlaylistDue
<1>11. CASE QueueAnswered
  <2>1. /\ UNCHANGED <<queue, art, target, epoch, outlived>> /\ (PlaylistDue <=> PlaylistDue')
        /\ answer.queue = queue /\ pc = "queue"
    BY <1>11 DEF QueueAnswered, PlaylistDue, Shaped
  <2>2. CASE queue = <<>>
    BY <1>1, <1>11, <2>1, <2>2 DEF QueueAnswered
  <2>3. CASE queue # <<>>
    <3>1. /\ readSongArt(0, Head(queue)) /\ 0 \in Positions /\ Head(queue) \in Songs
          /\ Len(queue) > 0 /\ Head(queue) = queue[0 + 1]
      BY <1>11, <2>1, <2>3, PositionsOf DEF QueueAnswered, LoopTyped
    <3>2. Range(readers') \subseteq
             Range(readers) \cup {[position |-> 0, file |-> Head(queue), epoch |-> epoch]}
      BY <3>1, ReadSends
    <3>3. \A r \in Range(readers') : r \in Range(readers) \/
             (r.epoch = epoch /\ r.position = 0 /\ r.file = Head(queue))
      BY <3>2
    <3> QED
      BY <1>0, <2>1, <3>1, <3>3 DEF Pictures, IsAt
  <2> QED
    BY <2>2, <2>3
<1>12. CASE SongAnswered
  <2>1. /\ UNCHANGED <<queue, art, readers, epoch, outlived>> /\ (PlaylistDue <=> PlaylistDue')
        /\ pc = "song" /\ answer.queue = queue
        /\ (answer.current # None => answer.current < Len(queue))
        /\ target'.file # None => target'.position = answer.current /\ answer.current # None
              /\ target'.file = queue[answer.current + 1]
    BY <1>12 DEF SongAnswered, PlaylistDue, Shaped, DaemonIs
  <2> QED
    BY <2>1 DEF Pictures, IsAt
<1>13. CASE StatusAnswered
  <2>1. /\ UNCHANGED <<queue, epoch, outlived>> /\ (PlaylistDue <=> PlaylistDue')
        /\ pc = "status" /\ target'.file = None
        /\ target.file \in Songs \cup {None} /\ (target.file # None => target.position \in Positions)
    BY <1>13 DEF StatusAnswered, PlaylistDue, LoopTyped, Shaped
  <2>2. \A p \in Positions : art'[p] = art[p]
    BY <1>13, PositionsOf DEF StatusAnswered, LoopTyped
  <2>3. CASE UNCHANGED readers
    BY <2>1, <2>2, <2>3 DEF Pictures, IsAt
  <2>4. CASE target.file # None /\ readSongArt(target.position, target.file)
    <3>1. Range(readers') \subseteq Range(readers) \cup
             {[position |-> target.position, file |-> target.file, epoch |-> epoch]}
      BY <2>1, <2>4, ReadSends
    <3>2. \A r \in Range(readers') : r \in Range(readers) \/
             (r.epoch = epoch /\ r.position = target.position /\ r.file = target.file)
      BY <3>1
    <3> QED
      BY <1>0, <2>1, <2>2, <2>4, <3>2 DEF Pictures, IsAt
  <2> QED
    BY <1>13, <2>3, <2>4 DEF StatusAnswered
<1>14. ASSUME NEW i \in DOMAIN readers, ReadEnds(i) \/ ReadThrows(i)
       PROVE  Pictures'
  <2> DEFINE r == readers[i]
  <2>1. /\ Range(readers') \subseteq Range(readers) /\ r \in Range(readers)
        /\ r \in [position : Positions, file : Songs, epoch : Nat]
        /\ UNCHANGED <<queue, target, epoch, sent, events, todo, pc>>
    BY <1>14, ReadGoes
  <2>2. (PlaylistDue <=> PlaylistDue')
    BY <2>1 DEF PlaylistDue
  <2>3. ASSUME ~PlaylistDue, pc # "ended", ~outlived', NEW p \in Positions, art'[p] \in Songs
        PROVE  IsAt(p, art'[p])
    <3>1. CASE UNCHANGED <<art, outlived>>
      BY <2>3, <3>1 DEF Pictures
    <3>2. CASE /\ \E bytes \in {r.file, NoArt} : art' = [art EXCEPT ![r.position] = bytes]
               /\ outlived' = (outlived \/ r.epoch # epoch)
      <4>1. r.epoch = epoch /\ ~outlived
        BY <2>3, <3>2
      <4>2. IsAt(r.position, r.file) /\ (art[p] \in Songs => IsAt(p, art[p]))
        BY <2>1, <2>3, <4>1 DEF Pictures
      <4>3. art'[p] = art[p] \/ (p = r.position /\ art'[p] \in {r.file, NoArt})
        BY <2>1, <3>2 DEF LoopTyped
      <4> QED
        BY <2>3, <4>2, <4>3, PositionsOf
    <3> QED
      BY <1>14, <3>1, <3>2 DEF ReadEnds, ReadThrows
  <2>4. ~PlaylistDue /\ pc # "ended" /\ ~outlived' => \A p \in Positions : art'[p] \in Songs => (IsAt(p, art[p]))'
    BY <2>1, <2>3 DEF IsAt
  <2> QED
    BY <2>1, <2>2, <2>4 DEF Pictures, IsAt
<1>15. CASE LoopThrows
  BY <1>15 DEF LoopThrows, Pictures
<1> QED
  BY <1>2, <1>3, <1>4, <1>5, <1>6, <1>7, <1>8, <1>9, <1>10, <1>11, <1>12, <1>13, <1>14, <1>15
     DEF MediaNext

\* What the home screen's media player keeps for what it shows, in one formula.
Shows == PlayerTyped /\ Followed /\ Pictures

LEMMA ShowsInit == PlayerInit => Shows
BY PlayerTypedInit, FollowedInit, PicturesInit DEF Shows

LEMMA ShowsNext ==
    ASSUME Shows, [PlayerNext]_player_vars
    PROVE  Shows' /\ MediaNext /\ LoopTyped /\ Shaped
<1>1. PlayerTyped' /\ MediaNext /\ LoopTyped /\ Shaped
  BY PlayerTypedNext, TypesTogether DEF PlayerTyped, Shows
<1> QED
  BY <1>1, FollowedNext, PicturesNext DEF Shows

\* The picture shown for a place of the list is the one of the song the daemon has in
\* that place, for every library and however reads, updates and answers interleave.
THEOREM ArtRightHolds == PlayerSpec => []ArtRight
<1>1. Shows /\ [PlayerNext]_player_vars => Shows'
  BY ShowsNext
<1>2. Shows => ArtRight
  <2> SUFFICES ASSUME Shows, Settled, ~outlived
               PROVE  \A p \in Positions : art[p] \in Songs => p < Len(queue) /\ art[p] = queue[p + 1]
    BY DEF ArtRight
  <2>1. ~PlaylistDue /\ pc # "ended"
    BY RangeOne DEF Shows, PlayerTyped, Shaped, Settled, PlaylistDue
  <2> QED
    BY <2>1 DEF Shows, Pictures, IsAt
<1> QED
  BY <1>1, <1>2, ShowsInit, PTL DEF PlayerSpec

\* A place of this queue whose picture is being read is marked, nothing is marked
\* before the queue is there, and a mark tells of a read or a picture.
Reading ==
    /\ \A r \in Range(readers) : r.epoch <= epoch
    /\ \A r \in Range(readers) : r.epoch = epoch => artState[r.position] # "none"
    /\ pc = "queue" => \A p \in Positions \cup {None} : artState[p] = "none"
    /\ ~failed => \A p \in Positions \cup {None} : artState[p] = "reading" =>
          \E r \in Range(readers) : r.position = p /\ r.epoch = epoch
    /\ \A p \in Positions \cup {None} : artState[p] = "read" => art[p] # None
    /\ OneReader

\* What plays is marked once its event is handled, and while it is, the place that
\* was asked for is the one that is shown.
Watching ==
    /\ playState = "playing" /\ ~PlayerDue /\ pc \notin {"song", "status", "ended"} =>
          artState[position] # "none"
    /\ pc = "status" /\ target.position # None => position = target.position
    /\ pc = "status" /\ target.position = None => mode = "stopped" \/ "player" \in events

LEMMA OneReaderLess ==
    ASSUME LoopTyped, OneReader, NEW i \in DOMAIN readers, readers' = RemoveAt(readers, i)
    PROVE  OneReader'
<1> DEFINE was(k) == IF k < i THEN k ELSE k + 1
<1>1. /\ DOMAIN readers = 1..Len(readers) /\ Len(readers) \in Nat
      /\ DOMAIN readers' = 1..(Len(readers) - 1)
      /\ \A k \in 1..(Len(readers) - 1) : readers'[k] = readers[was(k)]
  <2> DEFINE S == [position : Positions, file : Songs, epoch : Nat]
  <2>1. readers \in Seq(S)
    BY ReadersAreTyped
  <2> HIDE DEF S
  <2>2. /\ readers' \in Seq(S) /\ Len(readers') = Len(readers) - 1
        /\ \A k \in 1..(Len(readers) - 1) : readers'[k] = readers[was(k)]
    BY <2>1, RemovedOne
  <2> QED
    BY <2>1, <2>2
<1>2. \A k \in 1..(Len(readers) - 1) : was(k) \in 1..Len(readers)
  BY <1>1
<1>3. \A j, k \in 1..(Len(readers) - 1) : was(j) = was(k) => j = k
  BY <1>1
<1> HIDE DEF was
<1> QED
  BY <1>1, <1>2, <1>3 DEF OneReader

LEMMA OneReaderMore ==
    ASSUME LoopTyped, OneReader, NEW p \in Positions, NEW file \in Songs, readSongArt(p, file),
           artState[p] # "reading",
           \A r \in Range(readers) : r.position # p \/ r.epoch # epoch
    PROVE  OneReader'
<1> DEFINE e == [position |-> p, file |-> file, epoch |-> epoch]
           S == [position : Positions, file : Songs, epoch : Nat]
<1>1. e \in S /\ readers \in Seq(S) /\ readers' = Append(readers, e)
      /\ e.position = p /\ e.epoch = epoch
  BY ReadSends, ReadersAreTyped DEF LoopTyped
<1> HIDE DEF e, S
<1>2. /\ DOMAIN readers = 1..Len(readers) /\ Len(readers) \in Nat
      /\ DOMAIN readers' = 1..(Len(readers) + 1)
      /\ \A k \in 1..Len(readers) : readers'[k] = readers[k]
      /\ readers'[Len(readers) + 1] = e
  BY <1>1, AppendProperties
<1>3. \A k \in 1..Len(readers) : readers[k].position # p \/ readers[k].epoch # epoch
  BY <1>2 DEF Range
<1> SUFFICES ASSUME NEW j \in 1..(Len(readers) + 1), NEW k \in 1..(Len(readers) + 1),
                    readers'[j].position = readers'[k].position,
                    readers'[j].epoch = readers'[k].epoch
             PROVE  j = k
  BY <1>2 DEF OneReader
<1>4. (j \in 1..Len(readers) \/ j = Len(readers) + 1) /\ (k \in 1..Len(readers) \/ k = Len(readers) + 1)
  BY <1>2
<1> QED
  BY <1>1, <1>2, <1>3, <1>4 DEF OneReader

LEMMA ReadingInit == PlayerInit => Reading /\ Watching
<1> SUFFICES ASSUME PlayerInit
             PROVE  Reading /\ Watching
  OBVIOUS
<1>1. Range(readers) = {} /\ DOMAIN readers = {}
  BY RangeOne DEF PlayerInit
<1>2. \A p \in Positions \cup {None} : artState[p] = "none"
  BY DEF PlayerInit, NoArtState
<1> QED
  BY <1>1, <1>2 DEF PlayerInit, Reading, Watching, OneReader

\* A read that begins in a place that was not marked.
LEMMA ReadingBegins ==
    ASSUME LoopTyped, Reading, NEW p \in Positions, NEW file \in Songs, readSongArt(p, file),
           artState[p] = "none", pc' # "queue", UNCHANGED <<art, epoch, failed>>
    PROVE  Reading'
<1> DEFINE e == [position |-> p, file |-> file, epoch |-> epoch]
<1>1. /\ Range(readers') \subseteq Range(readers) \cup {e} /\ Range(readers) \subseteq Range(readers')
      /\ artState' = [artState EXCEPT ![p] = "reading"]
      /\ artState \in [Positions \cup {None} -> {"none", "reading", "read"}]
      /\ epoch \in Nat
  BY ReadSends DEF LoopTyped
<1>2. readers' = Append(readers, e)
  BY ReadSends
<1>3. e \in Range(readers')
  <2>1. e \in [position : Positions, file : Songs, epoch : Nat]
    BY <1>1
  <2>2. readers \in Seq([position : Positions, file : Songs, epoch : Nat])
    BY ReadersAreTyped
  <2> DEFINE S == [position : Positions, file : Songs, epoch : Nat]
  <2>3. Range(readers') = Range(readers) \cup {e}
    <3>1. e \in S /\ readers \in Seq(S)
      BY <2>1, <2>2
    <3> HIDE DEF e, S
    <3> QED
      BY <1>2, <3>1, RangeAppended
  <2> QED
    BY <2>3
<1>4. \A r \in Range(readers) : r.position # p \/ r.epoch # epoch
  BY DEF Reading
<1>5. OneReader'
  BY <1>4, OneReaderMore DEF Reading
<1>6. \A r \in Range(readers') : r.epoch <= epoch /\ (r.epoch = epoch => artState'[r.position] # "none")
  <2> TAKE r \in Range(readers')
  <2>1. CASE r = e
    BY <1>1, <2>1
  <2>2. CASE r \in Range(readers)
    <3>1. r.position \in Positions
      BY <2>2, ReadersAreTyped
    <3> QED
      BY <1>1, <2>2, <3>1 DEF Reading
  <2> QED
    BY <1>1, <2>1, <2>2
<1>7. ASSUME ~failed, NEW q \in Positions \cup {None}, artState'[q] = "reading"
      PROVE  \E r \in Range(readers') : r.position = q /\ r.epoch = epoch
  <2>1. CASE q = p
    BY <1>3, <2>1
  <2>2. CASE q # p
    BY <1>1, <1>7, <2>2 DEF Reading
  <2> QED
    BY <2>1, <2>2
<1>8. \A q \in Positions \cup {None} : artState'[q] = "read" => art[q] # None
  BY <1>1 DEF Reading
<1> QED
  BY <1>5, <1>6, <1>7, <1>8 DEF Reading

LEMMA ReadingNext ==
    ASSUME LoopTyped, Shaped, MediaNext, Reading
    PROVE  Reading'
<1> USE DEF mpd, loop, shown, pictures, player_history
<1>0. /\ epoch \in Nat /\ \A r \in Range(readers) : r.epoch \in Nat /\ r.position \in Positions
      /\ artState \in [Positions \cup {None} -> {"none", "reading", "read"}]
      /\ art \in [Positions \cup {None} -> Songs \cup {NoArt, None}]
  BY ReadersAreTyped DEF LoopTyped
<1>1. ASSUME UNCHANGED <<artState, art, readers, epoch, failed>>, pc' = "queue" => pc = "queue"
      PROVE  Reading'
  BY <1>1 DEF Reading, OneReader
<1>2. CASE DatabaseUpdate \/ Idle \/ EndOfBatch \/ handleDatabaseEvent \/ handlePlayerEvent
           \/ Answer \/ SongAnswered \/ LoopThrows
  BY <1>1, <1>2 DEF DatabaseUpdate, Idle, EndOfBatch, handleDatabaseEvent, handlePlayerEvent, Handles,
     Answer, SongAnswered, LoopThrows
<1>3. CASE MpdSent \/ Moves
  BY <1>1, <1>3 DEF MpdSent, Moves
<1>4. CASE handleQueueEvent
  <2>1. /\ epoch' = epoch + 1 /\ readers' = readers /\ failed' = failed
        /\ \A p \in Positions \cup {None} : artState'[p] = "none"
    BY <1>4 DEF handleQueueEvent, NoArtState
  <2>2. \A r \in Range(readers) : r.epoch <= epoch' /\ r.epoch # epoch'
    BY <1>0, <2>1 DEF Reading
  <2> QED
    BY <2>1, <2>2 DEF Reading, OneReader
<1>5. CASE QueueAnswered
  <2>1. answer.queue = queue /\ pc = "queue" /\ pc' = "next" /\ UNCHANGED <<art, epoch, failed>>
    BY <1>5 DEF QueueAnswered, Shaped
  <2>2. CASE queue = <<>>
    BY <1>1, <1>5, <2>1, <2>2 DEF QueueAnswered
  <2>3. CASE queue # <<>>
    <3>1. readSongArt(0, Head(queue)) /\ 0 \in Positions /\ Head(queue) \in Songs
      BY <1>5, <2>1, <2>3, PositionsOf DEF QueueAnswered, LoopTyped
    <3>2. artState[0] = "none"
      BY <2>1, <3>1 DEF Reading
    <3> QED
      BY <2>1, <3>1, <3>2, ReadingBegins
  <2> QED
    BY <2>2, <2>3
<1>6. CASE StatusAnswered
  <2>1. /\ UNCHANGED <<epoch, failed>> /\ pc' = "next" /\ target.file \in Songs \cup {None}
        /\ (target.file # None => target.position \in Positions)
        /\ (target.file = None => target.position = None)
    BY <1>6 DEF StatusAnswered, LoopTyped, Shaped
  <2>2. CASE UNCHANGED <<artState, art, readers>>
    BY <1>1, <2>1, <2>2
  <2>3. CASE /\ Wants(target.position) /\ target.file # None
             /\ readSongArt(target.position, target.file) /\ UNCHANGED art
    BY <2>1, <2>3, ReadingBegins DEF Wants
  <2>4. CASE /\ artState' = [artState EXCEPT ![None] = "read"]
             /\ art' = [art EXCEPT ![None] = NoArt]
             /\ UNCHANGED readers
    <3>1. \A p \in Positions \cup {None} : p # None => artState'[p] = artState[p] /\ art'[p] = art[p]
      BY <1>0, <2>4
    <3>2. artState'[None] = "read" /\ art'[None] = NoArt
      BY <1>0, <2>4
    <3> QED
      BY <1>0, <2>1, <2>4, <3>1, <3>2, PositionsOf DEF Reading, OneReader
  <2> QED
    BY <1>6, <2>2, <2>3, <2>4 DEF StatusAnswered
<1>7. ASSUME NEW i \in DOMAIN readers, ReadEnds(i) \/ ReadThrows(i)
      PROVE  Reading'
  <2> DEFINE r == readers[i]
  <2>1. /\ Range(readers') \subseteq Range(readers) /\ r \in Range(readers)
        /\ Range(readers) \ {r} \subseteq Range(readers')
        /\ r.position \in Positions /\ r.file \in Songs
        /\ UNCHANGED <<pc, epoch>> /\ readers' = RemoveAt(readers, i)
    BY <1>7, ReadGoes
  <2>2. OneReader'
    BY <2>1, OneReaderLess DEF Reading
  <2>3. CASE failed' /\ UNCHANGED <<artState, art>>
    BY <2>1, <2>2, <2>3 DEF Reading
  <2>4. CASE UNCHANGED <<artState, art, failed>> /\ artState[r.position] = "none"
    <3>1. ASSUME ~failed, NEW p \in Positions \cup {None}, artState[p] = "reading"
          PROVE  \E s \in Range(readers') : s.position = p /\ s.epoch = epoch
      <4>1. PICK s \in Range(readers) : s.position = p /\ s.epoch = epoch
        BY <3>1 DEF Reading
      <4> QED
        BY <2>1, <2>4, <3>1, <4>1
    <3> QED
      BY <2>1, <2>2, <2>4, <3>1 DEF Reading
  <2>5. CASE /\ artState' = [artState EXCEPT ![r.position] = "read"]
             /\ \E bytes \in {r.file, NoArt} : art' = [art EXCEPT ![r.position] = bytes]
             /\ UNCHANGED failed /\ artState[r.position] # "none"
    <3>1. /\ artState'[r.position] = "read" /\ art'[r.position] # None
          /\ \A p \in Positions \cup {None} : p # r.position =>
                artState'[p] = artState[p] /\ art'[p] = art[p]
      BY <1>0, <2>1, <2>5, PositionsOf
    <3>2. ASSUME ~failed, NEW p \in Positions \cup {None}, artState'[p] = "reading"
          PROVE  \E s \in Range(readers') : s.position = p /\ s.epoch = epoch
      <4>1. p # r.position /\ artState[p] = "reading"
        BY <3>1, <3>2
      <4>2. PICK s \in Range(readers) : s.position = p /\ s.epoch = epoch
        BY <3>2, <4>1 DEF Reading
      <4> QED
        BY <2>1, <4>1, <4>2
    <3>3. \A s \in Range(readers') : s.epoch = epoch => artState'[s.position] # "none"
      BY <1>0, <2>1, <3>1 DEF Reading
    <3>4. pc' # "queue"
      BY <2>1, <2>5 DEF Reading
    <3> QED
      BY <2>1, <2>2, <2>5, <3>1, <3>2, <3>3, <3>4 DEF Reading
  <2> QED
    BY <1>7, <2>3, <2>4, <2>5 DEF ReadEnds, ReadThrows
<1> QED
  BY <1>2, <1>3, <1>4, <1>5, <1>6, <1>7 DEF MediaNext

LEMMA WatchingNext ==
    ASSUME LoopTyped, Shaped, MediaNext, Followed, Watching
    PROVE  Watching'
<1> USE DEF mpd, loop, shown, pictures, player_history, PlayerDue
<1>0. artState \in [Positions \cup {None} -> {"none", "reading", "read"}]
      /\ position \in Positions \cup {None}
  BY DEF LoopTyped
<1>1. CASE DatabaseUpdate
  BY <1>1 DEF DatabaseUpdate, Watching
<1>2. CASE MpdSent
  <2>1. /\ UNCHANGED <<shown, pictures, pc, todo, target>> /\ mode' = "stopped" /\ events \subseteq events'
    BY <1>2, SentGoes DEF MpdSent
  <2> QED
    BY <2>1 DEF Watching
<1>3. CASE Moves
  <2>1. /\ UNCHANGED <<shown, pictures, pc, todo, target>>
        /\ "player" \in events' \/ UNCHANGED mpd
    BY <1>3 DEF Moves, PlayerMoved
  <2> QED
    BY <2>1 DEF Watching
<1>4. CASE Idle
  <2>1. Range(todo') = events /\ events' = {} /\ pc' = "next" /\ pc = "idle" /\ Range(todo) = {}
    BY <1>4, BatchesAnswer, RangeOne DEF Idle, LoopTyped, Shaped
  <2> QED
    BY <1>4, <2>1 DEF Idle, Watching
<1>5. CASE EndOfBatch
  BY <1>5 DEF EndOfBatch, Watching
<1>6. CASE handleDatabaseEvent
  <2>1. Range(todo) = {"database"} \cup Range(todo') /\ UNCHANGED <<mpd, pc, target, shown, pictures>>
    BY <1>6, HandlesOne DEF handleDatabaseEvent
  <2> QED
    BY <2>1 DEF Watching
<1>7. CASE handleQueueEvent
  BY <1>7 DEF handleQueueEvent, Watching
<1>8. CASE handlePlayerEvent
  BY <1>8 DEF handlePlayerEvent, Watching
<1>9. CASE Answer
  BY <1>9 DEF Answer, Watching
<1>10. CASE QueueAnswered
  <2>1. pc' = "next" /\ playState' = "stopped"
    BY <1>10 DEF QueueAnswered, Followed, Following
  <2> QED
    BY <2>1 DEF Watching
<1>11. CASE SongAnswered
  <2>1. /\ pc = "song" /\ pc' = "status" /\ answer # None /\ UNCHANGED <<mpd, todo>>
        /\ IF answer.current = None THEN target'.position = None
                                    ELSE position' = target'.position
    BY <1>11 DEF SongAnswered
  <2>2. target'.position = None /\ "player" \notin events => mode = "stopped"
    <3> SUFFICES ASSUME target'.position = None, "player" \notin events
                 PROVE  mode = "stopped"
      OBVIOUS
    <3>1. answer.current = current
      BY <2>1 DEF Followed, AnswerFresh
    <3>2. answer.current # None => target'.position = answer.current
      BY <1>11 DEF SongAnswered
    <3> QED
      BY <3>1, <3>2 DEF LoopTyped, DaemonIs
  <2> QED
    BY <2>1, <2>2 DEF Watching
<1>12. CASE StatusAnswered
  <2>1. /\ pc = "status" /\ pc' = "next" /\ answer # None
        /\ UNCHANGED <<mpd, todo, sent, playlist, song, position>>
        /\ playState' = answer.mode
    BY <1>12 DEF StatusAnswered
  <2>2. ASSUME answer.mode = "playing", "player" \notin events
        PROVE  artState'[position] # "none"
    <3>1. mode = "playing"
      BY <2>1, <2>2 DEF Followed, AnswerFresh
    <3>2. target.position # None /\ position = target.position /\ position \in Positions
          /\ target.file \in Songs
      BY <1>0, <2>1, <2>2, <3>1 DEF Watching, LoopTyped, Shaped
    <3>3. CASE artState[position] = "none"
      <4>1. readSongArt(position, target.file)
        BY <1>12, <2>2, <3>2, <3>3, PositionsOf DEF StatusAnswered, Wants
      <4> QED
        BY <1>0, <3>2, <4>1, ReadSends
    <3>4. CASE artState[position] # "none"
      BY <1>12, <3>2, <3>4 DEF StatusAnswered, Wants
    <3> QED
      BY <3>3, <3>4
  <2> QED
    BY <2>1, <2>2 DEF Watching
<1>13. ASSUME NEW i \in DOMAIN readers, ReadEnds(i) \/ ReadThrows(i)
       PROVE  Watching'
  <2>1. /\ UNCHANGED <<mpd, loop, shown>> /\ readers[i].position \in Positions
    BY <1>13, ReadGoes
  <2>2. \A p \in Positions \cup {None} : artState'[p] = "none" => artState[p] = "none"
    BY <1>0, <1>13, <2>1 DEF ReadEnds, ReadThrows
  <2> QED
    BY <1>0, <2>1, <2>2 DEF Watching
<1>14. CASE LoopThrows
  BY <1>14 DEF LoopThrows, Watching
<1> QED
  BY <1>1, <1>2, <1>3, <1>4, <1>5, <1>6, <1>7, <1>8, <1>9, <1>10, <1>11, <1>12, <1>13, <1>14
     DEF MediaNext

\* The song that plays has its picture, or a read that will bring it, and a picture
\* is read once at a time, for every library and interleaving.
THEOREM ArtOnItsWayHolds == PlayerSpec => []ArtOnItsWay
<1> DEFINE IInv == Shows /\ Reading /\ Watching
<1>1. PlayerInit => IInv
  BY ShowsInit, ReadingInit
<1>2. IInv /\ [PlayerNext]_player_vars => IInv'
  <2> SUFFICES ASSUME IInv, [PlayerNext]_player_vars
               PROVE  IInv'
    OBVIOUS
  <2>1. Shows' /\ MediaNext /\ LoopTyped /\ Shaped
    BY ShowsNext
  <2> QED
    BY <2>1, ReadingNext, WatchingNext DEF Shows
<1>3. IInv => ArtOnItsWay
  <2> SUFFICES ASSUME IInv, Settled, playState = "playing", ~failed
               PROVE  \/ art[position] # None
                      \/ \E i \in DOMAIN readers : readers[i].position = position /\ readers[i].epoch = epoch
    BY DEF ArtOnItsWay, Reading
  <2>1. /\ artState[position] # "none" /\ position \in Positions \cup {None}
        /\ artState[position] \in {"none", "reading", "read"}
    BY RangeOne, TypesTogether DEF Shows, PlayerTyped, Shaped, LoopTyped, Settled, PlayerDue, Watching
  <2>2. CASE artState[position] = "read"
    BY <2>1, <2>2 DEF Reading
  <2>3. CASE artState[position] = "reading"
    <3>1. PICK r \in Range(readers) : r.position = position /\ r.epoch = epoch
      BY <2>1, <2>3 DEF Reading
    <3> QED
      BY <3>1 DEF Range
  <2> QED
    BY <2>1, <2>2, <2>3
<1> QED
  BY <1>1, <1>2, <1>3, PTL DEF PlayerSpec

-----------------------------------------------------------------------------
(* The radio and the media player together.                                *)

PauseOnly == <<[name |-> "pause", on |-> TRUE]>>
Asked(name) == \E r \in Range(requests) : r.name = name

\* Of a user who waits, the source that is not chosen is silent or about to be: the
\* radio once a stop is answered, the media player once its pause is obeyed.  What the
\* radio did before is told of after a press only, which was hasty.
OneAtATime ==
    ~hasty /\ ~unheard =>
        /\ untold => /\ ~Asked("start") /\ ~Asked("stop")
                     /\ Range(statuses) \cap Playings = {}
        /\ source = "media" => ~Asked("start") /\ (on => Asked("stop") \/ untold)
        /\ source = "radio" => /\ ~untold /\ commands \in {<<>>, PauseOnly}
                               /\ mode = "playing" => commands = PauseOnly

LEMMA OneAtATimeInit == PlayerInit => OneAtATime
BY RangeOne DEF PlayerInit, RadioInit, OneAtATime, Asked

\* A frequency that is told says nothing of what plays.
LEMMA QuietTunes ==
    ASSUME RadioTypeOK, NEW f \in Nat, Tunes(f)
    PROVE  Range(statuses') \cap Playings = Range(statuses) \cap Playings
<1> DEFINE e == [frequency |-> f]
<1>1. /\ statuses \in Seq(Statuses) /\ e \in Statuses /\ e \notin Playings
      /\ statuses' = Append(statuses, e)
  BY StatusesAreOne DEF RadioTypeOK, Tunes
<1> HIDE DEF e
<1> QED
  BY <1>1, RangeAppended

\* What the radio does with its own requests.
LEMMA SilenceOfRadio ==
    ASSUME RadioTypeOK, Service \/ Client \/ Release, UNCHANGED <<hasty, source, commands, mode>>, OneAtATime
    PROVE  OneAtATime'
<1> USE DEF service, calls, start_up, RadioState, radio_history
<1>0. requests \in Seq(Requests)
  BY DEF RadioTypeOK
<1>1. ASSUME UNCHANGED <<on, unheard, requests, statuses, untold>>
      PROVE  OneAtATime'
  BY <1>1 DEF OneAtATime, Asked
<1>2. ASSUME NEW i \in DOMAIN requests, ServiceHandles(i) \/ RequestFails(i)
      PROVE  OneAtATime'
  <2> DEFINE r == requests[i]
  <2>1. Range(requests') \subseteq Range(requests) /\ Range(requests) \ {r} \subseteq Range(requests')
        /\ r \in Range(requests)
    <3>1. requests' = RemoveAt(requests, i)
      BY <1>2 DEF ServiceHandles, RequestFails
    <3>2. r \in Range(requests)
      BY DEF Range
    <3> QED
      BY <1>0, <3>1, <3>2, RangeRemoved
  <2>2. CASE r.name = "start"
    BY <1>2, <2>1, <2>2 DEF ServiceHandles, RequestFails, OneAtATime, Asked
  <2>3. CASE r.name = "stop"
    BY <1>2, <2>1, <2>3 DEF ServiceHandles, RequestFails, OneAtATime, Asked
  <2>4. CASE r.name # "start" /\ r.name # "stop"
    <3>1. on' = on /\ (unheard' \/ unheard' = unheard) /\ UNCHANGED untold
      BY <1>2, <2>4 DEF ServiceHandles, RequestFails, RadioTypeOK
    <3>4. Range(statuses') \cap Playings = Range(statuses) \cap Playings
      <4>1. CASE RequestFails(i) \/ r.name # "set"
        BY <1>2, <2>4, <4>1 DEF ServiceHandles, RequestFails
      <4>2. CASE ServiceHandles(i) /\ r.name = "set"
        <5>1. r \in Requests
          BY <1>0, ElementIs
        <5>2. r.to \in Nat /\ Tunes(r.to)
          BY <4>2, <5>1 DEF ServiceHandles, Requests
        <5> QED
          BY <5>2, QuietTunes
      <4> QED
        BY <1>2, <4>1, <4>2
    <3>2. (Asked("start"))' => Asked("start")
      BY <2>1 DEF Asked
    <3>3. Asked("stop") <=> (Asked("stop"))'
      BY <2>1, <2>4 DEF Asked
    <3> QED
      BY <3>1, <3>2, <3>3, <3>4, <1>2 DEF OneAtATime, ServiceHandles, RequestFails
  <2> QED
    BY <2>2, <2>3, <2>4
<1>3. CASE FetchBand \/ AnswerFrequency \/ FetchFrequency \/ FetchFails
  BY <1>1, <1>3 DEF FetchBand, AnswerFrequency, FetchFrequency, FetchFails
<1>4. CASE ScanStep
  <2>1. PICK f : Tunes(f)
    BY <1>4 DEF ScanStep
  <2>2. f \in Nat
    BY <1>4, <2>1, RadioTypeNext DEF RadioTypeOK, RadioNext, Service, Tunes
  <2>3. UNCHANGED <<on, unheard, requests, untold>>
    BY <1>4 DEF ScanStep
  <2>4. Range(statuses') \cap Playings = Range(statuses) \cap Playings
    BY <2>1, <2>2, QuietTunes
  <2> QED
    BY <2>3, <2>4 DEF OneAtATime, Asked
<1>5. CASE handleStatusEvent
  <2>1. /\ statuses \in Seq(Statuses) /\ statuses # <<>> /\ statuses' = Tail(statuses)
        /\ Head(statuses) \in Statuses /\ Range(statuses) = {Head(statuses)} \cup Range(statuses')
        /\ UNCHANGED <<on, unheard, requests>>
    BY <1>5, RangeTail DEF handleStatusEvent, RadioTypeOK
  <2>2. CASE Head(statuses) \in Playings
    BY <1>5, <2>1, <2>2, StatusesAreOne DEF handleStatusEvent, OneAtATime, Asked
  <2>3. CASE Head(statuses) \in Frequencies
    <3>1. UNCHANGED untold
      BY <1>5, <2>3, StatusesAreOne DEF handleStatusEvent
    <3> QED
      BY <2>1, <3>1 DEF OneAtATime, Asked
  <2> QED
    BY <2>1, <2>2, <2>3, StatusesAreOne
<1>6. CASE Release
  <2>1. dragged \in Nat
    BY <1>6 DEF Release, RadioTypeOK
  <2>2. setFrequency(dragged) \in Seq(Requests) /\ Range(setFrequency(dragged)) \subseteq [name : {"set"}, to : Nat]
    BY <2>1, TypeOfPresses, RangeOne DEF setFrequency
  <2>3. Range(requests') = Range(requests) \cup Range(setFrequency(dragged))
    BY <1>0, <1>6, <2>2, RangeJoined DEF Release, Sends
  <2>4. UNCHANGED <<on, unheard, statuses, untold>> /\ ((Asked("start"))' <=> Asked("start"))
        /\ ((Asked("stop"))' <=> Asked("stop"))
    BY <1>6, <2>2, <2>3 DEF Release, Asked
  <2> QED
    BY <2>4 DEF OneAtATime
<1> QED
  BY <1>2, <1>3, <1>4, <1>5, <1>6 DEF Service, Client

\* What a press does, of a user who waits and one who does not.
LEMMA SilenceOfPresses ==
    ASSUME Shows, User, OneAtATime
    PROVE  OneAtATime'
<1> USE DEF service, calls, start_up, RadioState, radio_history, mpd
<1>1. CASE PressRadioPage
  BY <1>1 DEF PressRadioPage, PressRadio, Drag, user, player_history, OneAtATime
<1>2. ASSUME NEW cs, NEW rs, NEW to, NEW going, Press(cs, rs, to, going), ~hasty', ~unheard'
      PROVE  /\ ~hasty /\ ~unheard /\ Settled /\ commands = <<>> /\ requests = <<>>
             /\ commands' = <<>> \o cs /\ requests' = <<>> \o rs /\ source' = to
             /\ UNCHANGED <<on, mode>> /\ ~untold' /\ playState = mode
             /\ ~Asked("start") /\ ~Asked("stop")
             /\ (source = "media" => ~on) /\ (source = "radio" => mode # "playing")
  <2>1. /\ ~hasty /\ ~unheard /\ Settled /\ commands = <<>> /\ requests = <<>>
        /\ commands' = <<>> \o cs /\ requests' = <<>> \o rs /\ source' = to
        /\ UNCHANGED <<on, mode>> /\ ~untold /\ ~untold' /\ "player" \notin unseen
    BY <1>2 DEF Press, Sends
  <2>2. playState = mode
    BY <2>1, RangeOne DEF Shows, PlayerTyped, Shaped, Settled, Followed, Following, PlayerDue
  <2>3. ~Asked("start") /\ ~Asked("stop")
    BY <2>1, RangeOne DEF Asked
  <2>4. PauseOnly # <<>>
    BY DEF PauseOnly
  <2> QED
    BY <2>1, <2>2, <2>3, <2>4 DEF OneAtATime
<1>3. /\ <<>> \o <<>> = <<>> /\ <<>> \o PauseOnly = PauseOnly /\ <<>> \o stop = stop
      /\ Range(stop) = {[name |-> "stop"]} /\ pause \in {<<>>, PauseOnly}
      /\ (playState = "playing" => pause = PauseOnly)
  <2>1. \A x : <<>> \o <<x>> = <<x>>
    OBVIOUS
  <2>2. <<>> \o <<>> = <<>>
    OBVIOUS
  <2>3. <<>> \o PauseOnly = PauseOnly /\ <<>> \o stop = stop
    BY <2>1 DEF PauseOnly, stop
  <2>4. Range(stop) = {[name |-> "stop"]}
    BY RangeOne DEF stop
  <2>5. pause \in {<<>>, PauseOnly} /\ (playState = "playing" => pause = PauseOnly)
    BY DEF pause, PauseOnly
  <2> QED
    BY <2>2, <2>3, <2>4, <2>5
<1>4. ASSUME NEW cs, PressMediaPage(cs), ~hasty', ~unheard'
      PROVE  OneAtATime'
  <2>1. Press(cs, <<>>, source, mediaPlaying) /\ source = "media"
    BY <1>4 DEF PressMediaPage
  <2>2. source' = "media" /\ requests' = <<>> /\ ~on' /\ ~untold'
    BY <1>2, <1>3, <1>4, <2>1
  <2> QED
    BY <2>2, RangeOne DEF OneAtATime, Asked
<1>5. CASE PressVolumeBar
  <2> SUFFICES ASSUME ~hasty', ~unheard'
               PROVE  OneAtATime'
    BY DEF OneAtATime
  <2>1. CASE source = "media"
    <3>1. PICK cs : Press(cs, <<>>, source, mediaPlaying)
      BY <1>5, <2>1 DEF PressVolumeBar
    <3> QED
      BY <1>4, <2>1, <3>1 DEF PressMediaPage
  <2>2. CASE source # "media"
    <3>1. PICK rs : Press(<<>>, rs, source, mediaPlaying)
      BY <1>5, <2>2 DEF PressVolumeBar
    <3>2. source' = source /\ ~untold' /\ commands' = <<>> /\ (source = "radio" => mode' # "playing")
      BY <1>2, <1>3, <3>1
    <3> QED
      BY <2>2, <3>2 DEF OneAtATime
  <2> QED
    BY <2>1, <2>2
<1>6. CASE PressFm
  <2> SUFFICES ASSUME ~hasty', ~unheard'
               PROVE  OneAtATime'
    BY DEF OneAtATime
  <2>1. /\ commands' = <<>> \o pause /\ source' = "radio" /\ mode' = mode /\ playState = mode
        /\ ~untold'
    BY <1>2, <1>6 DEF PressFm
  <2>2. <<>> \o pause = pause
    BY <1>3
  <2> QED
    BY <1>3, <2>1, <2>2 DEF OneAtATime
<1>7. CASE PressMedia
  <2> SUFFICES ASSUME ~hasty', ~unheard'
               PROVE  OneAtATime'
    BY DEF OneAtATime
  <2>1. requests' = <<>> \o stop /\ source' = "media" /\ ~untold'
    BY <1>2, <1>7 DEF PressMedia
  <2>2. Range(requests') = {[name |-> "stop"]}
    BY <1>3, <2>1
  <2>3. ~(Asked("start"))' /\ (Asked("stop"))'
    BY <2>2 DEF Asked
  <2> QED
    BY <2>1, <2>3 DEF OneAtATime
<1>8. CASE PressPlay \/ PressPrevious \/ PressNext \/ pickTrack
  <2>1. \E cs : PressMediaPage(cs)
    BY <1>8 DEF PressPlay, PressPrevious, PressNext, pickTrack
  <2> QED
    BY <1>4, <2>1 DEF OneAtATime
<1> QED
  BY <1>1, <1>5, <1>6, <1>7, <1>8 DEF User

LEMMA OneAtATimeNext ==
    ASSUME Shows, [PlayerNext]_player_vars, OneAtATime
    PROVE  OneAtATime'
<1>1. PlayerTypeOK /\ RadioTypeOK
  BY TypesTogether DEF Shows, PlayerTyped
<1>2. ASSUME UNCHANGED <<on, unheard, requests, statuses, untold, hasty, source, commands>>, mode' = mode \/ mode' = "stopped"
      PROVE  OneAtATime'
  BY <1>2 DEF OneAtATime, Asked
<1> USE DEF radio, service, calls, radio_history, user, player_history, mpd
<1>3. CASE (DatabaseUpdate \/ MpdSent \/ Loop \/ Reads) /\ UNCHANGED radio
  <2>1. UNCHANGED <<user, hasty>> /\ (mode' = mode \/ mode' = "stopped")
    BY <1>3 DEF DatabaseUpdate, MpdSent, Loop, Reads, Idle, EndOfBatch, handleDatabaseEvent,
       handleQueueEvent, handlePlayerEvent, Answer, QueueAnswered, SongAnswered, StatusAnswered,
       LoopThrows, ReadEnds, ReadThrows
  <2> QED
    BY <1>2, <1>3, <2>1
<1>4. CASE MpdCommand /\ UNCHANGED radio
  <2>1. /\ Head(commands) = [name |-> "pause", on |-> TRUE] => mode' # "playing"
        /\ commands # <<>> /\ commands' = Tail(commands) /\ UNCHANGED <<source, hasty>>
    BY <1>1, <1>4, CommandMoves DEF MpdCommand
  <2>2. Head(PauseOnly) = [name |-> "pause", on |-> TRUE] /\ Tail(PauseOnly) = <<>>
    BY DEF PauseOnly
  <2> QED
    BY <1>4, <2>1, <2>2 DEF OneAtATime, Asked
<1>5. CASE SongEnds /\ UNCHANGED radio
  <2>1. mode = "playing" /\ UNCHANGED <<user, hasty>>
    BY <1>5 DEF SongEnds
  <2> QED
    BY <1>5, <2>1 DEF OneAtATime, Asked
<1>6. CASE (Service \/ Client \/ Release) /\ UNCHANGED media
  BY <1>1, <1>6, SilenceOfRadio DEF media
<1>7. CASE UNCHANGED player_vars
  BY <1>2, <1>7 DEF player_vars, media
<1> QED
  BY <1>3, <1>4, <1>5, <1>6, <1>7, SilenceOfPresses DEF PlayerNext, Daemon

\* A user who waits for the screen before the next press never hears the radio and
\* the media player at once, whatever the library, the band and the bounds.
THEOREM OneSourceHolds == PlayerSpec => []OneSource
<1> DEFINE IInv == Shows /\ OneAtATime
<1>1. PlayerInit => IInv
  BY ShowsInit, OneAtATimeInit
<1>2. IInv /\ [PlayerNext]_player_vars => IInv'
  BY ShowsNext, OneAtATimeNext
<1>3. IInv => OneSource
  <2>1. PauseOnly # <<>>
    BY DEF PauseOnly
  <2>2. Shows => source \in {"media", "radio"}
    BY TypesTogether DEF Shows, PlayerTyped, UserTyped
  <2> QED
    BY <2>1, <2>2, RangeOne DEF OneAtATime, OneSource, Asked
<1> QED
  BY <1>1, <1>2, <1>3, PTL DEF PlayerSpec
=============================================================================
