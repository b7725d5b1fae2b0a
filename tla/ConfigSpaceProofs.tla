--------------------------- MODULE ConfigSpaceProofs ---------------------------
(***************************************************************************)
(* Proofs about ConfigSpace, for any features, devices, fields, regions,   *)
(* changes and binds.  Shapes are the types and where an access may be     *)
(* under way; Negotiated follows the features through a bind, Region the   *)
(* words of the memory region, Halves what the accesses of a read or a     *)
(* write so far have covered.  Covered is the arithmetic: the accesses     *)
(* vm_get and vm_set make for a field reach every byte of it.  Within      *)
(* bounds them from above, which completes the types.                      *)
(***************************************************************************)
EXTENDS ConfigSpace, TLAPS

-----------------------------------------------------------------------------
(* Types.                                                                  *)

Shapes ==
    /\ <<version, field>> \in Devices
    /\ offered \subseteq Features /\ accepted \subseteq Features
    /\ shm \in Regions /\ region \in [1..4 -> Nat]
    /\ k \in Nat /\ changes \in 0..MaxChanges
    /\ op \in {"none", "read", "write"}
    /\ op # "none" => pc \in {"probing", "running"}
    /\ op = "none" /\ pc # "shm" => k = 0
    /\ pc = "shm" => k \in 0..3

LEMMA Sizes ==
    /\ LowFeatures \cap HighFeatures = {} /\ Version1 \in HighFeatures
    /\ Ones \in Nat /\ MaxChanges \in Nat /\ Driver \in Nat /\ Driver > MaxChanges
    /\ Features = LowFeatures \cup HighFeatures
    /\ \A r \in Regions : r \in [1..4 -> Nat]
BY ConfigAssumption DEF Driver, Features

LEMMA ShapesInit == Init => Shapes
<1> SUFFICES ASSUME Init PROVE Shapes
  OBVIOUS
<1>1. region \in [1..4 -> Nat]
  BY DEF Init
<1>2. <<version, field>> \in Devices
  <2>1. PICK d \in Devices : version = d[1] /\ field = d[2]
    BY DEF Init
  <2> QED
    BY <2>1, ConfigAssumption
<1> QED
  BY <1>1, <1>2, Sizes DEF Init, Shapes

LEMMA ShapesNext ==
    ASSUME Shapes, [Next]_vars
    PROVE  Shapes'
<1> USE Sizes DEF device, space, access, vm_reset, vm_set_status
<1>1. CASE Bind
  BY <1>1 DEF Bind, Shapes, PutHalf
<1>2. CASE SetDriver
  BY <1>2 DEF SetDriver, Shapes, PutHalf
<1>3. CASE GetHigh
  BY <1>3 DEF GetHigh, Shapes, PutHalf
<1>4. CASE GetLow
  BY <1>4 DEF GetLow, Shapes, PutHalf
<1>5. CASE Finalize
  BY <1>5 DEF Finalize, Shapes, PutHalf
<1>6. CASE PutHigh
  BY <1>6 DEF PutHigh, Shapes, PutHalf
<1>7. CASE PutLow
  BY <1>7 DEF PutLow, Shapes, PutHalf
<1>8. CASE SetFeaturesOk
  BY <1>8 DEF SetFeaturesOk, Shapes, PutHalf
<1>9. CASE CheckFeaturesOk
  BY <1>9 DEF CheckFeaturesOk, Shapes, PutHalf
<1>10. CASE Fail
  BY <1>10 DEF Fail, Shapes, PutHalf
<1>11. CASE GetShmWord
  <2>1. region' \in [1..4 -> Nat] /\ k' \in 0..3 /\ (pc' # "shm" => k' = 0) /\ pc' \in {"shm", "probing"}
    BY <1>11 DEF GetShmWord, Shapes, Serving
  <2> QED
    BY <1>11, <2>1 DEF GetShmWord, Shapes
<1>12. CASE DriverOk
  BY <1>12 DEF DriverOk, Shapes, PutHalf
<1>13. CASE Unbind
  BY <1>13 DEF Unbind, Shapes, PutHalf
<1>14. CASE StartRead
  BY <1>14 DEF StartRead, Shapes, PutHalf
<1>15. CASE vm_get
  BY <1>15 DEF vm_get, Shapes, PutHalf
<1>16. CASE FinishRead
  BY <1>16 DEF FinishRead, Shapes, PutHalf
<1>17. CASE vm_set
  BY <1>17 DEF vm_set, Shapes, PutHalf
<1>18. CASE FinishWrite
  BY <1>18 DEF FinishWrite, Shapes, PutHalf
<1>19. CASE StartWrite
  BY <1>19 DEF StartWrite, Shapes, PutHalf
<1>20. CASE Change
  BY <1>20 DEF Change, Shapes, PutHalf
<1>21. CASE IrqStatus
  BY <1>21 DEF IrqStatus, Shapes, PutHalf
<1>22. CASE IrqAck
  BY <1>22 DEF IrqAck, Shapes, PutHalf
<1>23. CASE Exit
  BY <1>23 DEF Exit, Shapes, PutHalf
<1>24. CASE UNCHANGED vars
  BY <1>24 DEF vars, Shapes, PutHalf
<1> QED
  BY <1>1, <1>2, <1>3, <1>4, <1>5, <1>6, <1>7, <1>8, <1>9, <1>10, <1>11, <1>12, <1>13,
     <1>14, <1>15, <1>16, <1>17, <1>18, <1>19, <1>20, <1>21, <1>22, <1>23, <1>24 DEF Next,
     Negotiate, Access

-----------------------------------------------------------------------------
(* The features.                                                           *)

Chosen == {"puthigh", "putlow", "featuresok", "check", "shm", "probing", "running"}
Given == {"featuresok", "check", "shm", "probing", "running"}

\* How far the features are agreed on at each point of a bind.
Negotiated ==
    Serving =>
        /\ pc = "low" => features \subseteq offered
        /\ pc \in Chosen \cup {"finalize"} => features \subseteq offered \cap Supported
        /\ pc \in Chosen /\ version = 2 => Version1 \in features
        /\ pc = "putlow" => accepted \cap HighFeatures = features \cap HighFeatures
        /\ pc \in Given => accepted = features
        /\ status = "driver_ok" => pc = "running"

LEMMA NegotiatedInit == Init => Negotiated
BY DEF Init, Negotiated, Chosen, Given

LEMMA NegotiatedNext ==
    ASSUME Shapes, Negotiated, [Next]_vars
    PROVE  Negotiated'
<1> USE Sizes DEF device, space, access, vm_reset, vm_set_status
<1>1. CASE Bind
  BY <1>1 DEF Bind, Shapes, Negotiated, Serving, Chosen, Given, PutHalf, Offers
<1>2. CASE SetDriver
  BY <1>2 DEF SetDriver, Shapes, Negotiated, Serving, Chosen, Given, PutHalf, Offers
<1>3. CASE GetHigh
  BY <1>3 DEF GetHigh, Shapes, Negotiated, Serving, Chosen, Given, PutHalf, Offers
<1>4. CASE GetLow
  BY <1>4 DEF GetLow, Shapes, Negotiated, Serving, Chosen, Given, PutHalf, Offers
<1>5. CASE Finalize
  BY <1>5 DEF Finalize, Shapes, Negotiated, Serving, Chosen, Given, PutHalf, Offers
<1>6. CASE PutHigh
  BY <1>6 DEF PutHigh, Shapes, Negotiated, Serving, Chosen, Given, PutHalf, Offers
<1>7. CASE PutLow
  BY <1>7 DEF PutLow, Shapes, Negotiated, Serving, Chosen, Given, PutHalf, Offers
<1>8. CASE SetFeaturesOk
  BY <1>8 DEF SetFeaturesOk, Shapes, Negotiated, Serving, Chosen, Given, PutHalf, Offers
<1>9. CASE CheckFeaturesOk
  BY <1>9 DEF CheckFeaturesOk, Shapes, Negotiated, Serving, Chosen, Given, PutHalf, Offers
<1>10. CASE Fail
  BY <1>10 DEF Fail, Shapes, Negotiated, Serving, Chosen, Given, PutHalf, Offers
<1>11. CASE GetShmWord
  BY <1>11 DEF GetShmWord, Shapes, Negotiated, Serving, Chosen, Given, PutHalf, Offers
<1>12. CASE DriverOk
  BY <1>12 DEF DriverOk, Shapes, Negotiated, Serving, Chosen, Given, PutHalf, Offers
<1>13. CASE Unbind
  BY <1>13 DEF Unbind, Shapes, Negotiated, Serving, Chosen, Given, PutHalf, Offers
<1>14. CASE StartRead
  BY <1>14 DEF StartRead, Shapes, Negotiated, Serving, Chosen, Given, PutHalf, Offers
<1>15. CASE vm_get
  BY <1>15 DEF vm_get, Shapes, Negotiated, Serving, Chosen, Given, PutHalf, Offers
<1>16. CASE FinishRead
  BY <1>16 DEF FinishRead, Shapes, Negotiated, Serving, Chosen, Given, PutHalf, Offers
<1>17. CASE vm_set
  BY <1>17 DEF vm_set, Shapes, Negotiated, Serving, Chosen, Given, PutHalf, Offers
<1>18. CASE FinishWrite
  BY <1>18 DEF FinishWrite, Shapes, Negotiated, Serving, Chosen, Given, PutHalf, Offers
<1>19. CASE StartWrite
  BY <1>19 DEF StartWrite, Shapes, Negotiated, Serving, Chosen, Given, PutHalf, Offers
<1>20. CASE Change
  BY <1>20 DEF Change, Shapes, Negotiated, Serving, Chosen, Given, PutHalf, Offers
<1>21. CASE IrqStatus
  BY <1>21 DEF IrqStatus, Shapes, Negotiated, Serving, Chosen, Given, PutHalf, Offers
<1>22. CASE IrqAck
  BY <1>22 DEF IrqAck, Shapes, Negotiated, Serving, Chosen, Given, PutHalf, Offers
<1>23. CASE Exit
  BY <1>23 DEF Exit, Shapes, Negotiated, Serving, Chosen, Given, PutHalf, Offers
<1>24. CASE UNCHANGED vars
  BY <1>24 DEF vars, Shapes, Negotiated, Serving, Chosen, Given, PutHalf, Offers
<1> QED
  BY <1>1, <1>2, <1>3, <1>4, <1>5, <1>6, <1>7, <1>8, <1>9, <1>10, <1>11, <1>12, <1>13,
     <1>14, <1>15, <1>16, <1>17, <1>18, <1>19, <1>20, <1>21, <1>22, <1>23, <1>24 DEF Next,
     Negotiate, Access

\* No device is told DRIVER_OK with features it did not offer, does not know or,
\* in version 2, without VERSION_1.
THEOREM FeaturesAgreed == Spec => []NegotiatedBeforeUse
<1>1. Negotiated => NegotiatedBeforeUse
  BY DEF Negotiated, NegotiatedBeforeUse, Chosen, Given
<1> QED
  BY <1>1, ShapesInit, NegotiatedInit, ShapesNext, NegotiatedNext, PTL DEF Spec

-----------------------------------------------------------------------------
(* The memory region.                                                      *)

\* The words read so far are the device's, and past the length it has a region.
Region ==
    Serving =>
        /\ pc = "shm" => /\ \A w \in 1..4 : w <= k => region[w] = shm[w]
                         /\ k >= 2 => ~Missing(shm)
        /\ pc \in {"probing", "running"} =>
              IF Missing(shm) THEN Missing(region) ELSE region = shm

LEMMA RegionInit == Init => Region
BY DEF Init, Region

LEMMA RegionNext ==
    ASSUME Shapes, Region, [Next]_vars
    PROVE  Region'
<1> USE Sizes DEF device, space, access, vm_reset, vm_set_status
<1>1. CASE Bind
  BY <1>1 DEF Bind, Shapes, Region, Serving, Missing
<1>2. CASE SetDriver
  BY <1>2 DEF SetDriver, Shapes, Region, Serving, Missing
<1>3. CASE GetHigh
  BY <1>3 DEF GetHigh, Shapes, Region, Serving, Missing
<1>4. CASE GetLow
  BY <1>4 DEF GetLow, Shapes, Region, Serving, Missing
<1>5. CASE Finalize
  BY <1>5 DEF Finalize, Shapes, Region, Serving, Missing
<1>6. CASE PutHigh
  BY <1>6 DEF PutHigh, Shapes, Region, Serving, Missing
<1>7. CASE PutLow
  BY <1>7 DEF PutLow, Shapes, Region, Serving, Missing
<1>8. CASE SetFeaturesOk
  BY <1>8 DEF SetFeaturesOk, Shapes, Region, Serving, Missing
<1>9. CASE CheckFeaturesOk
  BY <1>9 DEF CheckFeaturesOk, Shapes, Region, Serving, Missing
<1>10. CASE Fail
  BY <1>10 DEF Fail, Shapes, Region, Serving, Missing
<1>11. CASE GetShmWord
  <2> SUFFICES ASSUME Serving PROVE Region'
    BY <1>11 DEF GetShmWord, Region, Serving
  <2>1. /\ pc = "shm" /\ shm' = shm /\ shm \in [1..4 -> Nat] /\ k \in 0..3
        /\ region' = [region EXCEPT ![k + 1] = shm[k + 1]]
        /\ region \in [1..4 -> Nat] /\ region' \in [1..4 -> Nat] /\ Serving'
    BY <1>11 DEF GetShmWord, Shapes, Serving
  <2>2. \A w \in 1..4 : w <= k + 1 => region'[w] = shm[w]
    BY <2>1 DEF Region
  <2>3. k >= 1 => (Missing(region') <=> Missing(shm))
    BY <2>1, <2>2 DEF Missing
  <2>4. CASE k = 3
    <3>1. region' = shm
      BY <2>1, <2>2, <2>4
    <3>2. pc' = "probing" /\ ~Missing(shm)
      BY <1>11, <2>1, <2>4 DEF GetShmWord, Region
    <3> QED
      BY <2>1, <3>1, <3>2 DEF Region
  <2>5. CASE k = 1 /\ Missing(region')
    <3>1. pc' = "probing" /\ Missing(shm)
      BY <1>11, <2>3, <2>5 DEF GetShmWord
    <3> QED
      BY <2>1, <2>5, <3>1 DEF Region, Missing
  <2>6. CASE ~(k = 3 \/ (k = 1 /\ Missing(region')))
    <3>1. pc' = "shm" /\ k' = k + 1
      BY <1>11, <2>6 DEF GetShmWord
    <3>2. k' >= 2 => ~Missing(shm)
      BY <2>1, <2>3, <2>6, <3>1 DEF Region
    <3> QED
      BY <2>1, <2>2, <3>1, <3>2 DEF Region
  <2> QED
    BY <2>4, <2>5, <2>6
<1>12. CASE DriverOk
  BY <1>12 DEF DriverOk, Shapes, Region, Serving, Missing
<1>13. CASE Unbind
  BY <1>13 DEF Unbind, Shapes, Region, Serving, Missing
<1>14. CASE StartRead
  BY <1>14 DEF StartRead, Shapes, Region, Serving, Missing
<1>15. CASE vm_get
  BY <1>15 DEF vm_get, Shapes, Region, Serving, Missing
<1>16. CASE FinishRead
  BY <1>16 DEF FinishRead, Shapes, Region, Serving, Missing
<1>17. CASE vm_set
  BY <1>17 DEF vm_set, Shapes, Region, Serving, Missing
<1>18. CASE FinishWrite
  BY <1>18 DEF FinishWrite, Shapes, Region, Serving, Missing
<1>19. CASE StartWrite
  BY <1>19 DEF StartWrite, Shapes, Region, Serving, Missing
<1>20. CASE Change
  BY <1>20 DEF Change, Shapes, Region, Serving, Missing
<1>21. CASE IrqStatus
  BY <1>21 DEF IrqStatus, Shapes, Region, Serving, Missing
<1>22. CASE IrqAck
  BY <1>22 DEF IrqAck, Shapes, Region, Serving, Missing
<1>23. CASE Exit
  BY <1>23 DEF Exit, Shapes, Region, Serving, Missing
<1>24. CASE UNCHANGED vars
  BY <1>24 DEF vars, Shapes, Region, Serving, Missing
<1> QED
  BY <1>1, <1>2, <1>3, <1>4, <1>5, <1>6, <1>7, <1>8, <1>9, <1>10, <1>11, <1>12, <1>13,
     <1>14, <1>15, <1>16, <1>17, <1>18, <1>19, <1>20, <1>21, <1>22, <1>23, <1>24 DEF Next,
     Negotiate, Access

-----------------------------------------------------------------------------
(* The field.                                                              *)

\* Whatever its width, a field's accesses reach every byte.
LEMMA Covered ==
    ASSUME Shapes, NEW b \in Bytes
    PROVE  \E n \in Nat : n < Accesses /\ b \in Chunk(n)
<1> DEFINE c == field.count
<1>1. version \in {1, 2} /\ c \in Nat /\ field.bytes \in {1, 2, 4, 8}
  BY ConfigAssumption DEF Shapes
<1>2. b \in Nat /\ b < c * field.bytes
  BY <1>1 DEF Bytes
<1>3. CASE version = 1
  BY <1>1, <1>2, <1>3 DEF Accesses, Chunk
<1>4. CASE version = 2 /\ field.bytes = 1
  BY <1>1, <1>2, <1>4 DEF Accesses, Chunk
<1>5. CASE version = 2 /\ field.bytes = 2
  <2>1. PICK n \in Nat : n * 2 <= b /\ b < n * 2 + 2
    <3>1. b \div 2 \in Nat /\ (b \div 2) * 2 <= b /\ b < (b \div 2) * 2 + 2
      BY <1>2
    <3> QED
      BY <3>1
  <2>2. n < c /\ b \in n * 2..n * 2 + 2 - 1
    BY <1>1, <1>2, <1>5, <2>1
  <2> QED
    BY <1>1, <1>5, <2>2 DEF Accesses, Chunk
<1>6. CASE version = 2 /\ field.bytes = 4
  <2>1. PICK n \in Nat : n * 4 <= b /\ b < n * 4 + 4
    <3>1. b \div 4 \in Nat /\ (b \div 4) * 4 <= b /\ b < (b \div 4) * 4 + 4
      BY <1>2
    <3> QED
      BY <3>1
  <2>2. n < c /\ b \in n * 4..n * 4 + 4 - 1
    BY <1>1, <1>2, <1>6, <2>1
  <2> QED
    BY <1>1, <1>6, <2>2 DEF Accesses, Chunk
<1>7. CASE version = 2 /\ field.bytes = 8
  <2>1. PICK n \in Nat : n * 4 <= b /\ b < n * 4 + 4
    <3>1. b \div 4 \in Nat /\ (b \div 4) * 4 <= b /\ b < (b \div 4) * 4 + 4
      BY <1>2
    <3> QED
      BY <3>1
  <2>2. n < c * 2 /\ b \in n * 4..n * 4 + 3
    BY <1>1, <1>2, <1>7, <2>1
  <2> QED
    BY <1>1, <1>7, <2>2 DEF Accesses, Chunk
<1> QED
  BY <1>1, <1>3, <1>4, <1>5, <1>6, <1>7

\* A version 2 device's scalar of up to four bytes is one access.
LEMMA OneAccess ==
    ASSUME Shapes, version = 2, ~Guarded
    PROVE  Accesses = 1
<1>1. field.count \in Nat \ {0} /\ field.count = 1
  BY ConfigAssumption DEF Shapes, Guarded
<1> QED
  BY <1>1 DEF Guarded, Accesses

Reached == {b \in Bytes : \E n \in Nat : n < k /\ b \in Chunk(n)}

LEMMA ReachedAll ==
    ASSUME Shapes, k = Accesses
    PROVE  Reached = Bytes
BY Covered DEF Reached

\* All bytes but the driver's own are of one moment.
OneMoment(f, S) == \E c \in Nat : \A b \in S : f[b] \in {c, Driver}

\* The device's bytes are of its last change or the driver's; a read that still has
\* the generation of the device has its bytes, and a write that was not disturbed has
\* put its own.
Halves ==
    Serving =>
        /\ \A b \in Bytes : config[b] \in {changes, Driver}
        /\ op = "read" /\ version = 2 /\ Guarded => gen \in Nat /\ gen <= changes
        /\ op = "read" /\ version = 2 /\ Guarded /\ gen = changes =>
              \A b \in Reached : buf[b] \in {changes, Driver}
        /\ op = "read" /\ version = 2 /\ ~Guarded => OneMoment(buf, Reached)
        /\ done = "read" /\ version = 2 => OneMoment(copy, Bytes)
        /\ op = "write" => \A b \in Bytes : buf[b] = Driver
        /\ op = "write" /\ undisturbed => \A b \in Reached : config[b] = Driver
        /\ op # "write" /\ done = "write" /\ undisturbed =>
              \A b \in Bytes : config[b] = Driver

LEMMA HalvesInit == Init => Halves
<1> SUFFICES ASSUME Init PROVE Halves
  OBVIOUS
<1>1. changes = 0 /\ op = "none" /\ done = "none" /\ \A b \in Bytes : config[b] = 0
  BY DEF Init
<1> QED
  BY <1>1 DEF Halves

\* Steps that leave the field and its accesses alone.
LEMMA HalvesKept ==
    ASSUME Halves, UNCHANGED <<config, changes, op, k, gen, buf, copy, undisturbed, version, field>>,
           Serving' => Serving, done' \in {done, "none"}
    PROVE  Halves'
<1>1. Bytes' = Bytes /\ (Guarded' <=> Guarded) /\ Reached' = Reached
  BY DEF Bytes, Guarded, Reached, Chunk
<1>2. CASE ~Serving'
  BY <1>2 DEF Halves
<1>3. CASE Serving'
  BY <1>1, <1>3 DEF Halves, OneMoment
<1> QED
  BY <1>2, <1>3

LEMMA HalvesNext ==
    ASSUME Shapes, Halves, [Next]_vars
    PROVE  Halves'
<1> USE Sizes DEF device, space, access, vm_reset, vm_set_status
<1>1. CASE Bind
  <2>1. op = "none" /\ op' = "none" /\ done' = "none"
    BY <1>1 DEF Bind, Shapes
  <2>2. config' = config /\ changes' = changes /\ Bytes' = Bytes /\ (Serving' <=> Serving)
    BY <1>1 DEF Bind, Bytes, Serving
  <2> QED
    BY <2>1, <2>2 DEF Halves
<1>2. CASE SetDriver
  BY <1>2, HalvesKept DEF SetDriver, Serving
<1>3. CASE GetHigh
  BY <1>3, HalvesKept DEF GetHigh, Serving
<1>4. CASE GetLow
  BY <1>4, HalvesKept DEF GetLow, Serving
<1>5. CASE Finalize
  BY <1>5, HalvesKept DEF Finalize, Serving
<1>6. CASE PutHigh
  BY <1>6, HalvesKept DEF PutHigh, Serving
<1>7. CASE PutLow
  BY <1>7, HalvesKept DEF PutLow, Serving
<1>8. CASE SetFeaturesOk
  BY <1>8, HalvesKept DEF SetFeaturesOk, Serving
<1>9. CASE CheckFeaturesOk
  BY <1>9, HalvesKept DEF CheckFeaturesOk, Serving
<1>10. CASE Fail
  BY <1>10, HalvesKept DEF Fail, Serving
<1>11. CASE GetShmWord
  <2>1. op = "none" /\ op' = "none" /\ done' = done /\ undisturbed' = undisturbed /\ copy' = copy
    BY <1>11 DEF GetShmWord, Shapes
  <2>2. /\ config' = config /\ changes' = changes /\ Bytes' = Bytes /\ version' = version
        /\ (Serving' <=> Serving)
    BY <1>11 DEF GetShmWord, Bytes, Serving
  <2> QED
    BY <2>1, <2>2 DEF Halves, OneMoment
<1>12. CASE DriverOk
  BY <1>12, HalvesKept DEF DriverOk, Serving
<1>13. CASE Unbind
  BY <1>13, HalvesKept DEF Unbind, Serving
<1>14. CASE StartRead
  <2>1. /\ Bytes' = Bytes /\ (Guarded' <=> Guarded) /\ (Serving' <=> Serving)
        /\ version' = version /\ field' = field
    BY <1>14 DEF StartRead, Bytes, Guarded, Serving
  <2>2. /\ op = "none" /\ op' = "read" /\ k' = 0 /\ config' = config /\ changes' = changes
        /\ done' = done /\ undisturbed' = undisturbed /\ copy' = copy
        /\ (Guarded => gen' = vm_generation)
    BY <1>14 DEF StartRead
  <2>3. Reached' = {}
    BY <2>2 DEF Reached
  <2>4. Serving /\ version = 2 /\ Guarded => gen' = changes /\ changes \in Nat
    BY <2>2 DEF vm_generation, Shapes
  <2> QED
    BY <2>1, <2>2, <2>3, <2>4 DEF Halves, OneMoment
<1>15. CASE vm_get
  <2>1. /\ Bytes' = Bytes /\ (Guarded' <=> Guarded) /\ (Serving' <=> Serving)
        /\ version' = version /\ field' = field
    BY <1>15 DEF vm_get, Bytes, Guarded, Serving
  <2>2. /\ op = "read" /\ op' = "read" /\ k' = k + 1 /\ k \in Nat /\ k < Accesses
        /\ config' = config /\ changes' = changes /\ changes \in Nat /\ gen' = gen
        /\ done' = done /\ undisturbed' = undisturbed /\ copy' = copy
    BY <1>15 DEF vm_get, Shapes
  <2>3. Serving => \A b \in Bytes : buf'[b] = IF b \in Chunk(k) THEN config[b] ELSE buf[b]
    BY <1>15 DEF vm_get
  <2>4. Reached' = Reached \cup {b \in Bytes : b \in Chunk(k)}
    <3>1. \A n \in Nat : n < k' <=> n < k \/ n = k
      BY <2>2
    <3>2. \A n : Chunk(n)' = Chunk(n)
      BY <2>1 DEF Chunk
    <3>3. Reached' = {b \in Bytes : \E n \in Nat : n < k' /\ b \in Chunk(n)}
      BY <2>1, <3>2 DEF Reached
    <3> QED
      BY <2>2, <3>1, <3>3 DEF Reached
  <2>5. Serving /\ version = 2 /\ Guarded /\ gen = changes =>
            \A b \in Reached' : buf'[b] \in {changes, Driver}
    BY <2>2, <2>3, <2>4 DEF Halves, Reached
  <2>6. Serving /\ version = 2 /\ ~Guarded => OneMoment(buf', Reached')
    <3> SUFFICES ASSUME Serving, version = 2, ~Guarded PROVE OneMoment(buf', Reached')
      OBVIOUS
    <3>1. k = 0
      BY <2>2, OneAccess
    <3>2. Reached = {}
      BY <3>1 DEF Reached
    <3>3. \A b \in Reached' : buf'[b] \in {changes, Driver}
      BY <2>3, <2>4, <3>2 DEF Halves
    <3> QED
      BY <2>2, <3>3 DEF OneMoment
  <2> QED
    BY <2>1, <2>2, <2>5, <2>6 DEF Halves, OneMoment
<1>16. CASE FinishRead
  <2>1. /\ Bytes' = Bytes /\ (Guarded' <=> Guarded) /\ (Serving' <=> Serving)
        /\ version' = version /\ field' = field
    BY <1>16 DEF FinishRead, Bytes, Guarded, Serving
  <2>2. /\ op = "read" /\ k = Accesses /\ k' = 0
        /\ config' = config /\ changes' = changes /\ changes \in Nat /\ undisturbed' = undisturbed
    BY <1>16 DEF FinishRead, Shapes
  <2>3. Reached = Bytes
    BY <2>2, ReachedAll
  <2>4. CASE op' = "read"
    <3>1. Reached' = {}
      BY <2>2 DEF Reached
    <3>2. copy' = copy /\ done' = done /\ gen' = vm_generation
      BY <1>16, <2>4 DEF FinishRead
    <3>3. Serving /\ version = 2 => gen' = changes
      BY <3>2 DEF vm_generation
    <3> QED
      BY <2>1, <2>2, <2>4, <3>1, <3>2, <3>3 DEF Halves, OneMoment
  <2>5. CASE op' # "read"
    <3>1. op' = "none" /\ copy' = buf /\ done' = "read" /\ (Guarded => gen = vm_generation)
      BY <1>16, <2>2, <2>5 DEF FinishRead
    <3>2. Serving /\ version = 2 /\ Guarded => \A b \in Bytes : buf[b] \in {changes, Driver}
      BY <2>2, <2>3, <3>1 DEF Halves, vm_generation
    <3>3. Serving /\ version = 2 => OneMoment(buf, Bytes)
      BY <2>2, <2>3, <3>2 DEF Halves, OneMoment
    <3> QED
      BY <2>1, <2>2, <3>1, <3>3 DEF Halves, OneMoment
  <2> QED
    BY <2>4, <2>5
<1>17. CASE vm_set
  <2>1. /\ Bytes' = Bytes /\ (Guarded' <=> Guarded) /\ (Serving' <=> Serving)
        /\ version' = version /\ field' = field
    BY <1>17 DEF vm_set, Bytes, Guarded, Serving
  <2>2. /\ op = "write" /\ op' = "write" /\ k' = k + 1 /\ k \in Nat
        /\ changes' = changes /\ buf' = buf /\ done' = done /\ undisturbed' = undisturbed
        /\ copy' = copy
    BY <1>17 DEF vm_set, Shapes
  <2>3. Serving => \A b \in Bytes : config'[b] = IF b \in Chunk(k) THEN Driver ELSE config[b]
    BY <1>17, <2>2 DEF vm_set, Halves
  <2>4. Reached' = Reached \cup {b \in Bytes : b \in Chunk(k)}
    <3>1. \A n \in Nat : n < k' <=> n < k \/ n = k
      BY <2>2
    <3>2. \A n : Chunk(n)' = Chunk(n)
      BY <2>1 DEF Chunk
    <3>3. Reached' = {b \in Bytes : \E n \in Nat : n < k' /\ b \in Chunk(n)}
      BY <2>1, <3>2 DEF Reached
    <3> QED
      BY <2>2, <3>1, <3>3 DEF Reached
  <2>5. Serving /\ undisturbed => \A b \in Reached' : config'[b] = Driver
    BY <2>2, <2>3, <2>4 DEF Halves, Reached
  <2>6. Serving => \A b \in Bytes : config'[b] \in {changes, Driver}
    BY <2>3 DEF Halves
  <2> QED
    BY <2>1, <2>2, <2>5, <2>6 DEF Halves, OneMoment
<1>18. CASE FinishWrite
  <2>1. /\ Bytes' = Bytes /\ (Guarded' <=> Guarded) /\ (Serving' <=> Serving)
        /\ version' = version /\ field' = field
    BY <1>18 DEF FinishWrite, Bytes, Guarded, Serving
  <2>2. /\ op = "write" /\ op' = "none" /\ k = Accesses /\ done' = "write"
        /\ config' = config /\ changes' = changes /\ undisturbed' = undisturbed
    BY <1>18 DEF FinishWrite
  <2>3. Reached = Bytes
    BY <2>2, ReachedAll
  <2> QED
    BY <2>1, <2>2, <2>3 DEF Halves
<1>19. CASE StartWrite
  <2>1. /\ Bytes' = Bytes /\ (Guarded' <=> Guarded) /\ (Serving' <=> Serving)
        /\ version' = version /\ field' = field
    BY <1>19 DEF StartWrite, Bytes, Guarded, Serving
  <2>2. /\ op' = "write" /\ k' = 0 /\ config' = config /\ changes' = changes
        /\ done' = done /\ copy' = copy /\ \A b \in Bytes : buf'[b] = Driver
    BY <1>19 DEF StartWrite
  <2>3. Reached' = {}
    BY <2>2 DEF Reached
  <2> QED
    BY <2>1, <2>2, <2>3 DEF Halves, OneMoment
<1>20. CASE Change
  <2>1. /\ Bytes' = Bytes /\ (Guarded' <=> Guarded) /\ (Serving' <=> Serving)
        /\ version' = version /\ field' = field
    BY <1>20 DEF Change, Bytes, Guarded, Serving
  <2>2. /\ changes \in Nat /\ changes' = changes + 1 /\ ~undisturbed' /\ op' = op /\ k' = k
        /\ gen' = gen /\ buf' = buf /\ copy' = copy /\ done' = done
        /\ \A b \in Bytes : config'[b] = changes'
    BY <1>20 DEF Change, Shapes
  <2>3. Reached' = Reached
    BY <2>1, <2>2 DEF Reached, Chunk
  <2>4. Serving /\ op = "read" /\ version = 2 /\ Guarded => gen \in Nat /\ gen <= changes
    BY DEF Halves
  <2> QED
    BY <2>1, <2>2, <2>3, <2>4 DEF Halves, OneMoment
<1>21. CASE IrqStatus
  BY <1>21, HalvesKept DEF IrqStatus, Serving
<1>22. CASE IrqAck
  BY <1>22, HalvesKept DEF IrqAck, Serving
<1>23. CASE Exit
  BY <1>23, HalvesKept DEF Exit, Serving
<1>24. CASE UNCHANGED vars
  BY <1>24, HalvesKept DEF vars, Serving
<1> QED
  BY <1>1, <1>2, <1>3, <1>4, <1>5, <1>6, <1>7, <1>8, <1>9, <1>10, <1>11, <1>12, <1>13,
     <1>14, <1>15, <1>16, <1>17, <1>18, <1>19, <1>20, <1>21, <1>22, <1>23, <1>24 DEF Next,
     Negotiate, Access

\* What takes several accesses arrives whole: a memory region, a read of a version 2
\* device's field of any width, and a write nobody interferes with.
THEOREM WordsArriveWhole == Spec => []ArrivesWhole
<1>1. Region => RegionWhole
  BY DEF Region, RegionWhole
<1>2. Halves => NoTornRead
  BY DEF Halves, NoTornRead, OneMoment
<1>3. Halves => WriteArrives
  BY DEF Halves, WriteArrives
<1> QED
  BY <1>1, <1>2, <1>3, ShapesInit, RegionInit, HalvesInit, ShapesNext, RegionNext,
     HalvesNext,
     PTL DEF Spec, ArrivesWhole
-----------------------------------------------------------------------------
(* All types.                                                              *)

\* An access under way has not made more register accesses than its field takes.
Within == op # "none" => k <= Accesses

\* A field takes no more accesses than it has bytes.
LEMMA Limit ==
    ASSUME Shapes
    PROVE  /\ Accesses \in Nat /\ field.count * field.bytes \in Nat
           /\ Accesses <= field.count * field.bytes
<1>1. version \in {1, 2} /\ field.count \in Nat /\ field.bytes \in {1, 2, 4, 8}
  BY ConfigAssumption DEF Shapes
<1>2. Accesses \in Nat /\ field.count * field.bytes \in Nat
  BY <1>1 DEF Accesses
<1>3. Accesses <= field.count * field.bytes
  BY <1>1 DEF Accesses
<1> QED
  BY <1>2, <1>3

LEMMA TypeInit == Init => TypeOK /\ Within
<1> SUFFICES ASSUME Init PROVE TypeOK /\ Within
  OBVIOUS
<1>1. <<version, field>> \in Devices /\ region \in [1..4 -> Nat]
  BY ShapesInit DEF Shapes
<1>2. {config, buf, copy} \subseteq [Bytes -> Marks]
  BY Sizes DEF Init, Unread, Marks
<1>3. /\ changes \in 0..MaxChanges /\ gen \in 0..MaxChanges /\ binds \in 0..MaxBinds
      /\ {offered, accepted, features} \subseteq SUBSET Features
  BY Sizes, ConfigAssumption DEF Init
<1> QED
  BY <1>1, <1>2, <1>3 DEF Init, TypeOK, Within, Statuses

\* The device and its field stay what they are.
LEMMA DeviceStays == [Next]_vars => version' = version /\ field' = field
BY DEF Bind, SetDriver, GetHigh, GetLow, Finalize, PutHigh, PutLow, SetFeaturesOk,
   CheckFeaturesOk, Fail, GetShmWord, DriverOk, Unbind, StartRead, vm_get, FinishRead,
   vm_set, FinishWrite, StartWrite, Change, IrqStatus, IrqAck, Exit, vars, Next,
   Negotiate, Access

LEMMA TypeNext ==
    ASSUME Shapes, TypeOK, Within, [Next]_vars
    PROVE  TypeOK' /\ Within'
<1> USE Sizes, Limit, DeviceStays DEF device, space, access, vm_reset, vm_set_status
<1>0. Bytes' = Bytes /\ Accesses' = Accesses /\ (field.count * field.bytes)' = field.count * field.bytes
  BY DeviceStays DEF Bytes, Accesses
<1>1. CASE Bind
  <2>1. op = "none" /\ op' = "none" /\ copy' \in [Bytes -> Marks] /\ region' \in [1..4 -> Nat]
    BY <1>1 DEF Bind, Shapes, Unread, Marks
  <2>2. status' \in Statuses /\ accepted' \subseteq Features /\ interrupt' \in BOOLEAN
    BY <1>1 DEF Bind, TypeOK, Shapes, Statuses
  <2>3. binds' \in 0..MaxBinds
    BY <1>1, ConfigAssumption DEF Bind, TypeOK
  <2> QED
    BY <1>0, <1>1, <2>1, <2>2, <2>3 DEF Bind, TypeOK, Within
<1>2. CASE SetDriver
  BY <1>0, <1>2 DEF SetDriver, TypeOK, Within, Shapes, Statuses, PutHalf, Offers
<1>3. CASE GetHigh
  BY <1>0, <1>3 DEF GetHigh, TypeOK, Within, Shapes, Statuses, PutHalf, Offers
<1>4. CASE GetLow
  BY <1>0, <1>4 DEF GetLow, TypeOK, Within, Shapes, Statuses, PutHalf, Offers
<1>5. CASE Finalize
  BY <1>0, <1>5 DEF Finalize, TypeOK, Within, Shapes, Statuses, PutHalf, Offers
<1>6. CASE PutHigh
  BY <1>0, <1>6 DEF PutHigh, TypeOK, Within, Shapes, Statuses, PutHalf, Offers
<1>7. CASE PutLow
  BY <1>0, <1>7 DEF PutLow, TypeOK, Within, Shapes, Statuses, PutHalf, Offers
<1>8. CASE SetFeaturesOk
  BY <1>0, <1>8 DEF SetFeaturesOk, TypeOK, Within, Shapes, Statuses, PutHalf, Offers
<1>9. CASE CheckFeaturesOk
  BY <1>0, <1>9 DEF CheckFeaturesOk, TypeOK, Within, Shapes, Statuses, PutHalf, Offers
<1>10. CASE Fail
  BY <1>0, <1>10 DEF Fail, TypeOK, Within, Shapes, Statuses, PutHalf, Offers
<1>11. CASE GetShmWord
  <2>1. region' \in [1..4 -> Nat] /\ pc' \in {"shm", "probing"} /\ op = "none" /\ op' = "none"
    BY <1>11 DEF GetShmWord, Shapes, Serving
  <2>2. k' \in 0..3 /\ (pc' # "shm" => k' = 0)
    BY <1>11 DEF GetShmWord, Shapes
  <2>3. k' \in IF pc' # "shm" THEN {0} ELSE 0..(field.count * field.bytes + 3)
    BY <2>2
  <2> QED
    BY <1>0, <1>11, <2>1, <2>3 DEF GetShmWord, TypeOK, Within
<1>12. CASE DriverOk
  BY <1>0, <1>12 DEF DriverOk, TypeOK, Within, Shapes, Statuses, PutHalf, Offers
<1>13. CASE Unbind
  BY <1>0, <1>13 DEF Unbind, TypeOK, Within, Shapes, Statuses, PutHalf, Offers
<1>14. CASE StartRead
  <2>1. gen' \in 0..MaxChanges
    BY <1>14 DEF StartRead, TypeOK, vm_generation
  <2>2. op' = "read" /\ k' = 0 /\ k' \in 0..(field.count * field.bytes + 3)
    BY <1>14 DEF StartRead
  <2>3. Within'
    BY <1>0, <2>2 DEF Within
  <2>4. {config', buf', copy'} \subseteq [Bytes -> Marks] /\ {interrupt', irq', reread', undisturbed'} \subseteq BOOLEAN
    BY <1>14 DEF StartRead, TypeOK
  <2> QED
    BY <1>0, <1>14, <2>1, <2>2, <2>3, <2>4 DEF StartRead, TypeOK
<1>15. CASE vm_get
  <2>1. buf' \in [Bytes -> Marks]
    BY <1>15 DEF vm_get, TypeOK, Marks
  <2>2. op # "none" /\ op' = op /\ k' \in 0..(field.count * field.bytes + 3) /\ k' <= Accesses
    BY <1>15 DEF vm_get, Shapes
  <2> QED
    BY <1>0, <1>15, <2>1, <2>2 DEF vm_get, TypeOK, Within
<1>16. CASE FinishRead
  <2>1. /\ copy' \in [Bytes -> Marks] /\ buf' \in [Bytes -> Marks] /\ gen' \in 0..MaxChanges
        /\ done' \in {"none", "read", "write"} /\ op' \in {"none", "read"}
    BY <1>16 DEF FinishRead, TypeOK, Unread, Marks, vm_generation
  <2>2. k' = 0 /\ k' \in 0..(field.count * field.bytes + 3)
    BY <1>16 DEF FinishRead
  <2> QED
    BY <1>0, <1>16, <2>1, <2>2 DEF FinishRead, TypeOK, Within
<1>17. CASE vm_set
  <2>1. config' \in [Bytes -> Marks]
    BY <1>17 DEF vm_set, TypeOK, Marks
  <2>2. op # "none" /\ op' = op /\ k' \in 0..(field.count * field.bytes + 3) /\ k' <= Accesses
    BY <1>17 DEF vm_set, Shapes
  <2> QED
    BY <1>0, <1>17, <2>1, <2>2 DEF vm_set, TypeOK, Within
<1>18. CASE FinishWrite
  <2>1. copy' \in [Bytes -> Marks] /\ buf' \in [Bytes -> Marks]
    BY <1>18 DEF FinishWrite, TypeOK, Unread, Marks
  <2>2. op' = "none" /\ k' = 0 /\ k' \in 0..(field.count * field.bytes + 3)
    BY <1>18 DEF FinishWrite
  <2> QED
    BY <1>0, <1>18, <2>1, <2>2 DEF FinishWrite, TypeOK, Within
<1>19. CASE StartWrite
  <2>1. buf' \in [Bytes -> Marks]
    BY <1>19 DEF StartWrite, Marks
  <2>2. op' = "write" /\ k' = 0 /\ k' \in 0..(field.count * field.bytes + 3)
    BY <1>19 DEF StartWrite
  <2> QED
    BY <1>0, <1>19, <2>1, <2>2 DEF StartWrite, TypeOK, Within
<1>20. CASE Change
  <2>1. changes' \in 0..MaxChanges /\ changes' \in Marks
    BY <1>20 DEF Change, TypeOK, Marks, Driver
  <2>2. config' \in [Bytes -> Marks]
    BY <1>20, <2>1 DEF Change
  <2>3. interrupt' \in BOOLEAN
    BY <1>20 DEF Change, TypeOK
  <2> QED
    BY <1>0, <1>20, <2>1, <2>2, <2>3 DEF Change, TypeOK, Within
<1>21. CASE IrqStatus
  BY <1>0, <1>21 DEF IrqStatus, TypeOK, Within, Shapes, Statuses, PutHalf, Offers
<1>22. CASE IrqAck
  BY <1>0, <1>22 DEF IrqAck, TypeOK, Within, Shapes, Statuses, PutHalf, Offers
<1>23. CASE Exit
  BY <1>0, <1>23 DEF Exit, TypeOK, Within, Shapes, Statuses, PutHalf, Offers
<1>24. CASE UNCHANGED vars
  BY <1>0, <1>24 DEF vars, TypeOK, Within
<1> QED
  BY <1>1, <1>2, <1>3, <1>4, <1>5, <1>6, <1>7, <1>8, <1>9, <1>10, <1>11, <1>12, <1>13, <1>14, <1>15, <1>16, <1>17, <1>18, <1>19, <1>20, <1>21, <1>22, <1>23, <1>24 DEF Next, Negotiate, Access

\* The driver's and the device's variables keep their types, for any features,
\* fields and memory regions.
THEOREM ConfigTypes == Spec => []TypeOK
BY ShapesInit, ShapesNext, TypeInit, TypeNext, PTL DEF Spec
=============================================================================
