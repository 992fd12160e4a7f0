----------------------- MODULE ReconnectBackoffProofs -----------------------
(***************************************************************************)
(* Proofs about ReconnectBackoff for a word of 32 bits, any ceiling of the *)
(* counter, and any base and cap that WidthAssumption allows.  The prover  *)
(* has no theory of 2^k: the 32 powers a word can be shifted by are looked *)
(* up in a table (PowerValues), and everything else is built on it.        *)
(***************************************************************************)
EXTENDS ReconnectBackoff, TLAPS

-----------------------------------------------------------------------------
(* Powers of two. *)

\* 2^k, which the provers know only for a k they can see.
Power(k) == 2^k

\* The shifts there are in a word of 32 bits.
LEMMA PowerValues ==
    /\ Power(0) = 1 /\ Power(1) = 2 /\ Power(2) = 4 /\ Power(3) = 8
    /\ Power(4) = 16 /\ Power(5) = 32 /\ Power(6) = 64 /\ Power(7) = 128
    /\ Power(8) = 256 /\ Power(9) = 512 /\ Power(10) = 1024 /\ Power(11) = 2048
    /\ Power(12) = 4096 /\ Power(13) = 8192 /\ Power(14) = 16384 /\ Power(15) = 32768
    /\ Power(16) = 65536 /\ Power(17) = 131072 /\ Power(18) = 262144 /\ Power(19) = 524288
    /\ Power(20) = 1048576 /\ Power(21) = 2097152 /\ Power(22) = 4194304 /\ Power(23) = 8388608
    /\ Power(24) = 16777216 /\ Power(25) = 33554432 /\ Power(26) = 67108864 /\ Power(27) = 134217728
    /\ Power(28) = 268435456 /\ Power(29) = 536870912 /\ Power(30) = 1073741824 /\ Power(31) = 2147483648
  BY DEF Power

\* Every shift is by a power of two, and one further doubles it.
LEMMA PowerFacts ==
    /\ \A k \in 0..31 : Power(k) \in Nat \ {0}
    /\ \A k \in 0..30 : Power(k + 1) = 2 * Power(k)
    /\ \A k \in 17..31 : Power(k) >= 131072
    /\ \A k \in 16..31 : Power(k) >= 65536
  BY PowerValues

\* CappedShift, with its powers out of the provers' sight.
LEMMA CappedByPower ==
    \A k : CappedShift(k) =
        LET low == IF WordBits - k > 30 THEN BaseDelay ELSE BaseDelay % Power(WordBits - k)
        IN  IF low = 0 THEN 0
            ELSE IF Power(k) > MaxDelay \div low THEN MaxDelay ELSE Power(k) * low
  BY Zenon DEF CappedShift, Power

\* Comparing before the multiplication compares the products.
LEMMA CapCompare == \A a \in Nat, b \in Nat, c \in Nat \ {0} : a > b \div c <=> a * c > b
  OBVIOUS

\* Multiplying by a power does not make a delay smaller.
LEMMA ProductGrows == \A a \in Nat \ {0}, b \in Nat : a * b \in Nat /\ a * b >= b
  OBVIOUS

-----------------------------------------------------------------------------
(* The delay of a number of failures. *)

\* A shift inside the word is capped, whatever bits it loses.
LEMMA ShiftInRange == \A k \in 0..31 : CappedShift(k) \in 0..MaxDelay
<1> SUFFICES ASSUME NEW k \in 0..31 PROVE CappedShift(k) \in 0..MaxDelay
  OBVIOUS
<1> DEFINE low == IF WordBits - k > 30 THEN BaseDelay ELSE BaseDelay % Power(WordBits - k)
<1>1. Power(k) \in Nat \ {0} /\ MaxDelay \in Nat
  BY PowerFacts, PolicyAssumption
<1>2. low \in Nat
  <2>1. CASE WordBits - k > 30
    BY <2>1, PolicyAssumption
  <2>2. CASE ~(WordBits - k > 30)
    <3>1. WordBits - k \in 0..31
      BY <2>2, WidthAssumption
    <3>2. Power(WordBits - k) \in Nat \ {0}
      BY <3>1, PowerFacts
    <3> QED
      BY <2>2, <3>2, PolicyAssumption
  <2> QED
    BY <2>1, <2>2
<1> HIDE DEF low
<1>3. CappedShift(k) = IF low = 0 THEN 0
                       ELSE IF Power(k) > MaxDelay \div low THEN MaxDelay ELSE Power(k) * low
  BY CappedByPower DEF low
<1>4. low # 0 => (Power(k) > MaxDelay \div low <=> Power(k) * low > MaxDelay)
  BY <1>1, <1>2, CapCompare
<1>5. Power(k) * low \in Nat
  BY <1>1, <1>2
<1> QED
  BY <1>1, <1>3, <1>4, <1>5

\* The delay the comment promises: doubled with each failure, up to the cap.
Doubled(k) == IF Power(k) * BaseDelay > MaxDelay THEN MaxDelay ELSE Power(k) * BaseDelay

\* Up to the 29th failure the lost bits do not show: before one is lost, the cap
\* has been reached, and something of the base is always left.
LEMMA ShiftDoubles == \A k \in 0..(IntactFailures - 1) : CappedShift(k) = Doubled(k)
<1> SUFFICES ASSUME NEW k \in 0..28 PROVE CappedShift(k) = Doubled(k)
  BY WidthAssumption DEF IntactFailures
<1> DEFINE low == IF WordBits - k > 30 THEN BaseDelay ELSE BaseDelay % Power(WordBits - k)
<1>1. Power(k) \in Nat \ {0} /\ MaxDelay \in Nat /\ BaseDelay \in Nat \ {0}
  BY PowerFacts, PolicyAssumption
<1>2. CappedShift(k) = IF low = 0 THEN 0
                       ELSE IF Power(k) > MaxDelay \div low THEN MaxDelay ELSE Power(k) * low
  BY CappedByPower
<1>3. CASE k \in 0..16
  <2>1. low = BaseDelay
    <3>1. CASE WordBits - k > 30
      BY <3>1
    <3>2. CASE ~(WordBits - k > 30)
      <4>1. WordBits - k \in 16..31
        BY <1>3, <3>2, WidthAssumption
      <4>2. Power(WordBits - k) \in Nat /\ Power(WordBits - k) >= 65536
        BY <4>1, PowerFacts
      <4> QED
        BY <1>1, <3>2, <4>2, WidthAssumption, PolicyAssumption
    <3> QED
      BY <3>1, <3>2
  <2> HIDE DEF low
  <2> QED
    BY <1>1, <1>2, <2>1, CapCompare DEF Doubled
<1>4. CASE k \in 17..28
  <2>1. low \in Nat \ {0}
    <3>1. WordBits - k \in 4..15 /\ low = BaseDelay % Power(WordBits - k)
      BY <1>4, WidthAssumption
    <3>2. \A j \in 4..15 : BaseDelay % Power(j) \in Nat \ {0}
      <4>1. /\ BaseDelay % 16 # 0 /\ BaseDelay % 32 # 0 /\ BaseDelay % 64 # 0
            /\ BaseDelay % 128 # 0 /\ BaseDelay % 256 # 0 /\ BaseDelay % 512 # 0
            /\ BaseDelay % 1024 # 0 /\ BaseDelay % 2048 # 0 /\ BaseDelay % 4096 # 0
            /\ BaseDelay % 8192 # 0 /\ BaseDelay % 16384 # 0 /\ BaseDelay % 32768 # 0
        BY <1>1, WidthAssumption
      <4>2. \A j \in 4..15 : BaseDelay % Power(j) # 0
        BY <4>1, PowerValues
      <4>3. \A j \in 4..15 : Power(j) \in Nat \ {0}
        BY PowerFacts
      <4> QED
        BY <1>1, <4>2, <4>3
    <3> QED
      BY <3>1, <3>2
  <2> HIDE DEF low
  <2>2. Power(k) * low > MaxDelay /\ Power(k) * BaseDelay > MaxDelay
    BY <1>1, <1>4, <2>1, PowerFacts, ProductGrows, WidthAssumption
  <2> QED
    BY <1>1, <1>2, <2>1, <2>2, CapCompare DEF Doubled
<1> QED
  BY <1>3, <1>4

\* Doubling grows from the base to the cap.
LEMMA DoubledGrows ==
    /\ \A k \in 0..28 : Doubled(k) \in BaseDelay..MaxDelay
    /\ \A k \in 0..27 : Doubled(k) <= Doubled(k + 1)
<1>1. MaxDelay \in Nat /\ BaseDelay \in Nat \ {0} /\ BaseDelay <= MaxDelay
  BY PolicyAssumption
<1>2. \A k \in 0..28 : Power(k) * BaseDelay \in Nat /\ Power(k) * BaseDelay >= BaseDelay
  BY <1>1, PowerFacts, ProductGrows
<1>3. \A k \in 0..27 : Power(k + 1) * BaseDelay = 2 * (Power(k) * BaseDelay)
  BY <1>1, PowerFacts
<1> QED
  BY <1>1, <1>2, <1>3 DEF Doubled

-----------------------------------------------------------------------------
(* The counter and the delay. *)

\* The failure counter stays below its ceiling and the delay below the cap.
LEMMA BackoffType == BackoffSpec => []BackoffTypeOK
<1>1. BackoffInit => BackoffTypeOK
  BY PolicyAssumption, BackoffAssumption DEF BackoffInit, BackoffTypeOK
<1>2. BackoffTypeOK /\ [BackoffNext]_backoffVars => BackoffTypeOK'
  BY PolicyAssumption, BackoffAssumption
     DEF BackoffNext, ScheduleReconnect, Reset, BackoffDelays, BackoffTypeOK, backoffVars
<1> QED
  BY <1>1, <1>2, PTL DEF BackoffSpec

\* The delay that is waited is the one of the present count.
DelayDoubled == failures \in 1..IntactFailures => delay = Doubled(failures - 1)

\* What scheduleReconnect chooses while no bit that matters is lost.
LEMMA ChosenDelay ==
    ASSUME NEW f \in 1..IntactFailures, NEW d \in BackoffDelays(f)
    PROVE  d = Doubled(f - 1)
<1>1. f - 1 \in 0..(IntactFailures - 1) /\ f - 1 < WordBits
  BY WidthAssumption DEF IntactFailures
<1> QED
  BY <1>1, ShiftDoubles DEF BackoffDelays

\* For the first 29 failures in a row the delay is the documented doubling up to
\* the cap, whatever resets came before: the shift of the code loses nothing yet.
THEOREM DelayIsDoubled == BackoffSpec => []DelayDoubled
<1>1. BackoffInit => DelayDoubled
  BY DEF BackoffInit, DelayDoubled
<1>2. DelayDoubled /\ [BackoffNext]_backoffVars => DelayDoubled'
  BY ChosenDelay DEF BackoffNext, ScheduleReconnect, Reset, DelayDoubled, backoffVars
<1> QED
  BY <1>1, <1>2, PTL DEF BackoffSpec

\* The wait grows from the base with every one of the first 29 failures, never
\* shrinks and stays within base and cap (BackoffMonotone).
THEOREM DelayGrows == BackoffSpec => BackoffMonotone
<1>1. ASSUME BackoffTypeOK, DelayDoubled, BackoffNext,
             failures' = failures + 1, failures' <= IntactFailures
      PROVE  delay' \in BaseDelay..MaxDelay /\ (failures > 0 => delay' >= delay)
  <2>1. failures \in Nat /\ IntactFailures = 29
    BY <1>1, BackoffAssumption, WidthAssumption DEF BackoffTypeOK, IntactFailures
  <2>2. ScheduleReconnect
    BY <1>1, <2>1 DEF BackoffNext, Reset
  <2>3. failures' \in 1..IntactFailures /\ failures' - 1 = failures /\ failures \in 0..28
    BY <1>1, <2>1
  <2>4. delay' = Doubled(failures)
    BY <2>2, <2>3, ChosenDelay DEF ScheduleReconnect
  <2>5. delay' \in BaseDelay..MaxDelay
    BY <2>3, <2>4, DoubledGrows
  <2>6. ASSUME failures > 0 PROVE delay' >= delay
    <3>1. failures - 1 \in 0..27 /\ (failures - 1) + 1 = failures /\ failures \in 1..IntactFailures
      BY <2>1, <2>3, <2>6
    <3>2. delay = Doubled(failures - 1)
      BY <1>1, <3>1 DEF DelayDoubled
    <3>3. Doubled(failures - 1) <= Doubled(failures)
      BY <3>1, DoubledGrows
    <3> QED
      BY <2>4, <3>2, <3>3
  <2> QED
    BY <2>5, <2>6
<1>2. BackoffTypeOK /\ DelayDoubled /\ [BackoffNext]_backoffVars =>
        [/\ failures' = failures + 1 /\ failures' <= IntactFailures
         => delay' \in BaseDelay..MaxDelay /\ (failures > 0 => delay' >= delay)]_backoffVars
  BY <1>1
<1> QED
  BY <1>2, BackoffType, DelayIsDoubled, PTL DEF BackoffSpec, BackoffMonotone
=============================================================================
