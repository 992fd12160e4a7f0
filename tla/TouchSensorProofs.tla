------------------------- MODULE TouchSensorProofs -------------------------
(***************************************************************************)
(* Proofs about TouchSensor for any range of the ADC, any threshold, any   *)
(* length of the history, any width of the counter that holds ConfirmCount *)
(* and any durations with Cooldown <= TapMin <= LongPress.                 *)
(***************************************************************************)
EXTENDS TouchSensor, WellFoundedInduction, TLAPS

\* A press has been reported exactly when its long press has been.
ReportedOnce == confirmed => events = IF longFired THEN 1 ELSE 0

\* Nothing has been reported since an unreported press was confirmed, so the
\* cooldown is over by the time the press is long enough to be a tap.
CooldownRuns == confirmed /\ ~longFired => sinceEvent >= Least(held, Cooldown)

\* Before a press is confirmed the counter counts the streak and has not wrapped;
\* from then on it may, but nobody asks it.
CounterHonest ==
    IF confirmed THEN streak = ConfirmCount ELSE hits = streak /\ streak < ConfirmCount

TouchInv == TouchTypeOK /\ OneEventPerPress /\ ReportedOnce /\ CooldownRuns /\ CounterHonest

-----------------------------------------------------------------------------
(* The history and its least entry. *)

LEMMA LeastOfSet == ASSUME NEW S \in SUBSET Nat, S # {} PROVE \E m \in S : \A k \in S : m <= k
<1> DEFINE R == OpToRel(<, Nat)
<1>1. PICK m \in S : \A k \in S : ~(<<k, m>> \in R)
  BY WFMin, NatLessThanWellFounded
<1>2. \A k \in S : ~(k < m)
  BY <1>1 DEF OpToRel
<1>3. m \in Nat /\ \A k \in S : k \in Nat
  OBVIOUS
<1> HIDE DEF R
<1>4. \A k \in S : m <= k
  BY <1>2, <1>3
<1> QED
  BY <1>4

\* A history that holds a reading has a least one.
LEMMA LowestFacts ==
    ASSUME NEW s \in [Raw -> 0..HistSize], NEW w \in Raw, s[w] < HistSize
    PROVE  /\ Lowest(s) \in Raw /\ s[Lowest(s)] < HistSize
           /\ \A u \in 0..(Lowest(s) - 1) : s[u] = HistSize
<1> DEFINE S == {v \in Raw : s[v] < HistSize}
<1>1. MaxRaw \in Nat /\ HistSize \in Nat
  BY TouchAssumption
<1>2. S \in SUBSET Nat /\ S # {}
  BY <1>1 DEF Raw
<1>3. PICK m \in S : \A k \in S : m <= k
  <2> HIDE DEF S
  <2> QED
    BY <1>2, LeastOfSet
<1>4. m \in Raw /\ s[m] < HistSize
  OBVIOUS
<1>5. ASSUME NEW u \in 0..(m - 1) PROVE s[u] = HistSize
  <2>1. u \in Raw /\ ~(m <= u)
    BY <1>1, <1>4 DEF Raw
  <2>2. ~(s[u] < HistSize)
    BY <2>1, <1>3
  <2>3. s[u] \in 0..HistSize
    BY <2>1
  <2> QED
    BY <2>2, <2>3, <1>1
<1>6. \E v \in Raw : s[v] < HistSize /\ \A u \in 0..(v - 1) : s[u] = HistSize
  BY <1>4, <1>5
<1> QED
  BY <1>6 DEF Lowest

\* After a reading the history has its type and the baseline is a reading it holds.
LEMMA ReadingFacts ==
    ASSUME TouchTypeOK, NEW raw \in Raw, since' = NextSince(raw), baseline' = Lowest(since')
    PROVE  /\ since' \in [Raw -> 0..HistSize] /\ baseline' \in Raw
           /\ since'[baseline'] < HistSize
           /\ \A u \in 0..(baseline' - 1) : since'[u] = HistSize
<1>1. HistSize \in Nat \ {0} /\ since \in [Raw -> 0..HistSize]
  BY TouchAssumption DEF TouchTypeOK
<1>2. \A v \in Raw : (IF raw <= v THEN 0 ELSE Least(since[v] + 1, HistSize)) \in 0..HistSize
  BY <1>1 DEF Least
<1>3. since' \in [Raw -> 0..HistSize]
  BY <1>2 DEF NextSince
<1>4. raw <= raw
  BY TouchAssumption DEF Raw
<1>5. since'[raw] < HistSize
  BY <1>1, <1>4 DEF NextSince
<1> QED
  BY <1>3, <1>5, LowestFacts

\* The counter up to the confirmation, and beyond.
LEMMA CounterFacts ==
    ASSUME TouchTypeOK, CounterHonest, Touched
    PROVE  hits' \in 0..(HitsModulus - 1) /\ streak' \in 0..ConfirmCount /\ CounterHonest'
<1>1. /\ ConfirmCount \in Nat \ {0} /\ HitsModulus \in Nat /\ ConfirmCount < HitsModulus
      /\ hits \in 0..(HitsModulus - 1) /\ streak \in 0..ConfirmCount
  BY TouchAssumption DEF TouchTypeOK
<1>2. hits' = (hits + 1) % HitsModulus /\ streak' = Least(streak + 1, ConfirmCount)
  BY DEF Touched, NextHits
<1>3. hits' \in 0..(HitsModulus - 1) /\ streak' \in 0..ConfirmCount
  BY <1>1, <1>2 DEF Least
<1>4. CASE confirmed
  <2>1. confirmed'
    BY <1>4 DEF Touched
  <2>2. streak' = ConfirmCount
    BY <1>1, <1>2, <1>4 DEF CounterHonest, Least
  <2> QED
    BY <1>3, <2>1, <2>2 DEF CounterHonest
<1>5. CASE ~confirmed
  <2>1. hits = streak /\ streak < ConfirmCount
    BY <1>5 DEF CounterHonest
  <2>2. hits + 1 \in 0..(HitsModulus - 1)
    BY <1>1, <2>1
  <2>3. hits' = hits + 1 /\ streak' = streak + 1
    BY <1>1, <1>2, <2>1, <2>2 DEF Least
  <2>4. confirmed' <=> hits' >= ConfirmCount
    BY <1>5 DEF Touched, Confirm
  <2> QED
    BY <1>1, <1>3, <2>1, <2>3, <2>4 DEF CounterHonest
<1> QED
  BY <1>4, <1>5

-----------------------------------------------------------------------------
(* One lemma for each action. *)

LEMMA TickKeeps == TouchInv /\ TouchTick => TouchInv'
<1> SUFFICES ASSUME TouchInv, TouchTick PROVE TouchInv'
  OBVIOUS
<1>1. TouchTypeOK'
  BY TouchAssumption DEF TouchInv, TouchTypeOK, TouchTick, Least, levelVars
<1>2. OneEventPerPress' /\ ReportedOnce' /\ CounterHonest'
  BY DEF TouchInv, TouchTick, OneEventPerPress, ReportedOnce, CounterHonest
<1>3. sinceEvent >= Least(held, Cooldown) => sinceEvent' >= Least(held', Cooldown)
  <2>1. held \in Nat /\ sinceEvent \in Nat /\ sinceEvent <= Cooldown
        /\ Cooldown \in Nat /\ LongPress \in Nat /\ Cooldown <= LongPress
    BY TouchAssumption DEF TouchInv, TouchTypeOK
  <2>2. held' = Least(held + 1, LongPress) /\ sinceEvent' = Least(sinceEvent + 1, Cooldown)
    BY DEF TouchTick
  <2> QED
    BY <2>1, <2>2 DEF Least
<1>4. CooldownRuns'
  BY <1>3 DEF TouchInv, TouchTick, CooldownRuns
<1> QED
  BY <1>1, <1>2, <1>4 DEF TouchInv

LEMMA LongPressKeeps == TouchInv /\ PollLongPress => TouchInv'
<1> SUFFICES ASSUME TouchInv, PollLongPress PROVE TouchInv'
  OBVIOUS
<1>1. events = 0 /\ events' = 1 /\ longFired' = TRUE
  BY DEF TouchInv, ReportedOnce, PollLongPress, LongDue, Report
<1>2. TouchTypeOK'
  BY <1>1, TouchAssumption DEF TouchInv, TouchTypeOK, PollLongPress, Report, levelVars
<1> QED
  BY <1>1, <1>2
  DEF TouchInv, OneEventPerPress, ReportedOnce, CooldownRuns, CounterHonest, PollLongPress

\* A reading above the threshold: a press may begin.
LEMMA TouchedKeeps ==
    ASSUME TouchInv, PollReading, NEW raw \in Raw,
           since' = NextSince(raw), baseline' = Lowest(since'), Touched
    PROVE  TouchInv'
<1>1. /\ since' \in [Raw -> 0..HistSize] /\ baseline' \in Raw
      /\ hits' \in 0..(HitsModulus - 1) /\ streak' \in 0..ConfirmCount /\ CounterHonest'
  BY CounterFacts, ReadingFacts DEF TouchInv
<1>2. sincePoll' \in 0..PollInterval /\ event' = "NONE" /\ sinceEvent' = sinceEvent
  BY TouchAssumption DEF PollReading, Touched
<1>3. CASE Confirm
  <2>1. confirmed' = TRUE /\ longFired' = FALSE /\ held' = 0 /\ events' = 0
    BY <1>3 DEF Confirm
  <2>2. confirmed' \in BOOLEAN /\ longFired' \in BOOLEAN
    BY <2>1, Zenon
  <2>3. held' \in 0..LongPress /\ events' \in Nat
    BY <2>1, TouchAssumption
  <2>4. sinceEvent' \in 0..Cooldown
    BY <1>2 DEF TouchInv, TouchTypeOK
  <2>5. TouchTypeOK'
    BY <1>1, <1>2, <2>2, <2>3, <2>4 DEF TouchTypeOK
  <2> QED
    BY <1>1, <1>2, <2>1, <2>4, <2>5, TouchAssumption
    DEF TouchInv, OneEventPerPress, ReportedOnce, CooldownRuns, Least
<1>4. CASE UNCHANGED <<confirmed, longFired, held, events>>
  <2>1. TouchTypeOK'
    BY <1>1, <1>2, <1>4 DEF TouchInv, TouchTypeOK
  <2> QED
    BY <1>1, <1>2, <1>4, <2>1 DEF TouchInv, OneEventPerPress, ReportedOnce, CooldownRuns, Least
<1> QED
  BY <1>3, <1>4 DEF Touched

\* The release of a press that was held long enough leaves exactly one event.
LEMMA ReleaseReports ==
    ASSUME TouchInv, Released, confirmed, held >= TapMin
    PROVE  events' = 1
<1>1. CASE longFired
  BY <1>1 DEF TouchInv, ReportedOnce, Released
<1>2. CASE ~longFired
  <2>1. sinceEvent >= Cooldown
    BY <1>2, TouchAssumption DEF TouchInv, TouchTypeOK, CooldownRuns, Least
  <2>2. events = 0
    BY <1>2 DEF TouchInv, ReportedOnce
  <2> QED
    BY <1>2, <2>1, <2>2 DEF Released, Report
<1> QED
  BY <1>1, <1>2 DEF TouchInv, TouchTypeOK

LEMMA ReleasedKeeps ==
    ASSUME TouchInv, PollReading, NEW raw \in Raw,
           since' = NextSince(raw), baseline' = Lowest(since'), Released
    PROVE  TouchInv'
<1>1. since' \in [Raw -> 0..HistSize] /\ baseline' \in Raw
  BY ReadingFacts DEF TouchInv
<1>2. sincePoll' \in 0..PollInterval /\ hits' = 0 /\ streak' = 0 /\ confirmed' = FALSE
      /\ UNCHANGED <<longFired, held>>
  BY TouchAssumption DEF PollReading, Released
<1>3. events' \in Nat /\ events' <= 1
  BY DEF TouchInv, TouchTypeOK, OneEventPerPress, ReportedOnce, Released, Report
<1>4. event' \in {"NONE", "TAP"} /\ sinceEvent' \in 0..Cooldown
  BY TouchAssumption DEF TouchInv, TouchTypeOK, Released, Report
<1>5. confirmed' \in BOOLEAN /\ longFired' \in BOOLEAN
  BY <1>2, Zenon DEF TouchInv, TouchTypeOK
<1>6. /\ held' \in 0..LongPress /\ hits' \in 0..(HitsModulus - 1) /\ streak' \in 0..ConfirmCount
      /\ CounterHonest'
  BY <1>2, TouchAssumption DEF TouchInv, TouchTypeOK, CounterHonest
<1>7. TouchTypeOK'
  BY <1>1, <1>2, <1>3, <1>4, <1>5, <1>6 DEF TouchTypeOK
<1> QED
  BY <1>2, <1>3, <1>6, <1>7 DEF TouchInv, OneEventPerPress, ReportedOnce, CooldownRuns

LEMMA EarlyKeeps == TouchInv /\ PollEarly => TouchInv'
  BY DEF TouchInv, TouchTypeOK, OneEventPerPress, ReportedOnce, CooldownRuns, CounterHonest,
         PollEarly, levelVars, timeVars, Least

THEOREM TouchInvariance == TouchSpec => []TouchInv
<1>1. TouchInit => TouchInv
  <2> SUFFICES ASSUME TouchInit PROVE TouchInv
    OBVIOUS
  <2>1. confirmed \in BOOLEAN /\ longFired \in BOOLEAN
    BY Zenon DEF TouchInit
  <2>2. /\ since \in [Raw -> 0..HistSize] /\ baseline \in Raw
        /\ hits \in 0..(HitsModulus - 1) /\ streak \in 0..ConfirmCount
        /\ held \in 0..LongPress /\ sinceEvent \in 0..Cooldown /\ sincePoll \in 0..PollInterval
        /\ events \in Nat /\ events <= 1
    BY TouchAssumption DEF TouchInit
  <2> QED
    BY <2>1, <2>2, TouchAssumption
    DEF TouchInit, TouchInv, TouchTypeOK, OneEventPerPress, ReportedOnce, CooldownRuns, CounterHonest
<1>2. TouchInv /\ PollReading => TouchInv'
  BY TouchedKeeps, ReleasedKeeps DEF PollReading
<1>3. TouchInv /\ UNCHANGED touchVars => TouchInv'
  BY DEF touchVars, levelVars, timeVars, TouchInv, TouchTypeOK, OneEventPerPress, ReportedOnce,
         CooldownRuns, CounterHonest, Least
<1>4. TouchInv /\ [TouchNext]_touchVars => TouchInv'
  BY <1>2, <1>3, TickKeeps, LongPressKeeps, EarlyKeeps DEF TouchNext, Poll
<1> QED
  BY <1>1, <1>4, PTL DEF TouchSpec

-----------------------------------------------------------------------------
(* The results. *)

\* The variables keep their types, whatever the readings are.
THEOREM TouchTypeCorrect == TouchSpec => []TouchTypeOK
  BY TouchInvariance, PTL DEF TouchInv

\* A press is a tap or a long press, never both and never one of them twice.
THEOREM PressReportedOnce == TouchSpec => []OneEventPerPress
  BY TouchInvariance, PTL DEF TouchInv

\* A press begins with ConfirmCount readings above the threshold in a row and lasts
\* as long as they go on, though the counter wraps.
THEOREM DebounceHolds == TouchSpec => []DebounceExact
<1>1. TouchInv => DebounceExact
  BY TouchAssumption DEF TouchInv, TouchTypeOK, CounterHonest, DebounceExact
<1> QED
  BY <1>1, TouchInvariance, PTL

\* A press that was held long enough is reported by the time it is over.
THEOREM PressReported == TouchSpec => NoPressSwallowed
<1>1. TouchInv /\ TouchNext /\ confirmed /\ ~confirmed' /\ held >= TapMin => events' = 1
  <2> SUFFICES ASSUME TouchInv, TouchNext, confirmed, ~confirmed', held >= TapMin
               PROVE  events' = 1
    OBVIOUS
  <2>1. PollReading
    BY DEF TouchNext, Poll, TouchTick, PollLongPress, PollEarly
  <2>2. Released
    BY <2>1 DEF PollReading, Touched, Confirm
  <2> QED
    BY <2>2, ReleaseReports
<1>2. TouchInv /\ [TouchNext]_touchVars =>
         [confirmed /\ ~confirmed' /\ held >= TapMin => events' = 1]_touchVars
  BY <1>1
<1> QED
  BY <1>2, TouchInvariance, PTL DEF TouchSpec, NoPressSwallowed

-----------------------------------------------------------------------------
(* A press comes to an end. *)

\* How often the history can still forget its least entry, in readings: the baseline
\* rises at most MaxRaw times, and stays for HistSize readings at most.
PressRank == (MaxRaw - baseline) * HistSize + (HistSize - since[baseline])

LEMMA RankTypes ==
    ASSUME TouchTypeOK
    PROVE  /\ MaxRaw \in Nat /\ HistSize \in Nat \ {0} /\ Threshold \in Nat \ {0}
           /\ baseline \in Nat /\ baseline <= MaxRaw
           /\ since[baseline] \in Nat /\ since[baseline] <= HistSize
  BY TouchAssumption DEF TouchTypeOK, Raw

\* A product of naturals, for the two steps that need one.
LEMMA Product ==
    ASSUME NEW a \in Nat, NEW b \in Nat, NEW h \in Nat, a < b
    PROVE  a * h \in Nat /\ b * h \in Nat /\ a * h + h <= b * h
<1>1. PICK k \in Nat : b = a + 1 + k
  <2>1. b - a - 1 \in Nat /\ b = a + 1 + (b - a - 1)
    OBVIOUS
  <2> QED
    BY <2>1
<1>2. (a + 1 + k) * h = a * h + h + k * h /\ a * h \in Nat /\ k * h \in Nat /\ b * h \in Nat
  OBVIOUS
<1>3. b * h = a * h + h + k * h
  BY <1>1, <1>2
<1> QED
  BY <1>2, <1>3

\* No reading is in the history yet, or the baseline is the least of them.
BaselineIsLowest ==
    \/ \A v \in Raw : since[v] = HistSize
    \/ since[baseline] < HistSize /\ \A u \in 0..(baseline - 1) : since[u] = HistSize

\* A reading above the threshold is above the new baseline, which was in the history
\* before it and has grown older: either it is the old baseline or the baseline rose.
LEMMA ReadingLowersRank ==
    ASSUME TouchTypeOK, TouchTypeOK', BaselineIsLowest, NEW raw \in Raw,
           since' = NextSince(raw), baseline' = Lowest(since'), Above(raw)
    PROVE  PressRank' < PressRank
<1> DEFINE b == baseline
           c == baseline'
<1>1. /\ MaxRaw \in Nat /\ HistSize \in Nat \ {0} /\ Threshold \in Nat \ {0}
      /\ b \in Raw /\ c \in Raw /\ since[b] \in 0..HistSize /\ since[c] \in 0..HistSize
  BY TouchAssumption DEF TouchTypeOK
<1>2. b \in Nat /\ c \in Nat /\ b <= MaxRaw /\ c <= MaxRaw
  BY <1>1 DEF Raw
<1>3. since'[c] < HistSize
  BY ReadingFacts
<1>4. ~(raw <= c)
  BY <1>1, <1>2 DEF Above, Raw
<1>5. since'[c] = Least(since[c] + 1, HistSize)
  BY <1>1, <1>4 DEF NextSince
<1>6. since'[c] = since[c] + 1 /\ since[c] < HistSize
  BY <1>1, <1>3, <1>5 DEF Least
<1>7. since[b] < HistSize /\ ~(c \in 0..(b - 1))
  BY <1>1, <1>6 DEF BaselineIsLowest
<1>8. c = b \/ b < c
  BY <1>2, <1>7
<1> DEFINE p == MaxRaw - b
           q == MaxRaw - c
<1>9. p \in Nat /\ q \in Nat /\ p * HistSize \in Nat /\ q * HistSize \in Nat
  <2>1. p \in Nat /\ q \in Nat
    BY <1>1, <1>2
  <2> HIDE DEF p, q
  <2> QED
    BY <1>1, <2>1
<1>10. /\ PressRank = p * HistSize + (HistSize - since[b])
       /\ PressRank' = q * HistSize + (HistSize - since'[c])
  BY DEF PressRank
<1>11. CASE c = b
  <2>1. p * HistSize = q * HistSize /\ since[c] = since[b]
    BY <1>11
  <2> HIDE DEF b, c, p, q
  <2> QED
    BY <1>1, <1>6, <1>9, <1>10, <2>1
<1>12. CASE b < c
  <2>1. q < p
    BY <1>1, <1>2, <1>12
  <2> HIDE DEF b, c, p, q
  <2>2. q * HistSize + HistSize <= p * HistSize
    BY <1>1, <1>9, <2>1, Product
  <2> QED
    BY <1>1, <1>6, <1>7, <1>9, <1>10, <2>2
<1> QED
  BY <1>8, <1>11, <1>12

\* However long a finger rests, wherever the sensor's own rest has moved to and even
\* while its level goes on rising: each reading that lets a press go on lowers a
\* natural number, and nothing else touches that number during the press.  A press
\* outlasts (MaxRaw + 1) * HistSize readings at most, which is PressEnds without the
\* fairness that says that poll() goes on being called.
THEOREM PressIsBounded ==
    TouchSpec => /\ [](PressRank \in Nat)
                 /\ [][PollReading /\ confirmed' => PressRank' < PressRank]_touchVars
                 /\ [][confirmed /\ confirmed' => PollReading \/ PressRank' = PressRank]_touchVars
<1>1. TouchInv => PressRank \in Nat
  <2> SUFFICES ASSUME TouchInv PROVE PressRank \in Nat
    OBVIOUS
  <2> DEFINE p == MaxRaw - baseline
  <2>1. p \in Nat /\ HistSize \in Nat /\ HistSize - since[baseline] \in Nat
    BY RankTypes DEF TouchInv
  <2>2. PressRank = p * HistSize + (HistSize - since[baseline])
    BY DEF PressRank
  <2> HIDE DEF p
  <2>3. p * HistSize \in Nat
    BY <2>1
  <2> QED
    BY <2>1, <2>2, <2>3
<1>2. TouchInit => BaselineIsLowest
  BY DEF TouchInit, BaselineIsLowest
<1>3. TouchNext /\ ~PollReading => UNCHANGED <<since, baseline>>
  BY DEF TouchNext, Poll, TouchTick, PollLongPress, PollEarly, levelVars
<1>4. TouchInv /\ BaselineIsLowest /\ [TouchNext]_touchVars => BaselineIsLowest'
  <2>1. TouchInv /\ PollReading => BaselineIsLowest'
    BY ReadingFacts DEF TouchInv, PollReading, BaselineIsLowest
  <2>2. BaselineIsLowest /\ UNCHANGED <<since, baseline>> => BaselineIsLowest'
    BY DEF BaselineIsLowest
  <2> QED
    BY <1>3, <2>1, <2>2 DEF touchVars, levelVars
<1>5. TouchInv /\ TouchInv' /\ BaselineIsLowest /\ [TouchNext]_touchVars =>
         [PollReading /\ confirmed' => PressRank' < PressRank]_touchVars
  <2> SUFFICES ASSUME TouchInv, TouchInv', BaselineIsLowest, PollReading, confirmed'
               PROVE  PressRank' < PressRank
    OBVIOUS
  <2>1. PICK raw \in Raw : /\ since' = NextSince(raw)
                           /\ baseline' = Lowest(since')
                           /\ IF Above(raw) THEN Touched ELSE Released
    BY DEF PollReading
  <2>2. Above(raw)
    BY <2>1 DEF Released
  <2> QED
    BY <2>1, <2>2, ReadingLowersRank DEF TouchInv
<1>6. [TouchNext]_touchVars =>
         [confirmed /\ confirmed' => PollReading \/ PressRank' = PressRank]_touchVars
  BY <1>3 DEF PressRank
<1> QED
  BY <1>1, <1>2, <1>4, <1>5, <1>6, TouchInvariance, PTL DEF TouchSpec
=============================================================================
