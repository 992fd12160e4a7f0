----------------------------- MODULE TouchSensor -----------------------------
(***************************************************************************)
(* poll() of the touch sensor: a reading of the ADC at most every          *)
(* PollInterval, a baseline that is the least of the last HistSize         *)
(* readings, a press that counts once ConfirmCount readings in a row were  *)
(* above it, a TAP when it is let go and a LONG_PRESS while it is held.    *)
(*                                                                         *)
(* A reading is any value the ADC can have.  All that is ever asked of     *)
(* _history is its least entry, so it is kept as the number of readings    *)
(* since the last one of v or less, for every v (since): the least entry   *)
(* is the least v for which that number is below HistSize.  Timestamps     *)
(* are ages that stop growing where no branch tells them apart any more.   *)
(***************************************************************************)
EXTENDS Naturals

CONSTANTS MaxRaw,         \* 1023: what the ADC reads at most
          Threshold,      \* TOUCH_THRESHOLD
          HistSize,       \* HIST_SIZE
          ConfirmCount,   \* CONFIRM_COUNT
          HitsModulus,    \* 2^8, for the width of _confirmHits
          PollInterval,   \* POLL_INTERVAL_MS
          TapMin,         \* TAP_MIN_MS
          LongPress,      \* LONG_PRESS_MS
          Cooldown        \* EVENT_COOLDOWN_MS

ASSUME TouchAssumption ==
    /\ MaxRaw \in Nat
    /\ {Threshold, HistSize, ConfirmCount, PollInterval, TapMin, LongPress, Cooldown}
          \subseteq Nat \ {0}
    /\ HitsModulus \in Nat /\ ConfirmCount < HitsModulus
    /\ Cooldown <= TapMin /\ TapMin <= LongPress

VARIABLES since,        \* _history: readings since the last one <= v, HistSize if none is left
          baseline,     \* _baseline
          hits,         \* _confirmHits
          confirmed,    \* _confirmed
          longFired,    \* _longFired
          held,         \* age of _touchStartAt
          sinceEvent,   \* age of _lastEventAt
          sincePoll,    \* age of _lastPollAt
          event,        \* what the last poll() returned
          (* history *)
          events,       \* events since the press was confirmed
          streak        \* readings above the threshold in a row, up to ConfirmCount

levelVars == <<since, baseline>>
timeVars  == <<held, sinceEvent, sincePoll>>
touchVars == <<levelVars, hits, confirmed, longFired, timeVars, event, events, streak>>

Raw == 0..MaxRaw

TouchTypeOK ==
    /\ since \in [Raw -> 0..HistSize] /\ baseline \in Raw
    /\ hits \in 0..(HitsModulus - 1)
    /\ streak \in 0..ConfirmCount
    /\ confirmed \in BOOLEAN /\ longFired \in BOOLEAN
    /\ held \in 0..LongPress /\ sinceEvent \in 0..Cooldown /\ sincePoll \in 0..PollInterval
    /\ event \in {"NONE", "TAP", "LONG_PRESS"}
    /\ events \in Nat

\* resetBaseline(), called by begin() alone, and the second of silence after it.
\* Its average is overwritten by the first reading.
TouchInit ==
    /\ since = [v \in Raw |-> HistSize] /\ baseline \in Raw
    /\ hits = 0 /\ streak = 0
    /\ confirmed = FALSE /\ longFired = FALSE
    /\ held = 0 /\ sinceEvent = Cooldown /\ sincePoll = PollInterval
    /\ event = "NONE" /\ events = 0

-----------------------------------------------------------------------------

Least(a, b) == IF a < b THEN a ELSE b

\* Time passes between two calls of poll(); a call may be long in coming.
TouchTick ==
    /\ held' = Least(held + 1, LongPress)
    /\ sinceEvent' = Least(sinceEvent + 1, Cooldown)
    /\ sincePoll' = Least(sincePoll + 1, PollInterval)
    /\ UNCHANGED <<levelVars, hits, confirmed, longFired, event, events, streak>>

Report(e) == event' = e /\ sinceEvent' = 0 /\ events' = events + 1

LongDue == confirmed /\ ~longFired /\ held >= LongPress

\* Mutant of PollLongPress: the release is not told that the long press was reported.
PollLongPressForgotten ==
    /\ LongDue
    /\ Report("LONG_PRESS")
    /\ UNCHANGED <<levelVars, hits, confirmed, longFired, held, sincePoll, streak>>

\* The long press is looked for before the interval of the readings.
PollLongPress ==
    /\ LongDue
    /\ longFired' = TRUE
    /\ Report("LONG_PRESS")
    /\ UNCHANGED <<levelVars, hits, confirmed, held, sincePoll, streak>>

\* Mutant of NextSince: a history that never forgets.
NextSinceForEver(raw) ==
    [v \in Raw |-> IF raw <= v THEN 0
                  ELSE IF since[v] = HistSize THEN HistSize
                  ELSE Least(since[v] + 1, HistSize - 1)]

\* The reading enters the history, the oldest one leaves it.
NextSince(raw) == [v \in Raw |-> IF raw <= v THEN 0 ELSE Least(since[v] + 1, HistSize)]

\* The sliding minimum.
Lowest(s) == CHOOSE v \in Raw : s[v] < HistSize /\ \A u \in 0..(v - 1) : s[u] = HistSize

\* diff >= TOUCH_THRESHOLD, against a baseline that includes the reading itself.
Above(raw) == raw >= baseline' + Threshold

\* Mutant of Confirm: the long press before is not forgotten.
ConfirmKeepsLongFired == confirmed' = TRUE /\ held' = 0 /\ events' = 0 /\ UNCHANGED longFired

Confirm == confirmed' = TRUE /\ longFired' = FALSE /\ held' = 0 /\ events' = 0

\* Mutant of NextHits: a counter that does not wrap.
NextHitsUnbounded(h) == h + 1

NextHits(h) == (h + 1) % HitsModulus

\* Mutant of Touched: whether there is a press is asked of the counter alone.
TouchedByCounter ==
    /\ hits' = NextHits(hits) /\ streak' = Least(streak + 1, ConfirmCount)
    /\ IF hits' >= ConfirmCount /\ ~confirmed
       THEN Confirm
       ELSE confirmed' = (hits' >= ConfirmCount) /\ UNCHANGED <<longFired, held, events>>
    /\ event' = "NONE" /\ UNCHANGED sinceEvent

\* A reading above the threshold.
Touched ==
    /\ hits' = NextHits(hits) /\ streak' = Least(streak + 1, ConfirmCount)
    /\ IF hits' >= ConfirmCount /\ ~confirmed
       THEN Confirm
       ELSE UNCHANGED <<confirmed, longFired, held, events>>
    /\ event' = "NONE" /\ UNCHANGED sinceEvent

\* A reading that is not: the press, if there was one, is over.
Released ==
    /\ hits' = 0 /\ streak' = 0 /\ confirmed' = FALSE
    /\ IF confirmed /\ ~longFired /\ held >= TapMin /\ sinceEvent >= Cooldown
       THEN Report("TAP")
       ELSE event' = "NONE" /\ UNCHANGED <<sinceEvent, events>>
    /\ UNCHANGED <<longFired, held>>

PollReading ==
    /\ ~LongDue
    /\ sincePoll >= PollInterval
    /\ sincePoll' = 0
    /\ \E raw \in Raw :
         /\ since' = NextSince(raw)
         /\ baseline' = Lowest(since')
         /\ IF Above(raw) THEN Touched ELSE Released

\* Too early for a reading.
PollEarly ==
    /\ ~LongDue
    /\ sincePoll < PollInterval
    /\ event' = "NONE"
    /\ UNCHANGED <<levelVars, hits, confirmed, longFired, timeVars, events, streak>>

Poll == PollLongPress \/ PollReading \/ PollEarly

TouchNext == TouchTick \/ Poll

TouchSpec == TouchInit /\ [][TouchNext]_touchVars

\* loop() polls again and again, and time passes.
FairTouchSpec == TouchSpec /\ WF_touchVars(TouchTick) /\ WF_touchVars(Poll)

-----------------------------------------------------------------------------

\* A press is a tap or a long press or nothing, never two of them: the device is
\* not switched by the release of the press that locked it.
OneEventPerPress == events <= 1

\* Every press that was held long enough since it was confirmed is reported, as the
\* one or the other: neither the cooldown after the last event nor what is left of
\* an earlier press swallows it.
NoPressSwallowed ==
    [][confirmed /\ ~confirmed' /\ held >= TapMin => events' = 1]_touchVars

\* There is a press exactly while the last ConfirmCount readings or more were above
\* the threshold: while a level keeps rising a press outlives the history and the
\* 8-bit counter wraps, which neither drops the press nor begins it again.
DebounceExact == confirmed <=> streak >= ConfirmCount

\* Whatever the readings do, a press ends: a finger that stays, a sensor that sticks
\* or one whose level goes on rising is taken for released once the baseline has
\* come up to it.
PressEnds == []<>~confirmed
=============================================================================
