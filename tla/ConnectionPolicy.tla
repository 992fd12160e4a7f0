-------------------------- MODULE ConnectionPolicy --------------------------
(***************************************************************************)
(* The pure decisions of apps/firmware/include/connection_policy.h that    *)
(* the connection code shares, and the retry delay that scheduleReconnect  *)
(* of mqtt_transport.h computes with a left shift of an unsigned word.     *)
(***************************************************************************)
EXTENDS Integers

CONSTANTS BaseDelay,   \* MQTT_RECONNECT_BASE_MS
          MaxDelay,    \* MQTT_RECONNECT_MAX_MS
          WordBits     \* width of uint32_t

ASSUME PolicyAssumption ==
    /\ BaseDelay \in Nat \ {0}
    /\ MaxDelay \in Nat
    /\ BaseDelay <= MaxDelay
    /\ WordBits \in Nat \ {0}

\* Mutant of CappedShift: over the cap it starts again from the base.
SawtoothShift(k) == IF 2^k > MaxDelay \div BaseDelay THEN BaseDelay ELSE 2^k * BaseDelay

(***************************************************************************)
(* BaseDelay << k in WordBits bits, capped at MaxDelay, for k < WordBits.  *)
(* Only the low WordBits - k bits of BaseDelay survive the shift; low is   *)
(* their value.  Comparing before multiplying keeps the number small.      *)
(***************************************************************************)
CappedShift(k) ==
    LET low == IF WordBits - k > 30 THEN BaseDelay ELSE BaseDelay % 2^(WordBits - k)
    IN  IF low = 0 THEN 0
        ELSE IF 2^k > MaxDelay \div low THEN MaxDelay ELSE 2^k * low

(***************************************************************************)
(* The delays scheduleReconnect can choose when the counter reads          *)
(* failures >= 1.  A shift by the word width or more is undefined: the     *)
(* build either shifts everything out or uses the count modulo the width.  *)
(***************************************************************************)
BackoffDelays(failures) ==
    LET k == failures - 1
    IN  {d \in 0..MaxDelay :
            IF k < WordBits THEN d = CappedShift(k)
                            ELSE d = 0 \/ d = CappedShift(k % WordBits)}

\* shouldEnterApModeAfterBootRetries.
ShouldEnterApMode(hasSavedConfig, storageReady, cycles, maxCycles) ==
    (hasSavedConfig \/ ~storageReady) => cycles >= maxCycles
=============================================================================
