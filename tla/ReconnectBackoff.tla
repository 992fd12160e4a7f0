-------------------------- MODULE ReconnectBackoff --------------------------
(***************************************************************************)
(* _consecutiveFailures and the delay scheduleReconnect() derives from it, *)
(* in milliseconds and at the real width of the counter and of the word.   *)
(* What makes an attempt fail or succeed is the business of MqttTransport. *)
(***************************************************************************)
EXTENDS ConnectionPolicy

CONSTANT MaxFailures   \* 250

ASSUME BackoffAssumption == MaxFailures \in Nat \ {0}

\* uint32_t, and delays far below what it holds: a cap of less than 66 s, and a
\* base that loses no more than three zero bits to a shift (1000 is 8 * 125).
ASSUME WidthAssumption ==
    /\ WordBits = 32
    /\ MaxDelay < 65536
    /\ BaseDelay % 16 # 0

VARIABLES failures,   \* _consecutiveFailures
          delay       \* delayMs of the last scheduleReconnect(), 0 before any

backoffVars == <<failures, delay>>

BackoffTypeOK == failures \in 0..MaxFailures /\ delay \in 0..MaxDelay

BackoffInit == failures = 0 /\ delay = 0

\* scheduleReconnect() with no retry pending.
ScheduleReconnect ==
    /\ failures' = IF failures < MaxFailures THEN failures + 1 ELSE failures
    /\ delay' \in BackoffDelays(failures')

\* onConnect and the WiFi guard of loop().
Reset == failures > 0 /\ failures' = 0 /\ delay' = 0

BackoffNext == ScheduleReconnect \/ Reset

BackoffSpec == BackoffInit /\ [][BackoffNext]_backoffVars

-----------------------------------------------------------------------------

\* The first failures for which every shifted bit still counts: the low zero
\* bits of 1000 (three of them) are shifted out from here on.
IntactFailures == WordBits - 3

\* For the first 29 failures in a row the wait grows from 1 s, never shrinks and
\* never leaves the documented 1 s - 5 s.
BackoffMonotone ==
    [][/\ failures' = failures + 1 /\ failures' <= IntactFailures
       => delay' \in BaseDelay..MaxDelay /\ (failures > 0 => delay' >= delay)]_backoffVars

\* "reconnect backoff (1s-5s)" (docs/site/architecture.md) and "Mild backoff:
\* 1s -> 2s -> 5s cap" (scheduleReconnect): a broker that stays away is retried
\* every 1 s to 5 s, however long it stays away.
DelayAsDocumented == failures > 0 => delay \in BaseDelay..MaxDelay
=============================================================================
