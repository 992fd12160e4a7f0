----------------------------- MODULE MillisClock -----------------------------
(***************************************************************************)
(* Arithmetic on millis(), the free-running unsigned clock of the Arduino  *)
(* core.  It wraps at 2^32 ms (49.7 days), so the firmware compares two    *)
(* timestamps through their modular difference, sometimes read as unsigned *)
(* and sometimes cast to a signed long.  Modulus is the wrap-around value  *)
(* in the time unit the using module has chosen.                           *)
(***************************************************************************)
EXTENDS Integers

CONSTANT Modulus

ASSUME ModulusAssumption == Modulus \in Nat \ {0, 1}

Times == 0..(Modulus - 1)

Later(t, d) == (t + d) % Modulus

\* a - b on unsigned long.
Elapsed(a, b) == (a - b) % Modulus

\* (long)(a - b): the upper half of the range reads as negative.
SignedElapsed(a, b) ==
    IF Elapsed(a, b) < Modulus \div 2 THEN Elapsed(a, b) ELSE Elapsed(a, b) - Modulus

\* hasElapsedIntervalMs and every "(long)(now - since) > (long)timeout".
HasElapsed(t, since, interval) == SignedElapsed(t, since) > interval

\* "(long)(now - at) >= 0": the instant at has come.
IsDue(t, at) == SignedElapsed(t, at) >= 0
=============================================================================
