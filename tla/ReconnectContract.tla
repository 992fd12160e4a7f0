-------------------------- MODULE ReconnectContract --------------------------
(***************************************************************************)
(* What MQTTTransport promises, without timers, client or network: once    *)
(* started it always has a retry pending, an attempt under way or a        *)
(* session, in that order, and it never falls back to doing nothing.       *)
(***************************************************************************)
VARIABLE phase

Phases == {"off", "waiting", "attempting", "up"}

Init == phase = "off"

Start   == phase = "off" /\ phase' \in {"waiting", "attempting"}
Attempt == phase = "waiting" /\ phase' = "attempting"
Succeed == phase = "attempting" /\ phase' = "up"
Fail    == phase \in {"attempting", "up"} /\ phase' = "waiting"

Next == Start \/ Attempt \/ Succeed \/ Fail

Spec == Init /\ [][Next]_phase
=============================================================================
