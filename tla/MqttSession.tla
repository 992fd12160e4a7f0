---------------------------- MODULE MqttSession ----------------------------
(***************************************************************************)
(* The sessions of the MQTT client: they end in the middle of a message,   *)
(* are retried with a growing delay, and the next one finds the buffer as  *)
(* the last one left it.  Why and when they begin and end is the business  *)
(* of MqttTransport; here they do so at any time.                          *)
(***************************************************************************)
EXTENDS ReconnectBackoff, FragmentReassembly

VARIABLE session   \* the client has a session with the broker

vars == <<session, backoffVars, fragmentVars>>

Init == session = FALSE /\ BackoffInit /\ FragmentInit

\* onConnect: the failures are forgotten, the buffer is not.
OnConnect ==
    /\ ~session /\ session' = TRUE
    /\ failures' = 0 /\ delay' = 0
    /\ UNCHANGED fragmentVars

\* onDisconnect, and the timeouts that end a session.
OnDisconnect ==
    /\ session /\ session' = FALSE
    /\ ScheduleReconnect
    /\ MessageCut

\* An attempt fails, or the WiFi guard forgets the failures.
WithoutSession ==
    /\ ~session /\ UNCHANGED session
    /\ ScheduleReconnect \/ Reset
    /\ UNCHANGED fragmentVars

\* onMessage, once or more for every message the broker sends.
OnMessage ==
    /\ session /\ UNCHANGED session
    /\ MessageBegins \/ FragmentArrives
    /\ UNCHANGED backoffVars

Next == OnConnect \/ OnDisconnect \/ WithoutSession \/ OnMessage

Spec == Init /\ [][Next]_vars
=============================================================================
