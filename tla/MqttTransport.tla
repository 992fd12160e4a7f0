---------------------------- MODULE MqttTransport ----------------------------
(***************************************************************************)
(* The connection life cycle of class MQTTTransport                        *)
(* (apps/firmware/src/include/mqtt_transport.h): the reconnect scheduler,  *)
(* the handshake and silence timeouts, the WiFi guard and the housekeeping *)
(* of loop(), together with the callbacks of espMqttClientAsync, the WiFi  *)
(* station and millis().                                                   *)
(*                                                                         *)
(* loop() takes its timestamp, drives the client, and only then decides.   *)
(* Driving the client runs callbacks and takes time, so loop() is two      *)
(* steps here: LoopBegin (up to and including the call of _client.loop())  *)
(* and LoopEnd (everything after it, which never yields).  Callbacks also  *)
(* run between two calls of loop(), at the yields of the main loop.        *)
(*                                                                         *)
(* A timestamp no branch can read any more holds 0: _nextReconnectAt while *)
(* no retry is wanted, _reconnectingStartMs outside RECONNECTING,          *)
(* _lastMessageAt outside CONNECTED, loop()'s local now outside loop().    *)
(***************************************************************************)
EXTENDS ConnectionPolicy, MillisClock

CONSTANTS MaxFailures,          \* ceiling of _consecutiveFailures (250)
          ReconnectingTimeout,  \* MQTT_RECONNECTING_TIMEOUT_MS
          SilenceTimeout,       \* MQTT_CONNECTED_SILENCE_TIMEOUT_MS
          OfflineCheckInterval, \* 1000UL in loop()
          TopicPurgeInterval,   \* 30000L in loop()
          MaxStall,             \* bound: ticks between two steps of loop()
          ServerEdits           \* whether the server name is edited at run time

ASSUME TransportAssumption ==
    /\ MaxFailures \in Nat \ {0}
    /\ {ReconnectingTimeout, SilenceTimeout} \subseteq Nat
    /\ {OfflineCheckInterval, TopicPurgeInterval, MaxStall} \subseteq Nat \ {0}
    /\ ServerEdits \in BOOLEAN

\* The clock is wide enough for the intervals measured on it: 15 s and a stall
\* against the 24.8 days of half of 2^32 ms.
ASSUME TimingAssumption ==
    /\ MaxDelay + MaxStall <= Modulus \div 2
    /\ ReconnectingTimeout + 2 * MaxStall < Modulus \div 2
    /\ SilenceTimeout + 2 * MaxStall < Modulus \div 2

VARIABLES
    clock,              \* millis()
    stall,              \* ticks since loop() last took a step
    wifi,               \* WiFi.status() == WL_CONNECTED
    server,             \* strlen(config.mqttServer) > 0
    begun,              \* startMonitorMode has called connect()
    client,             \* state of espMqttClientAsync
    state,              \* _state
    needsReconnect,     \* _needsReconnect
    nextReconnectAt,    \* _nextReconnectAt
    failures,           \* _consecutiveFailures
    reconnectingStart,  \* _reconnectingStartMs
    lastMessageAt,      \* _lastMessageAt
    offlineCheckAt,     \* _lastOfflineCheckAt
    topicPurgeAt,       \* _lastTopicPurgeAt
    pc,                 \* where the main loop is: "boot", "yield" or "loop"
    loopNow             \* the local variable now of loop()

connVars   == <<state, needsReconnect, nextReconnectAt, failures, reconnectingStart, lastMessageAt>>
taskVars   == <<offlineCheckAt, topicPurgeAt>>
loopVars   == <<pc, loopNow>>
envVars    == <<clock, wifi, server>>
vars == <<envVars, stall, begun, client, connVars, taskVars, loopVars>>

ClientStates == {"disconnected", "connecting", "connected", "disconnecting"}
ConnStates   == {"DISCONNECTED", "RECONNECTING", "CONNECTED"}

TypeOK ==
    /\ clock \in Times /\ loopNow \in Times
    /\ nextReconnectAt \in Times /\ reconnectingStart \in Times
    /\ lastMessageAt \in Times
    /\ offlineCheckAt \in Times /\ topicPurgeAt \in Times
    /\ stall \in 0..MaxStall
    /\ wifi \in BOOLEAN /\ server \in BOOLEAN /\ begun \in BOOLEAN
    /\ client \in ClientStates
    /\ state \in ConnStates
    /\ needsReconnect \in BOOLEAN
    /\ failures \in 0..MaxFailures
    /\ pc \in {"boot", "yield", "loop"}

\* setup() has brought WiFi up and taken some time to; the configuration may or may not name a server.
Init ==
    /\ clock = 1 /\ stall = 0
    /\ wifi = TRUE /\ server \in BOOLEAN /\ begun = FALSE
    /\ client = "disconnected"
    /\ state = "DISCONNECTED" /\ needsReconnect = FALSE /\ nextReconnectAt = 0
    /\ failures = 0 /\ reconnectingStart = 0 /\ lastMessageAt = 0
    /\ offlineCheckAt = 0 /\ topicPurgeAt = 0
    /\ pc = "boot" /\ loopNow = 0

-----------------------------------------------------------------------------
(* Helpers of the handlers. *)

\* Mutant of NextFailures: no ceiling.
NextFailuresUncapped == failures + 1

NextFailures == IF failures < MaxFailures THEN failures + 1 ELSE failures

\* The retry is set for d from now; _state becomes (or stays) DISCONNECTED.
RetryIn(d) ==
    /\ state' = "DISCONNECTED"
    /\ needsReconnect' = TRUE
    /\ nextReconnectAt' = Later(clock, d)
    /\ reconnectingStart' = 0 /\ lastMessageAt' = 0

\* scheduleReconnect() with no retry pending.
CountFailure ==
    /\ failures' = NextFailures
    /\ \E d \in BackoffDelays(NextFailures) : RetryIn(d)

\* Mutant of DisconnectAndSchedule: scheduleReconnect() without its early return.
DisconnectAndScheduleAgain == CountFailure

\* "_state = DISCONNECTED; scheduleReconnect();" - a pending retry is left alone.
DisconnectAndSchedule ==
    \/ /\ needsReconnect
       /\ state' = "DISCONNECTED"
       /\ reconnectingStart' = 0 /\ lastMessageAt' = 0
       /\ UNCHANGED <<needsReconnect, nextReconnectAt, failures>>
    \/ ~needsReconnect /\ CountFailure

\* espMqttClientAsync::disconnect(true).
ForceDisconnect ==
    client' = IF client = "disconnected" THEN "disconnected" ELSE "disconnecting"

-----------------------------------------------------------------------------
(* connect(), called with no retry pending. *)

\* Mutants of ConnectWithoutWifi: no retry is set; the outage counts as a failure.
ConnectWithoutWifiNoRetry ==
    /\ ~wifi
    /\ state' = "DISCONNECTED" /\ needsReconnect' = FALSE
    /\ UNCHANGED <<client, nextReconnectAt, failures, reconnectingStart, lastMessageAt>>

ConnectWithoutWifiCounted == ~wifi /\ CountFailure /\ UNCHANGED client

\* WiFi is down: try again after the base delay, and do not count a failure.
ConnectWithoutWifi ==
    /\ ~wifi
    /\ RetryIn(BaseDelay)
    /\ UNCHANGED <<client, failures>>

\* Mutant of ConnectRefused: the client's refusal is not followed by a retry.
ConnectRefusedNoRetry ==
    /\ wifi
    /\ state' = "DISCONNECTED" /\ needsReconnect' = FALSE
    /\ UNCHANGED <<client, nextReconnectAt, failures, reconnectingStart, lastMessageAt>>

\* The heap has no block large enough, or the client cannot take the packet
\* (its connect() returned false): a counted failure.
ConnectRefused ==
    /\ wifi
    /\ CountFailure
    /\ UNCHANGED client

\* The client accepted the attempt.
ConnectStarted ==
    /\ wifi /\ client = "disconnected"
    /\ client' = "connecting"
    /\ state' = "RECONNECTING" /\ needsReconnect' = FALSE /\ nextReconnectAt' = 0
    /\ reconnectingStart' = clock
    /\ lastMessageAt' = 0
    /\ UNCHANGED failures

Connect == ConnectWithoutWifi \/ ConnectRefused \/ ConnectStarted

\* startMonitorMode() of main.cpp: register the callbacks, connect if a server is set.
StartMonitorMode ==
    /\ pc = "boot" /\ pc' = "yield"
    /\ begun' = server
    /\ IF server THEN Connect ELSE UNCHANGED <<client, connVars>>
    /\ stall' = 0
    /\ UNCHANGED <<envVars, taskVars, loopNow>>

-----------------------------------------------------------------------------
(* Callbacks, run by _client.loop() or at a yield. *)

CanCallBack == pc # "boot" /\ UNCHANGED <<envVars, stall, begun, taskVars, loopVars>>

\* onConnect: the broker accepted the session in time.
OnConnect ==
    /\ CanCallBack
    /\ client = "connecting" /\ wifi
    /\ client' = "connected"
    /\ state' = "CONNECTED" /\ failures' = 0
    /\ lastMessageAt' = clock /\ reconnectingStart' = 0
    /\ UNCHANGED <<needsReconnect, nextReconnectAt>>

\* Mutant of OnDisconnect: the state is noted, the retry is not.
OnDisconnectNoRetry ==
    /\ CanCallBack
    /\ client = "disconnecting" /\ client' = "disconnected"
    /\ state' = "DISCONNECTED" /\ reconnectingStart' = 0 /\ lastMessageAt' = 0
    /\ UNCHANGED <<needsReconnect, nextReconnectAt, failures>>

\* onDisconnect: the client has torn the connection down.
OnDisconnect ==
    /\ CanCallBack
    /\ client = "disconnecting" /\ client' = "disconnected"
    /\ DisconnectAndSchedule

\* onMessage with a frame the store takes (handleMessage's last branch).  A
\* message dropped earlier changes nothing here.
OnMessage ==
    /\ CanCallBack
    /\ client = "connected" /\ wifi
    /\ lastMessageAt' = IF state = "CONNECTED" THEN clock ELSE 0
    /\ UNCHANGED <<client, state, needsReconnect, nextReconnectAt, failures, reconnectingStart>>

\* The client learns that its TCP connection or its handshake failed.
TcpLost ==
    /\ CanCallBack
    /\ client \in {"connecting", "connected"} /\ client' = "disconnecting"
    /\ UNCHANGED connVars

-----------------------------------------------------------------------------
(* loop() *)

LoopBegin ==
    /\ pc = "yield" /\ server
    /\ pc' = "loop" /\ loopNow' = clock
    /\ stall' = 0
    /\ UNCHANGED <<envVars, begun, client, connVars, taskVars>>

\* Mutant of Housekeeping: it waits for a session.
HousekeepingConnected ==
    /\ offlineCheckAt' = IF state = "CONNECTED" THEN loopNow ELSE offlineCheckAt
    /\ UNCHANGED topicPurgeAt

\* The device offline check and the topic purge at the end of loop().
Housekeeping ==
    /\ offlineCheckAt' = IF Elapsed(loopNow, offlineCheckAt) >= OfflineCheckInterval
                         THEN loopNow ELSE offlineCheckAt
    /\ topicPurgeAt' = IF SignedElapsed(loopNow, topicPurgeAt) >= TopicPurgeInterval
                       THEN loopNow ELSE topicPurgeAt

\* What loop() does after _client.loop(), up to its end.
AfterClient ==
    /\ pc = "loop" /\ pc' = "yield" /\ loopNow' = 0
    /\ stall' = 0
    /\ UNCHANGED <<envVars, begun>>

\* Mutants: the timeouts trust a client that is already disconnecting to call
\* back; the silence check reads the difference of the timestamps as unsigned.
TimedOutConnecting ==
    /\ state = "RECONNECTING" /\ client = "connecting"
    /\ HasElapsed(loopNow, reconnectingStart, ReconnectingTimeout)
SilentConnected ==
    /\ state = "CONNECTED" /\ client = "connected"
    /\ lastMessageAt > 0
    /\ HasElapsed(loopNow, lastMessageAt, SilenceTimeout)
SilentUnsigned ==
    /\ state = "CONNECTED" /\ lastMessageAt > 0
    /\ Elapsed(loopNow, lastMessageAt) > SilenceTimeout

RetryDue   == needsReconnect /\ state = "DISCONNECTED" /\ IsDue(loopNow, nextReconnectAt)
WifiLost   == state = "CONNECTED" /\ ~wifi
TimedOut   == state = "RECONNECTING" /\ HasElapsed(loopNow, reconnectingStart, ReconnectingTimeout)
Silent     == /\ state = "CONNECTED"
              /\ lastMessageAt > 0
              /\ HasElapsed(loopNow, lastMessageAt, SilenceTimeout)

\* The WiFi guard.  The retry it sets lies after loopNow, so the scheduler
\* below it does not run it in the same call; the client is left alone.
LoopWifiLost ==
    /\ AfterClient /\ WifiLost
    /\ RetryIn(BaseDelay) /\ failures' = 0
    /\ UNCHANGED client
    /\ Housekeeping

\* The early return: the client has not reached its disconnected state yet.
LoopWaitForClient ==
    /\ AfterClient /\ RetryDue
    /\ client # "disconnected"
    /\ UNCHANGED <<client, connVars, taskVars>>

LoopAttempt ==
    /\ AfterClient /\ RetryDue
    /\ client = "disconnected"
    /\ Connect
    /\ Housekeeping

\* Mutant of LoopTimeout: the retry is set but the attempt is left running.
LoopTimeoutNoDisconnect ==
    /\ AfterClient /\ TimedOut
    /\ UNCHANGED client /\ DisconnectAndSchedule
    /\ Housekeeping

LoopTimeout ==
    /\ AfterClient /\ TimedOut
    /\ ForceDisconnect /\ DisconnectAndSchedule
    /\ Housekeeping

LoopSilence ==
    /\ AfterClient /\ ~WifiLost /\ Silent
    /\ ForceDisconnect /\ DisconnectAndSchedule
    /\ Housekeeping

LoopQuiet ==
    /\ AfterClient /\ ~(WifiLost \/ RetryDue \/ TimedOut \/ Silent)
    /\ UNCHANGED <<client, connVars>>
    /\ Housekeeping

LoopEnd ==
    \/ LoopWifiLost \/ LoopWaitForClient \/ LoopAttempt
    \/ LoopTimeout \/ LoopSilence \/ LoopQuiet

-----------------------------------------------------------------------------
(* The environment. *)

\* Time passes, at most MaxStall ticks between two steps of loop(); without a
\* server loop() returns at once and nothing bounds it.
Tick ==
    /\ pc # "boot"
    /\ server => stall < MaxStall
    /\ clock' = Later(clock, 1)
    /\ stall' = IF server THEN stall + 1 ELSE 0
    /\ UNCHANGED <<wifi, server, begun, client, connVars, taskVars, loopVars>>

WifiChange ==
    /\ wifi' = ~wifi
    /\ UNCHANGED <<clock, server, stall, begun, client, connVars, taskVars, loopVars>>

\* A configuration saved from the web interface sets or clears the server name.
ServerChange ==
    /\ ServerEdits /\ pc = "yield"
    /\ server' = ~server
    /\ stall' = 0
    /\ UNCHANGED <<clock, wifi, begun, client, connVars, taskVars, loopVars>>

Next ==
    \/ StartMonitorMode \/ LoopBegin \/ LoopEnd
    \/ OnConnect \/ OnDisconnect \/ OnMessage \/ TcpLost
    \/ Tick \/ WifiChange \/ ServerChange

Spec == Init /\ [][Next]_vars

-----------------------------------------------------------------------------
(* Fairness. *)

\* The main loop runs, millis() advances, and the client finishes tearing a
\* connection down once it has begun to.
SchedulingFairness ==
    /\ WF_vars(StartMonitorMode) /\ WF_vars(LoopBegin) /\ WF_vars(LoopEnd)
    /\ WF_vars(Tick) /\ WF_vars(OnDisconnect)

\* The broker does not miss every handshake, the heap is not short at every attempt.
NetworkFairness == SF_vars(OnConnect) /\ SF_vars(LoopAttempt /\ ConnectStarted)

\* What the WiFi guard's comment relies on: a client whose transport has been
\* marked DISCONNECTED finds out by itself that its TCP connection is gone.
TcpLossNoticed == WF_vars(TcpLost /\ state = "DISCONNECTED")

FairSpec        == Spec /\ SchedulingFairness /\ NetworkFairness
NoticedLossSpec == FairSpec /\ TcpLossNoticed

-----------------------------------------------------------------------------
(* Properties. *)

\* After startup a retry is pending exactly while the transport is
\* DISCONNECTED: no path through loop(), connect() or a callback forgets the
\* retry, and none leaves one behind that could fire over a live attempt.
RetryPending == begun => (needsReconnect <=> state = "DISCONNECTED")

\* _state never claims more than the client has: an attempt in the client is
\* RECONNECTING here, and CONNECTED is never shown over a client that is
\* disconnected or still connecting, whatever order callbacks and loop() take.
ClientInStep ==
    /\ client = "connecting" => state = "RECONNECTING"
    /\ client = "disconnected" => state = "DISCONNECTED"
    /\ state = "CONNECTED" => client \in {"connected", "disconnecting"}
    /\ state = "RECONNECTING" => client \in {"connecting", "disconnecting"}

\* The slack of the timeouts: loop()'s timestamp may be MaxStall old when it is
\* used, and two calls of loop() take one more step between them.
Slack == 3 * MaxStall

\* RECONNECTING never outlasts the handshake timeout by more than the slack.
HandshakeBounded ==
    state = "RECONNECTING" => Elapsed(clock, reconnectingStart) <= ReconnectingTimeout + Slack

\* "If MQTT shows CONNECTED but no messages arrive for too long [...] force
\* reconnect" (loop(), the silence check): CONNECTED without a message never
\* lasts longer than the silence timeout and the slack - unless the last message
\* came in the one millisecond in which millis() reads 0, which the check takes
\* for "no message yet".
ZombieBoundedUnlessZero ==
    state = "CONNECTED" /\ lastMessageAt # 0
        => Elapsed(clock, lastMessageAt) <= SilenceTimeout + Slack

\* A retry that is pending stands: until it is due nothing moves it, drops it
\* or counts another failure - not a late onDisconnect of the attempt that the
\* timeout already gave up, nor a second WiFi loss.
PendingRetryStands ==
    [][begun /\ state = "DISCONNECTED" /\ ~(pc = "loop" /\ RetryDue)
        => UNCHANGED <<needsReconnect, nextReconnectAt, failures>>]_vars

\* "WiFi down - retry in 1s without incrementing failure count" (connect()):
\* however often the retry comes round, an outage adds no failure.
OutageNotCounted ==
    [][begun /\ state = "DISCONNECTED" /\ ~wifi => UNCHANGED failures]_vars

\* loop() decides with a timestamp taken before the callbacks ran.  Still no
\* timer fires early: not the silence check on a message that arrived during
\* _client.loop(), not the retry that an onDisconnect has just scheduled.
TimersNotEarly ==
    [][/\ LoopSilence => Elapsed(clock, lastMessageAt) > SilenceTimeout
       /\ LoopTimeout => Elapsed(clock, reconnectingStart) > ReconnectingTimeout
       /\ LoopAttempt => Elapsed(nextReconnectAt, clock) \notin 1..MaxDelay]_vars

\* Where the contract is; "lost", DISCONNECTED without a retry, is no phase of it.
Phase == CASE ~begun -> "off"
           [] begun /\ state = "RECONNECTING" -> "attempting"
           [] begun /\ state = "CONNECTED" -> "up"
           [] begun /\ state = "DISCONNECTED" /\ needsReconnect -> "waiting"
           [] OTHER -> "lost"

Contract == INSTANCE ReconnectContract WITH phase <- Phase

\* The transport implements ReconnectContract: started, it has a retry pending,
\* an attempt under way or a session, and it moves between them in that order.
KeepsContract == Contract!Spec

\* The transport reconnects: once WiFi and the server name stay, it is
\* CONNECTED again and again, whatever it went through before.
Reconnects == <>[](wifi /\ server /\ begun) => []<>(state = "CONNECTED")

\* While a server is configured the device offline check never stops.
OfflineChecksGoOn == <>[]server => []<><<offlineCheckAt' # offlineCheckAt>>_vars
=============================================================================
