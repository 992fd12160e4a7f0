------------------------- MODULE MqttTransportProofs -------------------------
(***************************************************************************)
(* Proofs about MqttTransport for every clock modulus, timeout, backoff    *)
(* and word width.  None of them depends on how the timers compare: the    *)
(* retry bookkeeping is right whenever a timer fires, early or late.       *)
(***************************************************************************)
EXTENDS MqttTransport, TLAPS

\* The value of a modular timestamp stays in the range of the clock.
LEMMA LaterInTimes ==
    ASSUME NEW t \in Times, NEW d \in Int
    PROVE  Later(t, d) \in Times
<1>1. \A a \in Int : a % Modulus \in 0..(Modulus - 1)
  BY ModulusAssumption
<1>2. t + d \in Int
  BY ModulusAssumption DEF Times
<1> QED
  BY <1>1, <1>2 DEF Later, Times

\* Every delay the backoff can choose is an integer.
LEMMA BackoffInt == \A f : BackoffDelays(f) \subseteq Int
  BY PolicyAssumption DEF BackoffDelays

\* Before connect() has been called nothing is under way.
NotBegun == ~begun => client = "disconnected" /\ state = "DISCONNECTED" /\ ~needsReconnect

\* What startMonitorMode finds.
BootIdle == pc = "boot" => ~begun

IInv == TypeOK /\ RetryPending /\ ClientInStep /\ NotBegun /\ BootIdle

-----------------------------------------------------------------------------
(* What the handlers' helpers establish, given the types. *)

\* The types of the connection variables, on their own.
ConnTypeOK ==
    /\ state \in ConnStates /\ needsReconnect \in BOOLEAN
    /\ nextReconnectAt \in Times /\ failures \in 0..MaxFailures
    /\ reconnectingStart \in Times /\ lastMessageAt \in Times

LEMMA ZeroInTimes == 0 \in Times
  BY ModulusAssumption DEF Times

\* RetryIn keeps the types and leaves a pending retry in DISCONNECTED.
LEMMA RetryInKeeps ==
    ASSUME TypeOK, NEW d \in Int, RetryIn(d), failures' \in 0..MaxFailures
    PROVE  ConnTypeOK' /\ state' = "DISCONNECTED" /\ needsReconnect'
<1>1. Later(clock, d) \in Times
  BY LaterInTimes DEF TypeOK
<1> QED
  BY <1>1, ZeroInTimes DEF RetryIn, ConnTypeOK, ConnStates

\* scheduleReconnect's counting branch does the same.
LEMMA CountFailureKeeps ==
    ASSUME TypeOK, CountFailure
    PROVE  ConnTypeOK' /\ state' = "DISCONNECTED" /\ needsReconnect'
<1>1. failures' \in 0..MaxFailures
  BY TransportAssumption DEF CountFailure, NextFailures, TypeOK
<1>2. PICK d \in BackoffDelays(NextFailures) : RetryIn(d)
  BY DEF CountFailure
<1>3. d \in Int
  BY <1>2, BackoffInt
<1> QED
  BY <1>1, <1>2, <1>3, RetryInKeeps

\* Giving up a connection always ends with a pending retry.
LEMMA DisconnectKeeps ==
    ASSUME TypeOK, DisconnectAndSchedule
    PROVE  ConnTypeOK' /\ state' = "DISCONNECTED" /\ needsReconnect'
<1>1. CASE ~needsReconnect /\ CountFailure
  BY <1>1, CountFailureKeeps
<1>2. CASE needsReconnect /\ ~CountFailure
  BY <1>2, ZeroInTimes DEF DisconnectAndSchedule, ConnTypeOK, TypeOK, ConnStates
<1>3. CASE needsReconnect /\ CountFailure
  BY <1>3, CountFailureKeeps
<1> QED
  BY <1>1, <1>2, <1>3 DEF DisconnectAndSchedule

\* connect() either leaves a pending retry and the client alone, or starts an attempt.
LEMMA ConnectKeeps ==
    ASSUME TypeOK, client = "disconnected", Connect
    PROVE  /\ ConnTypeOK'
           /\ \/ client' = client /\ state' = "DISCONNECTED" /\ needsReconnect'
              \/ client' = "connecting" /\ state' = "RECONNECTING" /\ ~needsReconnect'
<1>1. CASE ConnectWithoutWifi
  <2>1. BaseDelay \in Int
    BY PolicyAssumption
  <2>2. RetryIn(BaseDelay) /\ failures' \in 0..MaxFailures /\ client' = client
    BY <1>1 DEF ConnectWithoutWifi, TypeOK
  <2> QED
    BY <2>1, <2>2, RetryInKeeps
<1>2. CASE ConnectRefused
  BY <1>2, CountFailureKeeps DEF ConnectRefused
<1>3. CASE ConnectStarted
  BY <1>3, ZeroInTimes DEF ConnectStarted, ConnTypeOK, TypeOK, ConnStates
<1> QED
  BY <1>1, <1>2, <1>3 DEF Connect

-----------------------------------------------------------------------------
(* The inductive invariant. *)

LEMMA InitIInv == Init => IInv
<1> SUFFICES ASSUME Init PROVE IInv
  OBVIOUS
<1>1. 1 \in Times
  BY ModulusAssumption DEF Times
<1>2. 0 \in 0..MaxFailures /\ 0 \in 0..MaxStall
  BY TransportAssumption
<1>3. TypeOK
  BY <1>1, <1>2, ZeroInTimes DEF Init, TypeOK, ClientStates, ConnStates
<1>4. RetryPending /\ ClientInStep /\ NotBegun /\ BootIdle
  BY DEF Init, RetryPending, ClientInStep, NotBegun, BootIdle
<1> QED
  BY <1>3, <1>4 DEF IInv

\* The timestamps of the housekeeping tasks keep their type.
LEMMA HousekeepingKeeps ==
    ASSUME TypeOK, Housekeeping
    PROVE  offlineCheckAt' \in Times /\ topicPurgeAt' \in Times
  BY DEF TypeOK, Housekeeping

\* Each step of loop() after the client was driven keeps the invariant.
LEMMA LoopEndKeeps ==
    ASSUME IInv, LoopEnd
    PROVE  IInv'
<1> USE DEF IInv
<1>1. /\ pc = "loop" /\ pc' = "yield" /\ loopNow' = 0 /\ stall' = 0
      /\ UNCHANGED <<clock, wifi, server, begun>>
  BY DEF LoopEnd, LoopWifiLost, LoopWaitForClient, LoopAttempt, LoopTimeout,
         LoopSilence, LoopQuiet, AfterClient, envVars
<1>2. loopNow' \in Times /\ stall' \in 0..MaxStall
  BY <1>1, ZeroInTimes, TransportAssumption
<1>3. offlineCheckAt' \in Times /\ topicPurgeAt' \in Times
  BY HousekeepingKeeps DEF LoopEnd, LoopWifiLost, LoopWaitForClient, LoopAttempt,
     LoopTimeout, LoopSilence, LoopQuiet, taskVars, TypeOK
<1>4. ASSUME ConnTypeOK', client' \in ClientStates PROVE TypeOK'
  BY <1>1, <1>2, <1>3, <1>4 DEF TypeOK, ConnTypeOK
<1>5. CASE LoopWifiLost
  <2>1. RetryIn(BaseDelay) /\ failures' = 0 /\ client' = client /\ state = "CONNECTED"
    BY <1>5 DEF LoopWifiLost, WifiLost
  <2>2. ConnTypeOK' /\ state' = "DISCONNECTED" /\ needsReconnect'
    BY <2>1, RetryInKeeps, PolicyAssumption, TransportAssumption
  <2> QED
    BY <1>1, <1>4, <2>1, <2>2 DEF TypeOK, RetryPending, ClientInStep, NotBegun, BootIdle
<1>6. CASE LoopWaitForClient
  <2>1. UNCHANGED <<client, state, needsReconnect, nextReconnectAt, failures,
                    reconnectingStart, lastMessageAt>>
    BY <1>6 DEF LoopWaitForClient, connVars
  <2> QED
    BY <1>1, <1>4, <2>1 DEF TypeOK, ConnTypeOK, RetryPending, ClientInStep, NotBegun, BootIdle
<1>7. CASE LoopAttempt
  <2>1. client = "disconnected" /\ Connect /\ needsReconnect
    BY <1>7 DEF LoopAttempt, RetryDue
  <2> QED
    BY <1>1, <1>4, <2>1, ConnectKeeps
       DEF TypeOK, RetryPending, ClientInStep, NotBegun, BootIdle, ClientStates
<1>8. CASE LoopTimeout \/ LoopSilence
  <2>1. ForceDisconnect /\ DisconnectAndSchedule /\ state # "DISCONNECTED"
    BY <1>8 DEF LoopTimeout, LoopSilence, TimedOut, Silent
  <2>2. client' = "disconnecting"
    BY <2>1 DEF ForceDisconnect, ClientInStep
  <2> QED
    BY <1>1, <1>4, <2>1, <2>2, DisconnectKeeps
       DEF TypeOK, RetryPending, ClientInStep, NotBegun, BootIdle, ClientStates
<1>9. CASE LoopQuiet
  <2>1. UNCHANGED <<client, state, needsReconnect, nextReconnectAt, failures,
                    reconnectingStart, lastMessageAt>>
    BY <1>9 DEF LoopQuiet, connVars
  <2> QED
    BY <1>1, <1>4, <2>1 DEF TypeOK, ConnTypeOK, RetryPending, ClientInStep, NotBegun, BootIdle
<1> QED
  BY <1>5, <1>6, <1>7, <1>8, <1>9 DEF LoopEnd

\* Each callback keeps the invariant.
LEMMA CallbackKeeps ==
    ASSUME IInv, OnConnect \/ OnDisconnect \/ OnMessage \/ TcpLost
    PROVE  IInv'
<1> USE DEF IInv
<1>1. UNCHANGED <<clock, wifi, server, stall, begun, offlineCheckAt, topicPurgeAt, pc, loopNow>>
  BY DEF OnConnect, OnDisconnect, OnMessage, TcpLost, CanCallBack, envVars, taskVars, loopVars
<1>2. ASSUME ConnTypeOK', client' \in ClientStates PROVE TypeOK'
  BY <1>1, <1>2 DEF TypeOK, ConnTypeOK
<1>3. CASE OnConnect
  BY <1>1, <1>2, <1>3, ZeroInTimes, TransportAssumption
     DEF OnConnect, TypeOK, ConnTypeOK, RetryPending, ClientInStep, NotBegun, BootIdle,
         ClientStates, ConnStates
<1>4. CASE OnDisconnect
  <2>1. client = "disconnecting" /\ client' = "disconnected" /\ DisconnectAndSchedule
    BY <1>4 DEF OnDisconnect
  <2> QED
    BY <1>1, <1>2, <2>1, DisconnectKeeps
       DEF RetryPending, ClientInStep, NotBegun, BootIdle, ClientStates
<1>5. CASE OnMessage
  BY <1>1, <1>2, <1>5, ZeroInTimes
     DEF OnMessage, TypeOK, ConnTypeOK, RetryPending, ClientInStep, NotBegun, BootIdle
<1>6. CASE TcpLost
  BY <1>1, <1>2, <1>6
     DEF TcpLost, connVars, TypeOK, ConnTypeOK, RetryPending, ClientInStep, NotBegun,
         BootIdle, ClientStates
<1> QED
  BY <1>3, <1>4, <1>5, <1>6

\* So does every other step, and a stutter.
LEMMA NextIInv == IInv /\ [Next]_vars => IInv'
<1> SUFFICES ASSUME IInv, [Next]_vars PROVE IInv'
  OBVIOUS
<1> USE DEF IInv
<1>1. CASE StartMonitorMode
  <2>1. ~begun /\ client = "disconnected" /\ state = "DISCONNECTED" /\ ~needsReconnect
    BY <1>1 DEF StartMonitorMode, BootIdle, NotBegun
  <2>2. /\ begun' = server /\ pc' = "yield" /\ stall' = 0
        /\ UNCHANGED <<clock, wifi, server, offlineCheckAt, topicPurgeAt, loopNow>>
    BY <1>1 DEF StartMonitorMode, envVars, taskVars
  <2>3. CASE server
    <3>1. Connect
      BY <1>1, <2>3 DEF StartMonitorMode
    <3> QED
      BY <2>1, <2>2, <2>3, <3>1, ConnectKeeps, TransportAssumption
         DEF TypeOK, ConnTypeOK, RetryPending, ClientInStep, NotBegun, BootIdle, ClientStates
  <2>4. CASE ~server
    BY <1>1, <2>1, <2>2, <2>4, TransportAssumption
       DEF StartMonitorMode, connVars, TypeOK, RetryPending, ClientInStep, NotBegun, BootIdle
  <2> QED
    BY <2>3, <2>4
<1>2. CASE LoopBegin
  BY <1>2, TransportAssumption
     DEF LoopBegin, envVars, connVars, taskVars, TypeOK, RetryPending, ClientInStep,
         NotBegun, BootIdle
<1>3. CASE LoopEnd
  BY <1>3, LoopEndKeeps
<1>4. CASE OnConnect \/ OnDisconnect \/ OnMessage \/ TcpLost
  BY <1>4, CallbackKeeps
<1>5. CASE Tick
  <2>1. clock' \in Times
    BY <1>5, LaterInTimes DEF Tick, TypeOK
  <2>2. stall' \in 0..MaxStall
    BY <1>5, TransportAssumption DEF Tick, TypeOK
  <2> QED
    BY <1>5, <2>1, <2>2
       DEF Tick, connVars, taskVars, loopVars, TypeOK, RetryPending, ClientInStep,
           NotBegun, BootIdle
<1>6. CASE WifiChange
  BY <1>6 DEF WifiChange, connVars, taskVars, loopVars, TypeOK, RetryPending,
              ClientInStep, NotBegun, BootIdle
<1>7. CASE ServerChange
  BY <1>7, TransportAssumption
     DEF ServerChange, connVars, taskVars, loopVars, TypeOK, RetryPending,
         ClientInStep, NotBegun, BootIdle
<1>8. CASE UNCHANGED vars
  BY <1>8 DEF vars, envVars, connVars, taskVars, loopVars, TypeOK, RetryPending,
              ClientInStep, NotBegun, BootIdle
<1> QED
  BY <1>1, <1>2, <1>3, <1>4, <1>5, <1>6, <1>7, <1>8 DEF Next

\* The strengthened invariant holds in every behaviour of the transport.
THEOREM Invariance == Spec => []IInv
  BY InitIInv, NextIInv, PTL DEF Spec

\* Every variable keeps its type: timestamps stay on the clock, and the failure
\* counter never passes its ceiling.
THEOREM TypeCorrect == Spec => []TypeOK
<1>1. IInv => TypeOK
  BY DEF IInv
<1> QED
  BY <1>1, Invariance, PTL

\* No path of loop(), connect() or a callback loses the retry or leaves one
\* behind over a live attempt (RetryPending).
THEOREM RetryNeverLost == Spec => []RetryPending
<1>1. IInv => RetryPending
  BY DEF IInv
<1> QED
  BY <1>1, Invariance, PTL

\* _state and the state of the client agree in every reachable state (ClientInStep).
THEOREM StateFollowsClient == Spec => []ClientInStep
<1>1. IInv => ClientInStep
  BY DEF IInv
<1> QED
  BY <1>1, Invariance, PTL

-----------------------------------------------------------------------------
(* Action properties and the contract. *)

\* What a step may do to a pending retry that is not due (PendingRetryStands).
LEMMA PendingStep ==
    ASSUME IInv, Next, begun, state = "DISCONNECTED", ~(pc = "loop" /\ RetryDue)
    PROVE  UNCHANGED <<needsReconnect, nextReconnectAt, failures>>
<1>1. needsReconnect
  BY DEF IInv, RetryPending
<1>2. CASE LoopEnd
  BY <1>2 DEF LoopEnd, LoopWifiLost, LoopWaitForClient, LoopAttempt, LoopTimeout,
     LoopSilence, LoopQuiet, AfterClient, WifiLost, TimedOut, Silent, connVars
<1>3. CASE OnDisconnect
  BY <1>1, <1>3 DEF OnDisconnect, DisconnectAndSchedule
<1>4. CASE OnConnect
  BY <1>4 DEF IInv, ClientInStep, OnConnect
<1>5. CASE StartMonitorMode
  BY <1>5 DEF StartMonitorMode, IInv, BootIdle
<1>6. CASE LoopBegin \/ OnMessage \/ TcpLost \/ Tick \/ WifiChange \/ ServerChange
  BY <1>6 DEF LoopBegin, OnMessage, TcpLost, Tick, WifiChange, ServerChange, connVars
<1> QED
  BY <1>2, <1>3, <1>4, <1>5, <1>6 DEF Next

\* A pending retry is neither moved nor counted twice, in any order of the
\* timeout, the late callback and a second WiFi loss.
THEOREM PendingRetry == Spec => PendingRetryStands
<1>1. IInv /\ [Next]_vars =>
        [begun /\ state = "DISCONNECTED" /\ ~(pc = "loop" /\ RetryDue)
           => UNCHANGED <<needsReconnect, nextReconnectAt, failures>>]_vars
  BY PendingStep
<1> QED
  BY <1>1, Invariance, PTL DEF Spec, PendingRetryStands

\* The only step that can count a failure while DISCONNECTED is an attempt, and
\* an attempt without WiFi does not (OutageNotCounted).
THEOREM OutageFree == Spec => OutageNotCounted
<1>1. ASSUME IInv, Next, begun, state = "DISCONNECTED", ~wifi
      PROVE  UNCHANGED failures
  <2>1. CASE pc = "loop" /\ RetryDue
    <3>1. CASE LoopEnd
      BY <1>1, <2>1, <3>1
         DEF LoopEnd, LoopWifiLost, LoopWaitForClient, LoopAttempt, LoopTimeout, LoopSilence,
             LoopQuiet, WifiLost, TimedOut, Silent, connVars,
             Connect, ConnectWithoutWifi, ConnectRefused, ConnectStarted
    <3>2. CASE OnConnect \/ OnDisconnect
      BY <1>1, <2>1, <3>2 DEF OnConnect, OnDisconnect, DisconnectAndSchedule, RetryDue
    <3>3. CASE OnMessage \/ TcpLost \/ Tick \/ WifiChange
      BY <3>3 DEF OnMessage, TcpLost, Tick, WifiChange, connVars
    <3>4. CASE StartMonitorMode \/ LoopBegin \/ ServerChange
      BY <2>1, <3>4 DEF StartMonitorMode, LoopBegin, ServerChange
    <3> QED
      BY <1>1, <3>1, <3>2, <3>3, <3>4 DEF Next
  <2>2. CASE ~(pc = "loop" /\ RetryDue)
    BY <1>1, <2>2, PendingStep
  <2> QED
    BY <2>1, <2>2
<1>2. IInv /\ [Next]_vars =>
        [begun /\ state = "DISCONNECTED" /\ ~wifi => UNCHANGED failures]_vars
  BY <1>1
<1> QED
  BY <1>2, Invariance, PTL DEF Spec, OutageNotCounted

\* Phase as the invariant lets a reader compute it.
LEMMA PhaseValue ==
    ASSUME IInv
    PROVE  /\ ~begun => Phase = "off"
           /\ begun /\ state = "DISCONNECTED" => Phase = "waiting"
           /\ begun /\ state = "RECONNECTING" => Phase = "attempting"
           /\ begun /\ state = "CONNECTED" => Phase = "up"
  BY DEF IInv, RetryPending, Phase

\* A step of the transport is a step of the contract or leaves it where it is.
LEMMA StepKeepsContract ==
    ASSUME IInv, IInv', Next
    PROVE  Contract!Next \/ UNCHANGED Phase
<1>0. state \in ConnStates /\ state' \in ConnStates
  BY DEF IInv, TypeOK
<1>1. /\ ~begun' => Phase' = "off"
      /\ begun' /\ state' = "DISCONNECTED" => Phase' = "waiting"
      /\ begun' /\ state' = "RECONNECTING" => Phase' = "attempting"
      /\ begun' /\ state' = "CONNECTED" => Phase' = "up"
  BY DEF IInv, RetryPending, Phase
<1>2. CASE UNCHANGED <<begun, state>>
  BY <1>0, <1>1, <1>2, PhaseValue DEF ConnStates
<1>3. CASE StartMonitorMode
  <2>1. ~begun /\ begun' = server
    BY <1>3 DEF StartMonitorMode, IInv, BootIdle
  <2>2. server => state' \in {"DISCONNECTED", "RECONNECTING"}
    BY <1>3 DEF StartMonitorMode, Connect, ConnectWithoutWifi, ConnectRefused,
       ConnectStarted, CountFailure, RetryIn
  <2> QED
    BY <1>1, <2>1, <2>2, PhaseValue DEF Contract!Next, Contract!Start
<1>4. CASE LoopEnd /\ begun
  <2>1. begun' = begun
    BY <1>4 DEF LoopEnd, LoopWifiLost, LoopWaitForClient, LoopAttempt, LoopTimeout,
       LoopSilence, LoopQuiet, AfterClient
  <2>2. CASE LoopWifiLost \/ LoopTimeout \/ LoopSilence
    <3>1. state \in {"RECONNECTING", "CONNECTED"}
      BY <2>2 DEF LoopWifiLost, WifiLost, LoopTimeout, TimedOut, LoopSilence, Silent
    <3>2. state' = "DISCONNECTED"
      BY <2>2 DEF LoopWifiLost, LoopTimeout, LoopSilence, DisconnectAndSchedule,
         CountFailure, RetryIn
    <3> QED
      BY <1>1, <1>4, <2>1, <3>1, <3>2, PhaseValue DEF Contract!Next, Contract!Fail
  <2>3. CASE LoopAttempt
    <3>1. state = "DISCONNECTED" /\ state' \in {"DISCONNECTED", "RECONNECTING"}
      BY <2>3 DEF LoopAttempt, RetryDue, Connect, ConnectWithoutWifi, ConnectRefused,
         ConnectStarted, CountFailure, RetryIn
    <3> QED
      BY <1>1, <1>4, <2>1, <3>1, PhaseValue DEF Contract!Next, Contract!Attempt
  <2>4. CASE LoopWaitForClient \/ LoopQuiet
    BY <1>2, <2>1, <2>4 DEF LoopWaitForClient, LoopQuiet, connVars
  <2> QED
    BY <1>4, <2>2, <2>3, <2>4 DEF LoopEnd
<1>5. CASE LoopEnd /\ ~begun
  BY <1>1, <1>5, PhaseValue DEF LoopEnd, LoopWifiLost, LoopWaitForClient, LoopAttempt,
     LoopTimeout, LoopSilence, LoopQuiet, AfterClient
<1>6. CASE OnConnect
  <2>1. begun /\ begun' /\ state = "RECONNECTING" /\ state' = "CONNECTED"
    BY <1>6 DEF OnConnect, CanCallBack, IInv, ClientInStep, NotBegun
  <2> QED
    BY <1>1, <2>1, PhaseValue DEF Contract!Next, Contract!Succeed
<1>7. CASE OnDisconnect
  <2>1. begun /\ begun' /\ state' = "DISCONNECTED"
    BY <1>7 DEF OnDisconnect, CanCallBack, IInv, NotBegun, DisconnectAndSchedule,
       CountFailure, RetryIn
  <2> QED
    BY <1>0, <1>1, <2>1, PhaseValue DEF ConnStates, Contract!Next, Contract!Fail
<1>8. CASE LoopBegin \/ OnMessage \/ TcpLost \/ Tick \/ WifiChange \/ ServerChange
  BY <1>2, <1>8 DEF LoopBegin, OnMessage, TcpLost, Tick, WifiChange, ServerChange,
     CanCallBack, connVars
<1> QED
  BY <1>3, <1>4, <1>5, <1>6, <1>7, <1>8 DEF Next

\* The transport implements ReconnectContract, for every choice of its timers.
THEOREM ContractKept == Spec => KeepsContract
<1>1. Init => Contract!Init
  BY DEF Init, Contract!Init, Phase
<1>2. IInv /\ IInv' /\ [Next]_vars => [Contract!Next]_Phase
  <2>1. CASE Next
    BY <2>1, StepKeepsContract
  <2>2. CASE UNCHANGED vars
    BY <2>2 DEF vars, connVars, Phase
  <2> QED
    BY <2>1, <2>2
<1> QED
  BY <1>1, <1>2, Invariance, PTL DEF Spec, KeepsContract, Contract!Spec
=============================================================================
