----------------------- MODULE TransportTimingProofs -----------------------
(***************************************************************************)
(* Proofs about the durations of MqttTransport: no timer fires early, and  *)
(* none fires later than the slack allows, for every modulus, timeout and  *)
(* stall that satisfy TimingAssumption, across any number of wraps of      *)
(* millis().                                                               *)
(***************************************************************************)
EXTENDS MqttTransportProofs

-----------------------------------------------------------------------------
(* The arithmetic of MillisClock, without the modulo. *)

\* How far a lies after b on the circle of the clock.
LEMMA ElapsedValue ==
    ASSUME NEW a \in Times, NEW b \in Times
    PROVE  Elapsed(a, b) = IF a >= b THEN a - b ELSE a - b + Modulus
<1>1. a - b \in Int /\ a - b > -Modulus /\ a - b < Modulus /\ Modulus \in Int
  BY ModulusAssumption DEF Times
<1>2. \A x \in Int, m \in Int : m > 0 /\ x >= 0 /\ x < m => x % m = x
  OBVIOUS
<1>3. \A x \in Int, m \in Int : m > 0 /\ x > -m /\ x < 0 => x % m = x + m
  OBVIOUS
<1> QED
  BY <1>1, <1>2, <1>3, ModulusAssumption DEF Elapsed, Times

\* One tick of millis().
LEMMA TickValue ==
    ASSUME NEW t \in Times
    PROVE  Later(t, 1) = IF t = Modulus - 1 THEN 0 ELSE t + 1
<1>1. \A x \in Int, m \in Int : m > 0 /\ x >= 0 /\ x < m => x % m = x
  OBVIOUS
<1>2. \A m \in Int : m > 0 => m % m = 0
  OBVIOUS
<1> QED
  BY <1>1, <1>2, ModulusAssumption DEF Later, Times

\* An age lies on the clock, and only an instant has no distance to itself.
LEMMA ElapsedInTimes ==
    ASSUME NEW a \in Times, NEW b \in Times
    PROVE  Elapsed(a, b) \in Times /\ Elapsed(a, a) = 0
  BY ElapsedValue, ModulusAssumption DEF Times

\* A tick makes an age one larger, or wraps it to 0.
LEMMA TickAges ==
    ASSUME NEW a \in Times, NEW b \in Times
    PROVE  Elapsed(Later(a, 1), b) = IF Elapsed(a, b) = Modulus - 1 THEN 0
                                     ELSE Elapsed(a, b) + 1
<1>1. Later(a, 1) \in Times
  BY LaterInTimes
<1>2. Later(a, 1) = IF a = Modulus - 1 THEN 0 ELSE a + 1
  BY TickValue
<1>3. Elapsed(a, b) = IF a >= b THEN a - b ELSE a - b + Modulus
  BY ElapsedValue
<1>4. Elapsed(Later(a, 1), b) = IF Later(a, 1) >= b THEN Later(a, 1) - b
                                ELSE Later(a, 1) - b + Modulus
  BY <1>1, ElapsedValue
<1> QED
  BY <1>2, <1>3, <1>4, ModulusAssumption DEF Times

\* Ages add up around the circle: c is the instant between a and b, or behind both.
LEMMA ElapsedSplit ==
    ASSUME NEW a \in Times, NEW b \in Times, NEW c \in Times
    PROVE  Elapsed(c, b) = IF Elapsed(a, b) >= Elapsed(a, c)
                           THEN Elapsed(a, b) - Elapsed(a, c)
                           ELSE Elapsed(a, b) - Elapsed(a, c) + Modulus
  BY ElapsedValue, ModulusAssumption DEF Times

\* The other way round the circle.
LEMMA ElapsedBack ==
    ASSUME NEW a \in Times, NEW b \in Times
    PROVE  Elapsed(b, a) = IF Elapsed(a, b) = 0 THEN 0 ELSE Modulus - Elapsed(a, b)
  BY ElapsedValue, ModulusAssumption DEF Times

\* Where the sign of a difference changes.
LEMMA HalfValue ==
    Modulus \div 2 \in Nat /\ 2 * (Modulus \div 2) <= Modulus
  BY ModulusAssumption

-----------------------------------------------------------------------------
(* loop()'s timestamp. *)

\* During loop() its timestamp is as old as the stall; only a device with a
\* server gets that far.
LoopClock == pc = "loop" => server /\ Elapsed(clock, loopNow) = stall

\* Half of the clock is more than a stall, so that no stall wraps.
LEMMA StallFits == MaxStall \in Nat /\ MaxStall < Modulus
  BY HalfValue, TimingAssumption, TransportAssumption, PolicyAssumption, ModulusAssumption

\* While loop() runs, time passes only as the stall, and the server name stays.
LEMMA NextLoopClock == IInv /\ LoopClock /\ [Next]_vars => LoopClock'
<1> SUFFICES ASSUME IInv, LoopClock, [Next]_vars, pc' = "loop"
             PROVE  server' /\ Elapsed(clock', loopNow') = stall'
  BY DEF LoopClock
<1>1. clock \in Times /\ loopNow \in Times /\ stall \in 0..MaxStall
  BY DEF IInv, TypeOK
<1>2. CASE LoopBegin
  BY <1>1, <1>2, ElapsedInTimes DEF LoopBegin, envVars
<1>3. CASE Tick
  <2>1. pc = "loop" /\ loopNow' = loopNow /\ clock' = Later(clock, 1) /\ server' = server
    BY <1>3 DEF Tick, loopVars
  <2>2. server /\ Elapsed(clock, loopNow) = stall
    BY <2>1 DEF LoopClock
  <2>3. stall < MaxStall /\ stall' = stall + 1
    BY <1>3, <2>2 DEF Tick
  <2>4. Elapsed(clock', loopNow') = IF stall = Modulus - 1 THEN 0 ELSE stall + 1
    BY <1>1, <2>1, <2>2, TickAges
  <2> QED
    BY <1>1, <2>1, <2>2, <2>3, <2>4, StallFits, ModulusAssumption
<1>4. CASE UNCHANGED <<clock, server, stall, pc, loopNow>>
  BY <1>4 DEF LoopClock
<1>5. CASE OnConnect \/ OnDisconnect \/ OnMessage \/ TcpLost \/ WifiChange
  BY <1>4, <1>5 DEF OnConnect, OnDisconnect, OnMessage, TcpLost, WifiChange, CanCallBack,
     envVars, loopVars
<1>6. ~(StartMonitorMode \/ LoopEnd \/ ServerChange)
  BY DEF StartMonitorMode, ServerChange, loopVars, LoopEnd, LoopWifiLost, LoopWaitForClient,
     LoopAttempt, LoopTimeout, LoopSilence, LoopQuiet, AfterClient
<1>7. CASE UNCHANGED vars
  BY <1>4, <1>7 DEF vars, envVars, loopVars
<1> QED
  BY <1>2, <1>3, <1>5, <1>6, <1>7 DEF Next

LEMMA LoopClockHolds == Spec => []LoopClock
<1>1. Init => LoopClock
  BY DEF Init, LoopClock
<1> QED
  BY <1>1, NextLoopClock, Invariance, PTL DEF Spec

-----------------------------------------------------------------------------
(* No timer fires early. *)

\* A timeout that is found passed with the timestamp of loop() has passed on the
\* clock as well, although the timestamp is old.
LEMMA ElapsedOnClock ==
    ASSUME IInv, LoopClock, pc = "loop", NEW since \in Times, NEW timeout \in Nat,
           HasElapsed(loopNow, since, timeout)
    PROVE  Elapsed(clock, since) > timeout
<1>1. clock \in Times /\ loopNow \in Times /\ stall \in 0..MaxStall
  BY DEF IInv, TypeOK
<1>2. Elapsed(clock, loopNow) = stall
  BY DEF LoopClock
<1>3. /\ Elapsed(clock, since) \in Times
      /\ Elapsed(loopNow, since) = IF Elapsed(clock, since) >= stall
                                   THEN Elapsed(clock, since) - stall
                                   ELSE Elapsed(clock, since) - stall + Modulus
  BY <1>1, <1>2, ElapsedInTimes, ElapsedSplit
<1>4. Elapsed(loopNow, since) \in Times
  BY <1>1, ElapsedInTimes
<1>5. Elapsed(loopNow, since) > timeout /\ Elapsed(loopNow, since) < Modulus \div 2
  BY <1>4, HalfValue, ModulusAssumption DEF HasElapsed, SignedElapsed, Times
<1> QED
  BY <1>1, <1>3, <1>5, HalfValue, StallFits, TimingAssumption, PolicyAssumption,
     ModulusAssumption DEF Times

\* An instant that is due for loop() does not lie in the next MaxDelay of the clock.
LEMMA DueOnClock ==
    ASSUME IInv, LoopClock, pc = "loop", NEW at \in Times, IsDue(loopNow, at)
    PROVE  Elapsed(at, clock) \notin 1..MaxDelay
<1>1. clock \in Times /\ loopNow \in Times /\ stall \in 0..MaxStall
  BY DEF IInv, TypeOK
<1>2. Elapsed(clock, loopNow) = stall
  BY DEF LoopClock
<1>3. /\ Elapsed(clock, at) \in Times
      /\ Elapsed(loopNow, at) = IF Elapsed(clock, at) >= stall
                                THEN Elapsed(clock, at) - stall
                                ELSE Elapsed(clock, at) - stall + Modulus
  BY <1>1, <1>2, ElapsedInTimes, ElapsedSplit
<1>4. Elapsed(at, clock) = IF Elapsed(clock, at) = 0 THEN 0 ELSE Modulus - Elapsed(clock, at)
  BY <1>1, ElapsedBack
<1>5. Elapsed(loopNow, at) \in Times
  BY <1>1, ElapsedInTimes
<1>6. Elapsed(loopNow, at) < Modulus \div 2
  BY <1>5, ModulusAssumption DEF IsDue, SignedElapsed, Times
<1> QED
  BY <1>1, <1>3, <1>4, <1>6, HalfValue, StallFits, TimingAssumption, PolicyAssumption,
     ModulusAssumption DEF Times

\* Each timer of loop() that fires is due on the clock, whatever callbacks ran
\* and however much time passed since loop() read it (TimersNotEarly).
THEOREM NoTimerEarly == Spec => TimersNotEarly
<1> DEFINE Punctual ==
      /\ LoopSilence => Elapsed(clock, lastMessageAt) > SilenceTimeout
      /\ LoopTimeout => Elapsed(clock, reconnectingStart) > ReconnectingTimeout
      /\ LoopAttempt => Elapsed(nextReconnectAt, clock) \notin 1..MaxDelay
<1>1. ASSUME IInv, LoopClock PROVE Punctual
  <2>1. /\ lastMessageAt \in Times /\ reconnectingStart \in Times /\ nextReconnectAt \in Times
        /\ SilenceTimeout \in Nat /\ ReconnectingTimeout \in Nat
    BY <1>1, TransportAssumption DEF IInv, TypeOK
  <2>2. LoopSilence => Elapsed(clock, lastMessageAt) > SilenceTimeout
    BY <1>1, <2>1, ElapsedOnClock DEF LoopSilence, AfterClient, Silent
  <2>3. LoopTimeout => Elapsed(clock, reconnectingStart) > ReconnectingTimeout
    BY <1>1, <2>1, ElapsedOnClock DEF LoopTimeout, AfterClient, TimedOut
  <2>4. LoopAttempt => Elapsed(nextReconnectAt, clock) \notin 1..MaxDelay
    BY <1>1, <2>1, DueOnClock DEF LoopAttempt, AfterClient, RetryDue
  <2> QED
    BY <2>2, <2>3, <2>4
<1>2. IInv /\ LoopClock /\ [Next]_vars => [Punctual]_vars
  BY <1>1
<1> QED
  BY <1>2, Invariance, LoopClockHolds, PTL DEF Spec, TimersNotEarly

-----------------------------------------------------------------------------
(* The inductive invariant of the durations. *)

\* Only startMonitorMode with a server begins a connection.
BegunWithServer == begun => server

\* What the age of a timestamp that loop() watches can have come to: loop() saw
\* it no older than the timeout, MaxStall later at most it had finished, MaxStall
\* later at most it was called again.
AgeBounded(since, timeout) ==
    Elapsed(clock, since) <= timeout + stall + (IF pc = "loop" THEN 2 * MaxStall ELSE MaxStall)

HandshakeAge == state = "RECONNECTING" => AgeBounded(reconnectingStart, ReconnectingTimeout)
SilenceAge   == state = "CONNECTED" /\ lastMessageAt # 0
                    => AgeBounded(lastMessageAt, SilenceTimeout)

TimingInv == BegunWithServer /\ HandshakeAge /\ SilenceAge

\* Any timestamp that is young enough stays so until loop() looks at it again:
\* only time passing and the steps of loop() change the bound.
LEMMA AgeKept ==
    ASSUME IInv, NEW since \in Times, NEW timeout \in Nat, server,
           AgeBounded(since, timeout), LoopBegin \/ Tick
    PROVE  Elapsed(clock', since) <= timeout + stall'
              + (IF pc' = "loop" THEN 2 * MaxStall ELSE MaxStall)
<1>1. clock \in Times /\ stall \in 0..MaxStall
  BY DEF IInv, TypeOK
<1>2. Elapsed(clock, since) \in Times
  BY <1>1, ElapsedInTimes
<1>3. CASE LoopBegin
  BY <1>1, <1>2, <1>3, StallFits, ModulusAssumption DEF LoopBegin, envVars, AgeBounded, Times
<1>4. CASE Tick
  <2>1. clock' = Later(clock, 1) /\ stall' = stall + 1 /\ pc' = pc
    BY <1>4 DEF Tick, loopVars
  <2>2. Elapsed(clock', since) \in Int /\ Elapsed(clock', since) <= Elapsed(clock, since) + 1
    BY <1>1, <1>2, <2>1, TickAges, ModulusAssumption DEF Times
  <2> QED
    BY <1>1, <1>2, <2>1, <2>2, StallFits, ModulusAssumption DEF AgeBounded, Times
<1> QED
  BY <1>3, <1>4

\* A timestamp that loop() has looked at and found in time is younger than the
\* timeout and the stall of this loop(), be it taken before or after loop() began.
LEMMA AgeRenewed ==
    ASSUME IInv, LoopClock, pc = "loop", NEW since \in Times, NEW timeout \in Nat,
           timeout + 2 * MaxStall < Modulus \div 2,
           AgeBounded(since, timeout), ~HasElapsed(loopNow, since, timeout)
    PROVE  Elapsed(clock, since) <= timeout + MaxStall
<1>1. clock \in Times /\ loopNow \in Times /\ stall \in 0..MaxStall
  BY DEF IInv, TypeOK
<1>2. Elapsed(clock, loopNow) = stall
  BY DEF LoopClock
<1>3. Elapsed(clock, since) \in Times /\ Elapsed(loopNow, since) \in Times
  BY <1>1, ElapsedInTimes
<1>4. CASE Elapsed(clock, since) < stall
  BY <1>1, <1>3, <1>4, StallFits, ModulusAssumption DEF Times
<1>5. CASE Elapsed(clock, since) >= stall
  <2>1. Elapsed(loopNow, since) = Elapsed(clock, since) - stall
    BY <1>1, <1>2, <1>5, ElapsedSplit
  <2>2. Elapsed(clock, since) <= timeout + stall + 2 * MaxStall
    BY DEF AgeBounded
  <2>3. Elapsed(loopNow, since) < Modulus \div 2
    BY <1>1, <1>3, <2>1, <2>2, HalfValue, StallFits, ModulusAssumption DEF Times
  <2>4. Elapsed(loopNow, since) <= timeout
    BY <1>3, <2>3, HalfValue, ModulusAssumption DEF HasElapsed, SignedElapsed, Times
  <2> QED
    BY <1>1, <1>3, <2>1, <2>4, StallFits, ModulusAssumption DEF Times
<1> QED
  BY <1>1, <1>3, <1>4, <1>5, ModulusAssumption DEF Times

\* What the steps of loop() leave behind: no connection, a fresh attempt, or a
\* timestamp that was in time.
LEMMA LoopEndTiming ==
    ASSUME IInv, LoopClock, TimingInv, LoopEnd
    PROVE  TimingInv'
<1>1. /\ pc = "loop" /\ pc' = "yield" /\ stall' = 0
      /\ UNCHANGED <<clock, server, begun>>
  BY DEF LoopEnd, LoopWifiLost, LoopWaitForClient, LoopAttempt, LoopTimeout,
         LoopSilence, LoopQuiet, AfterClient, envVars
<1>2. BegunWithServer'
  BY <1>1 DEF TimingInv, BegunWithServer
<1>3. /\ clock \in Times /\ reconnectingStart \in Times /\ lastMessageAt \in Times
      /\ SilenceTimeout \in Nat /\ ReconnectingTimeout \in Nat /\ MaxStall \in Nat
  BY StallFits, TransportAssumption DEF IInv, TypeOK
<1>4. CASE state' = "DISCONNECTED"
  BY <1>2, <1>4 DEF TimingInv, HandshakeAge, SilenceAge
<1>5. CASE LoopAttempt /\ state' # "DISCONNECTED"
  <2>1. state' = "RECONNECTING" /\ reconnectingStart' = clock'
    BY <1>1, <1>5 DEF LoopAttempt, Connect, ConnectWithoutWifi, ConnectRefused, ConnectStarted,
       CountFailure, RetryIn
  <2>2. Elapsed(clock', reconnectingStart') = 0
    BY <1>1, <1>3, <2>1, ElapsedInTimes
  <2> QED
    BY <1>1, <1>2, <1>3, <2>1, <2>2 DEF TimingInv, HandshakeAge, SilenceAge, AgeBounded
<1>6. CASE LoopQuiet
  <2>1. UNCHANGED <<state, reconnectingStart, lastMessageAt>>
    BY <1>6 DEF LoopQuiet, connVars
  <2>2. ~TimedOut /\ ~Silent
    BY <1>6 DEF LoopQuiet
  <2>3. ASSUME state = "RECONNECTING"
        PROVE  Elapsed(clock, reconnectingStart) <= ReconnectingTimeout + MaxStall
    BY <1>1, <1>3, <2>2, <2>3, AgeRenewed, TimingAssumption DEF TimingInv, HandshakeAge, TimedOut
  <2>4. ASSUME state = "CONNECTED", lastMessageAt # 0
        PROVE  Elapsed(clock, lastMessageAt) <= SilenceTimeout + MaxStall
    <3>1. lastMessageAt > 0
      BY <1>3, <2>4, ModulusAssumption DEF Times
    <3> QED
      BY <1>1, <1>3, <2>2, <2>4, <3>1, AgeRenewed, TimingAssumption
         DEF TimingInv, SilenceAge, Silent
  <2> QED
    BY <1>1, <1>2, <1>3, <2>1, <2>3, <2>4 DEF TimingInv, HandshakeAge, SilenceAge, AgeBounded
<1>7. LoopWaitForClient => state' = "DISCONNECTED"
  BY DEF LoopWaitForClient, RetryDue, connVars
<1>8. LoopWifiLost \/ LoopTimeout \/ LoopSilence => state' = "DISCONNECTED"
  BY DEF LoopWifiLost, LoopTimeout, LoopSilence, DisconnectAndSchedule, CountFailure, RetryIn
<1> QED
  BY <1>4, <1>5, <1>6, <1>7, <1>8 DEF LoopEnd

\* A callback either takes its timestamp from the clock or leaves it.
LEMMA CallbackTiming ==
    ASSUME IInv, TimingInv, OnConnect \/ OnDisconnect \/ OnMessage \/ TcpLost
    PROVE  TimingInv'
<1>1. UNCHANGED <<clock, server, stall, begun, pc>>
  BY DEF OnConnect, OnDisconnect, OnMessage, TcpLost, CanCallBack, envVars, loopVars
<1>2. BegunWithServer'
  BY <1>1 DEF TimingInv, BegunWithServer
<1>3. /\ clock \in Times /\ stall \in Nat
      /\ SilenceTimeout \in Nat /\ ReconnectingTimeout \in Nat /\ MaxStall \in Nat
  BY StallFits, TransportAssumption DEF IInv, TypeOK
<1>4. Elapsed(clock, clock) = 0
  BY <1>3, ElapsedInTimes
<1>5. CASE OnConnect
  BY <1>1, <1>2, <1>3, <1>4, <1>5 DEF OnConnect, TimingInv, HandshakeAge, SilenceAge, AgeBounded
<1>6. CASE OnDisconnect
  <2>1. state' = "DISCONNECTED"
    BY <1>6 DEF OnDisconnect, DisconnectAndSchedule, CountFailure, RetryIn
  <2> QED
    BY <1>2, <2>1 DEF TimingInv, HandshakeAge, SilenceAge
<1>7. CASE OnMessage
  <2>1. state' = state /\ reconnectingStart' = reconnectingStart
    BY <1>7 DEF OnMessage
  <2>2. lastMessageAt' = IF state = "CONNECTED" THEN clock ELSE 0
    BY <1>7 DEF OnMessage
  <2> QED
    BY <1>1, <1>2, <1>3, <1>4, <2>1, <2>2 DEF TimingInv, HandshakeAge, SilenceAge, AgeBounded
<1>8. CASE TcpLost
  BY <1>1, <1>2, <1>8
     DEF TcpLost, connVars, TimingInv, HandshakeAge, SilenceAge, AgeBounded
<1> QED
  BY <1>5, <1>6, <1>7, <1>8

\* The durations stay bounded as long as the server name is not edited.
LEMMA NextTiming ==
    ASSUME ServerEdits = FALSE, IInv, LoopClock, TimingInv, [Next]_vars
    PROVE  TimingInv'
<1>1. CASE StartMonitorMode
  <2>1. ~begun /\ state = "DISCONNECTED"
    BY <1>1 DEF StartMonitorMode, IInv, BootIdle, NotBegun
  <2>2. begun' = server' /\ clock' = clock /\ pc' = "yield" /\ stall' = 0
    BY <1>1 DEF StartMonitorMode, envVars
  <2>3. \/ state' = "DISCONNECTED"
        \/ state' = "RECONNECTING" /\ reconnectingStart' = clock'
    BY <1>1, <2>1, <2>2 DEF StartMonitorMode, Connect, ConnectWithoutWifi, ConnectRefused,
       ConnectStarted, CountFailure, RetryIn, connVars
  <2>4. Elapsed(clock', clock') = 0
    BY <2>2, ElapsedInTimes DEF IInv, TypeOK
  <2> QED
    BY <2>2, <2>3, <2>4, StallFits, TransportAssumption
       DEF TimingInv, BegunWithServer, HandshakeAge, SilenceAge, AgeBounded
<1>2. CASE LoopBegin \/ Tick
  <2>1. UNCHANGED <<server, begun, state, reconnectingStart, lastMessageAt>>
    BY <1>2 DEF LoopBegin, Tick, envVars, connVars
  <2>2. /\ reconnectingStart \in Times /\ lastMessageAt \in Times
        /\ SilenceTimeout \in Nat /\ ReconnectingTimeout \in Nat
    BY TransportAssumption DEF IInv, TypeOK
  <2>3. state # "DISCONNECTED" => server
    BY DEF IInv, NotBegun, TimingInv, BegunWithServer
  <2>4. state = "RECONNECTING" => AgeBounded(reconnectingStart, ReconnectingTimeout)'
    BY <1>2, <2>1, <2>2, <2>3, AgeKept DEF TimingInv, HandshakeAge, AgeBounded
  <2>5. state = "CONNECTED" /\ lastMessageAt # 0 => AgeBounded(lastMessageAt, SilenceTimeout)'
    BY <1>2, <2>1, <2>2, <2>3, AgeKept DEF TimingInv, SilenceAge, AgeBounded
  <2> QED
    BY <2>1, <2>4, <2>5 DEF TimingInv, BegunWithServer, HandshakeAge, SilenceAge
<1>3. CASE LoopEnd
  BY <1>3, LoopEndTiming
<1>4. CASE OnConnect \/ OnDisconnect \/ OnMessage \/ TcpLost
  BY <1>4, CallbackTiming
<1>5. CASE WifiChange \/ UNCHANGED vars
  BY <1>5 DEF WifiChange, vars, envVars, connVars, loopVars, TimingInv, BegunWithServer,
     HandshakeAge, SilenceAge, AgeBounded
<1>6. ~ServerChange
  BY DEF ServerChange
<1> QED
  BY <1>1, <1>2, <1>3, <1>4, <1>5, <1>6 DEF Next

\* The bounds of the two durations, step by step.
LEMMA TimingInvariance == ServerEdits = FALSE => (Spec => []TimingInv)
<1> SUFFICES ASSUME ServerEdits = FALSE PROVE Spec => []TimingInv
  OBVIOUS
<1>1. Init => TimingInv
  BY DEF Init, TimingInv, BegunWithServer, HandshakeAge, SilenceAge
<1>2. IInv /\ LoopClock /\ TimingInv /\ [Next]_vars => TimingInv'
  BY NextTiming
<1> QED
  BY <1>1, <1>2, Invariance, LoopClockHolds, PTL DEF Spec

\* Whatever loop() was doing, an age within its bound is within the slack.
LEMMA AgeWithinSlack ==
    ASSUME IInv, NEW since \in Times, NEW timeout \in Nat, AgeBounded(since, timeout)
    PROVE  Elapsed(clock, since) <= timeout + Slack
<1>1. clock \in Times /\ stall \in 0..MaxStall
  BY DEF IInv, TypeOK
<1>2. Elapsed(clock, since) \in Times
  BY <1>1, ElapsedInTimes
<1> QED
  BY <1>1, <1>2, StallFits, ModulusAssumption DEF AgeBounded, Slack, Times

\* A handshake that nobody answers is given up: RECONNECTING never outlasts its
\* timeout by more than three stalls, however callbacks interleave with loop()
\* and wherever the clock wraps (HandshakeBounded).
THEOREM HandshakeEnds == ServerEdits = FALSE => (Spec => []HandshakeBounded)
<1> SUFFICES ASSUME ServerEdits = FALSE PROVE Spec => []HandshakeBounded
  OBVIOUS
<1>1. IInv /\ TimingInv => HandshakeBounded
  <2> SUFFICES ASSUME IInv, TimingInv, state = "RECONNECTING"
               PROVE  Elapsed(clock, reconnectingStart) <= ReconnectingTimeout + Slack
    BY DEF HandshakeBounded
  <2>1. reconnectingStart \in Times /\ ReconnectingTimeout \in Nat
    BY TransportAssumption DEF IInv, TypeOK
  <2> QED
    BY <2>1, AgeWithinSlack DEF TimingInv, HandshakeAge
<1> QED
  BY <1>1, Invariance, TimingInvariance, PTL

\* A session without messages is ended: CONNECTED outlasts the silence timeout
\* by three stalls at most, unless the last message came when millis() read 0
\* (ZombieBoundedUnlessZero).
THEOREM SilenceEnds == ServerEdits = FALSE => (Spec => []ZombieBoundedUnlessZero)
<1> SUFFICES ASSUME ServerEdits = FALSE PROVE Spec => []ZombieBoundedUnlessZero
  OBVIOUS
<1>1. IInv /\ TimingInv => ZombieBoundedUnlessZero
  <2> SUFFICES ASSUME IInv, TimingInv, state = "CONNECTED", lastMessageAt # 0
               PROVE  Elapsed(clock, lastMessageAt) <= SilenceTimeout + Slack
    BY DEF ZombieBoundedUnlessZero
  <2>1. lastMessageAt \in Times /\ SilenceTimeout \in Nat
    BY TransportAssumption DEF IInv, TypeOK
  <2> QED
    BY <2>1, AgeWithinSlack DEF TimingInv, SilenceAge
<1> QED
  BY <1>1, Invariance, TimingInvariance, PTL

-----------------------------------------------------------------------------
(* The device offline check. *)

\* Before startMonitorMode() no time has passed.
BootClock == pc = "boot" => clock = 1 /\ offlineCheckAt = 0

\* While there is an attempt or a session, the last check is not long ago.
OfflineAge == state # "DISCONNECTED" => AgeBounded(offlineCheckAt, OfflineCheckInterval - 1)

\* Housekeeping leaves a check behind that was due no earlier than in this loop(),
\* whenever the one before it was.
LEMMA HousekeepingRenews ==
    ASSUME IInv, LoopClock, pc = "loop", Housekeeping
    PROVE  Elapsed(clock, offlineCheckAt') <= OfflineCheckInterval - 1 + MaxStall
<1>1. /\ clock \in Times /\ loopNow \in Times /\ offlineCheckAt \in Times
      /\ stall \in 0..MaxStall /\ OfflineCheckInterval \in Nat \ {0} /\ MaxStall \in Nat
  BY StallFits, TransportAssumption DEF IInv, TypeOK
<1>2. Elapsed(clock, loopNow) = stall
  BY DEF LoopClock
<1>3. Elapsed(clock, offlineCheckAt) \in Times /\ Elapsed(loopNow, offlineCheckAt) \in Times
  BY <1>1, ElapsedInTimes
<1>4. CASE Elapsed(loopNow, offlineCheckAt) >= OfflineCheckInterval
  <2>1. offlineCheckAt' = loopNow
    BY <1>4 DEF Housekeeping
  <2> QED
    BY <1>1, <1>2, <2>1
<1>5. CASE ~(Elapsed(loopNow, offlineCheckAt) >= OfflineCheckInterval)
  <2>1. offlineCheckAt' = offlineCheckAt
    BY <1>5 DEF Housekeeping
  <2>2. CASE Elapsed(clock, offlineCheckAt) < stall
    BY <1>1, <1>3, <2>1, <2>2, ModulusAssumption DEF Times
  <2>3. CASE Elapsed(clock, offlineCheckAt) >= stall
    <3>1. Elapsed(loopNow, offlineCheckAt) = Elapsed(clock, offlineCheckAt) - stall
      BY <1>1, <1>2, <2>3, ElapsedSplit
    <3> QED
      BY <1>1, <1>3, <1>5, <2>1, <3>1, ModulusAssumption DEF Times
  <2> QED
    BY <1>1, <1>3, <2>2, <2>3, ModulusAssumption DEF Times
<1> QED
  BY <1>4, <1>5

LEMMA NextBootClock == BootClock /\ [Next]_vars => BootClock'
  BY DEF BootClock, Next, vars, envVars, taskVars, loopVars, StartMonitorMode, LoopBegin, LoopEnd,
     LoopWifiLost, LoopWaitForClient, LoopAttempt, LoopTimeout, LoopSilence, LoopQuiet, AfterClient,
     CanCallBack, OnConnect, OnDisconnect, OnMessage, TcpLost, Tick, WifiChange, ServerChange

LEMMA NextOfflineAge ==
    ASSUME ServerEdits = FALSE, IInv, LoopClock, TimingInv, BootClock, OfflineAge, [Next]_vars
    PROVE  OfflineAge'
<1>0. /\ clock \in Times /\ offlineCheckAt \in Times /\ stall \in Nat
      /\ OfflineCheckInterval - 1 \in Nat /\ MaxStall \in Nat \ {0}
  BY StallFits, TransportAssumption DEF IInv, TypeOK
<1>1. CASE StartMonitorMode
  <2>1. clock' = 1 /\ offlineCheckAt' = 0 /\ stall' = 0 /\ pc' = "yield"
    BY <1>1 DEF StartMonitorMode, BootClock, envVars, taskVars
  <2>2. Elapsed(1, 0) = 1
    BY <1>0, <1>1, ElapsedValue DEF BootClock, StartMonitorMode
  <2> QED
    BY <1>0, <2>1, <2>2 DEF OfflineAge, AgeBounded
<1>2. CASE LoopBegin \/ Tick
  <2>1. UNCHANGED <<state, offlineCheckAt>>
    BY <1>2 DEF LoopBegin, Tick, connVars, taskVars
  <2>2. state # "DISCONNECTED" => server
    BY DEF IInv, NotBegun, TimingInv, BegunWithServer
  <2> QED
    BY <1>0, <1>2, <2>1, <2>2, AgeKept DEF OfflineAge, AgeBounded
<1>3. CASE LoopWaitForClient
  <2>1. state' = "DISCONNECTED"
    BY <1>3 DEF LoopWaitForClient, RetryDue, connVars
  <2> QED
    BY <2>1 DEF OfflineAge
<1>4. CASE LoopEnd /\ ~LoopWaitForClient
  <2>1. Housekeeping /\ AfterClient
    BY <1>4 DEF LoopEnd, LoopWifiLost, LoopAttempt, LoopTimeout, LoopSilence, LoopQuiet
  <2>2. pc = "loop" /\ pc' = "yield" /\ stall' = 0 /\ clock' = clock
    BY <2>1 DEF AfterClient, envVars
  <2>3. Elapsed(clock, offlineCheckAt') <= OfflineCheckInterval - 1 + MaxStall
    BY <2>1, <2>2, HousekeepingRenews
  <2> QED
    BY <1>0, <2>2, <2>3 DEF OfflineAge, AgeBounded
<1>5. CASE OnConnect \/ OnDisconnect \/ OnMessage \/ TcpLost
  <2>1. UNCHANGED <<clock, stall, pc, offlineCheckAt>>
    BY <1>5 DEF OnConnect, OnDisconnect, OnMessage, TcpLost, CanCallBack, envVars, loopVars, taskVars
  <2>2. state' # "DISCONNECTED" => state # "DISCONNECTED"
    BY <1>5 DEF OnConnect, OnDisconnect, OnMessage, TcpLost, connVars, DisconnectAndSchedule,
       CountFailure, RetryIn, IInv, ClientInStep
  <2> QED
    BY <2>1, <2>2 DEF OfflineAge, AgeBounded
<1>6. CASE WifiChange \/ UNCHANGED vars
  BY <1>6 DEF WifiChange, vars, envVars, connVars, taskVars, loopVars, OfflineAge, AgeBounded
<1>7. ~ServerChange
  BY DEF ServerChange
<1> QED
  BY <1>1, <1>2, <1>3, <1>4, <1>5, <1>6, <1>7 DEF Next

\* With an attempt or a session under way, the offline check of the devices is made
\* in time: OfflineChecksGoOn with a bound, where loop() has no early return.  (In
\* DISCONNECTED it may be skipped for as long as the client takes to close.)
THEOREM OfflineChecksInTime ==
    ServerEdits = FALSE =>
        (Spec => [](state # "DISCONNECTED"
                        => Elapsed(clock, offlineCheckAt) < OfflineCheckInterval + Slack))
<1> SUFFICES ASSUME ServerEdits = FALSE
             PROVE  Spec => [](state # "DISCONNECTED"
                                 => Elapsed(clock, offlineCheckAt) < OfflineCheckInterval + Slack)
  OBVIOUS
<1>1. Init => BootClock /\ OfflineAge
  BY DEF Init, BootClock, OfflineAge
<1>2. IInv /\ LoopClock /\ TimingInv /\ BootClock /\ OfflineAge /\ [Next]_vars => OfflineAge'
  BY NextOfflineAge
<1>3. IInv /\ OfflineAge => (state # "DISCONNECTED"
                               => Elapsed(clock, offlineCheckAt) < OfflineCheckInterval + Slack)
  <2> SUFFICES ASSUME IInv, OfflineAge, state # "DISCONNECTED"
               PROVE  Elapsed(clock, offlineCheckAt) < OfflineCheckInterval + Slack
    OBVIOUS
  <2>1. /\ clock \in Times /\ offlineCheckAt \in Times
        /\ OfflineCheckInterval - 1 \in Nat /\ MaxStall \in Nat
    BY StallFits, TransportAssumption DEF IInv, TypeOK
  <2>2. Elapsed(clock, offlineCheckAt) <= OfflineCheckInterval - 1 + Slack
    BY <2>1, AgeWithinSlack DEF OfflineAge
  <2>3. Elapsed(clock, offlineCheckAt) \in Times
    BY <2>1, ElapsedInTimes
  <2> QED
    BY <2>1, <2>2, <2>3, TransportAssumption DEF Slack, Times
<1> QED
  BY <1>1, <1>2, <1>3, NextBootClock, Invariance, LoopClockHolds, TimingInvariance, PTL DEF Spec
=============================================================================
