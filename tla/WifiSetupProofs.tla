-------------------------- MODULE WifiSetupProofs --------------------------
(***************************************************************************)
(* Proofs about WifiSetup for any networks and any numbers of attempts and *)
(* cycles, and for either behaviour of WiFi.disconnect().                  *)
(***************************************************************************)
EXTENDS WifiSetup, TLAPS

Pausing == {"TRY_SAVED_START", "TRY_SAVED_DELAY", "TRY_SDK_START", "TRY_SDK_DELAY"}
Waiting == {"TRY_SAVED_WAIT", "TRY_SDK_WAIT"}
SdkPart == {"TRY_SDK_START", "TRY_SDK_WAIT", "TRY_SDK_DELAY"}

\* The attempts a cycle of this boot makes, and those begun so far.
PerCycle == (IF hasSaved THEN MaxSavedAttempts ELSE 0) + MaxSdkAttempts
Begun    == cycles * PerCycle + savedAttempts + sdkAttempts

\* Every attempt that was begun has failed, but the one that is under way: this is
\* what makes the counters tell how often this boot has tried.
Accounting ==
    /\ startup \in Pausing => failed = Begun
    /\ startup \in Waiting => failed + 1 = Begun
    /\ startup = "RESET_COUNTDOWN" => failed = (cycles + 1) * PerCycle
    /\ startup = "INIT" => failed = 0 /\ cycles = 0 /\ savedAttempts = 0 /\ sdkAttempts = 0

\* The order within a cycle, and how long cycles go on.
InOrder ==
    /\ startup = "TRY_SAVED_WAIT" => hasSaved
    /\ hasSaved /\ startup \in SdkPart => savedAttempts = MaxSavedAttempts
    /\ ~hasSaved /\ startup \in Pausing \cup Waiting => savedAttempts = 0
    /\ startup = "RESET_COUNTDOWN" => ((hasSaved \/ ~fsReady) => cycles = MaxCycles)

\* The apply machine runs only under a web server, on the network in RAM, which is
\* the one in the file.
Applying ==
    /\ startup # "DONE" => applyState = "IDLE"
    /\ applyState \in {"PENDING_START", "RETRY_WAIT"} => applyAttempts < MaxApplyAttempts
    /\ ApplyBusy => wifiFile \in {ssid, None}
    /\ applyState = "CONNECTING" => station = ssid

\* TypeOK in parts: what the prover's encoding takes as numbers, and the rest.
CountersOK ==
    /\ savedAttempts \in 0..MaxSavedAttempts /\ sdkAttempts \in 0..MaxSdkAttempts
    /\ cycles \in 0..MaxCycles
    /\ applyAttempts \in 0..MaxApplyAttempts
    /\ failed \in 0..AllAttempts
FlagsOK ==
    /\ fsReady \in BOOLEAN /\ hasSaved \in BOOLEAN /\ isAPMode \in BOOLEAN
    /\ setupComplete \in BOOLEAN /\ wizardMode \in BOOLEAN
    /\ pendingRestart \in BOOLEAN /\ afterReset \in BOOLEAN
    /\ monitorFile \in BOOLEAN \cup {None}
NamesOK ==
    /\ wifiFile \in Ssids \cup {None} /\ sdkSsid \in Ssids \cup {None}
    /\ station \in Ssids \cup {None} /\ ssid \in Ssids \cup {None}
    /\ reachable \subseteq Ssids
    /\ startup \in StartupStates /\ mode \in {"AP_SETUP", "MONITOR"}
    /\ applyState \in ApplyStates
    /\ cause \in {None, "wifi", "config", "complete", "reboot", "reset"}

LEMMA TypeParts == TypeOK <=> CountersOK /\ FlagsOK /\ NamesOK
  BY DEF TypeOK, CountersOK, FlagsOK, NamesOK

IInv == CountersOK /\ FlagsOK /\ NamesOK /\ Accounting /\ InOrder /\ Applying /\ ApNotLost

-----------------------------------------------------------------------------
(* Arithmetic. *)

LEMMA OneMore ==
    ASSUME NEW a \in Nat, NEW b \in Nat
    PROVE  (a + 1) * b = a * b + b /\ a * b \in Nat
  OBVIOUS

LEMMA NoneAtAll ==
    ASSUME NEW b \in Nat
    PROVE  0 * b = 0
  OBVIOUS

LEMMA Product ==
    ASSUME NEW a \in Nat, NEW b \in Nat, NEW c \in Nat, NEW d \in Nat, a <= c, b <= d
    PROVE  a * b <= c * d
<1>1. a * b <= c * b
  OBVIOUS
<1>2. c * b <= c * d
  OBVIOUS
<1>3. a * b \in Nat /\ c * b \in Nat /\ c * d \in Nat
  OBVIOUS
<1> QED
  BY <1>1, <1>2, <1>3

\* No boot makes more attempts than AllAttempts.
LEMMA CycleBound ==
    ASSUME CountersOK, FlagsOK
    PROVE  /\ PerCycle \in Nat \ {0} /\ PerCycle <= MaxSavedAttempts + MaxSdkAttempts
           /\ cycles * PerCycle \in Nat /\ AllAttempts \in Nat
           /\ (cycles + 1) * PerCycle = cycles * PerCycle + PerCycle
           /\ (cycles + 1) * PerCycle <= AllAttempts
<1> DEFINE Most == MaxSavedAttempts + MaxSdkAttempts
<1>1. MaxSavedAttempts \in Nat \ {0} /\ MaxSdkAttempts \in Nat \ {0} /\ MaxCycles \in Nat
      /\ cycles \in Nat /\ cycles <= MaxCycles
  BY WifiSetupAssumption DEF CountersOK
<1>2. PerCycle \in Nat \ {0} /\ PerCycle <= Most /\ Most \in Nat
  BY <1>1 DEF PerCycle
<1>3. AllAttempts = (MaxCycles + 1) * Most
  BY DEF AllAttempts
<1> HIDE DEF Most
<1>4. cycles + 1 \in Nat /\ MaxCycles + 1 \in Nat /\ cycles + 1 <= MaxCycles + 1
  BY <1>1
<1>5. (cycles + 1) * PerCycle <= (MaxCycles + 1) * Most
  BY <1>2, <1>4, Product
<1>6. (MaxCycles + 1) * Most \in Nat
  BY <1>2, <1>4, OneMore
<1> QED
  BY <1>1, <1>2, <1>3, <1>5, <1>6, OneMore DEF Most

LEMMA BegunBound ==
    ASSUME CountersOK, FlagsOK, InOrder, startup \in Pausing \cup Waiting
    PROVE  Begun \in Nat /\ Begun <= AllAttempts
<1>1. savedAttempts + sdkAttempts \in Nat /\ savedAttempts + sdkAttempts <= PerCycle
  BY WifiSetupAssumption DEF CountersOK, FlagsOK, InOrder, PerCycle
<1> QED
  BY <1>1, CycleBound DEF Begun, CountersOK

-----------------------------------------------------------------------------
(* Startup. *)

LEMMA InitEstablishes == Init => IInv
<1> SUFFICES ASSUME Init PROVE IInv
  OBVIOUS
<1>1. AllAttempts \in Nat
  BY WifiSetupAssumption, OneMore DEF AllAttempts
<1>2. CountersOK
  BY <1>1, WifiSetupAssumption DEF Init, CountersOK
<1>3. FlagsOK
  <2>1. Mounts \subseteq BOOLEAN
    BY WifiSetupAssumption
  <2> QED
    BY <2>1, Zenon DEF Init, FlagsOK
<1>4. NamesOK
  BY DEF Init, NamesOK, StartupStates, ApplyStates
<1>5. Accounting
  BY DEF Init, Accounting, Pausing, Waiting
<1>6. InOrder /\ Applying /\ ApNotLost
  BY DEF Init, InOrder, Applying, ApNotLost, ApplyBusy, Pausing, Waiting, SdkPart
<1> QED
  BY <1>2, <1>3, <1>4, <1>5, <1>6 DEF IInv

\* What a step of the startup machine leaves to the web interface.
LEMMA StartupLeavesWeb ==
    ASSUME IInv, startup # "DONE", UNCHANGED <<applyState, applyAttempts>>
    PROVE  /\ applyState = "IDLE" /\ Applying'
           /\ (startup' # "DONE" => ApNotLost')
<1>1. applyState = "IDLE" /\ applyState' = "IDLE"
  BY DEF IInv, Applying
<1> QED
  BY <1>1 DEF Applying, ApplyBusy, ApNotLost

LEMMA SetupKeeps == IInv /\ Setup => IInv'
<1> SUFFICES ASSUME IInv, Setup PROVE IInv'
  OBVIOUS
<1>1. startup = "INIT" /\ failed = 0 /\ cycles = 0 /\ savedAttempts = 0 /\ sdkAttempts = 0
      /\ startup' = IF hasSaved' THEN "TRY_SAVED_START" ELSE "TRY_SDK_START"
  BY DEF IInv, Accounting, Setup
<1>2. CountersOK'
  BY DEF IInv, Setup, CountersOK
<1>3. FlagsOK'
  BY Zenon DEF IInv, Setup, LoadConfig, FlagsOK, flashVars
<1>4. NamesOK'
  BY DEF IInv, Setup, LoadConfig, NamesOK, StartupStates, flashVars
<1>5. Accounting'
  <2>1. failed' = 0 /\ cycles' = 0 /\ savedAttempts' = 0 /\ sdkAttempts' = 0
    BY <1>1 DEF Setup
  <2>2. PerCycle' \in Nat
    BY <1>3, WifiSetupAssumption DEF PerCycle, FlagsOK
  <2>3. 0 * PerCycle' = 0
    BY <2>2, NoneAtAll, Zenon
  <2>4. Begun' = 0
    BY <2>1, <2>3 DEF Begun
  <2> QED
    BY <1>1, <2>1, <2>4 DEF Accounting, Pausing, Waiting
<1>6. savedAttempts' = 0 /\ (startup' \in SdkPart => ~hasSaved')
      /\ startup' \notin {"TRY_SAVED_WAIT", "RESET_COUNTDOWN"}
  BY <1>1 DEF Setup, SdkPart
<1>7. InOrder'
  BY <1>6 DEF InOrder
<1>8. Applying' /\ ApNotLost'
  BY <1>1, StartupLeavesWeb DEF Setup
<1> QED
  BY <1>2, <1>3, <1>4, <1>5, <1>7, <1>8 DEF IInv

\* All attempts of a cycle have failed: the account is carried over.
LEMMA CycleCarriesOver ==
    ASSUME IInv, NextCycleOrCountdown, UNCHANGED <<hasSaved, fsReady, applyAttempts>>,
           failed' = cycles * PerCycle + PerCycle, startup # "DONE"
    PROVE  CountersOK' /\ Accounting' /\ InOrder' /\ startup' \in {"RESET_COUNTDOWN", "TRY_SAVED_DELAY"}
<1> DEFINE P == PerCycle
<1>1. P \in Nat /\ cycles * P \in Nat /\ (cycles + 1) * P = cycles * P + P
      /\ (cycles + 1) * P <= AllAttempts /\ P' = P /\ AllAttempts \in Nat
  BY CycleBound DEF IInv, PerCycle
<1>2. failed' \in 0..AllAttempts /\ failed' = (cycles + 1) * P
  BY <1>1
<1>3. cycles \in 0..MaxCycles /\ MaxCycles \in Nat
  BY WifiSetupAssumption DEF IInv, CountersOK
<1> HIDE DEF P
<1>4. CASE ShouldEnterApMode(hasSaved, fsReady, cycles, MaxCycles)
  <2>1. startup' = "RESET_COUNTDOWN" /\ UNCHANGED <<cycles, savedAttempts, sdkAttempts>>
    BY <1>4 DEF NextCycleOrCountdown
  <2>2. (hasSaved \/ ~fsReady) => cycles = MaxCycles
    BY <1>3, <1>4 DEF ShouldEnterApMode
  <2>3. CountersOK'
    BY <1>2, <2>1 DEF IInv, CountersOK, AllAttempts
  <2>4. Accounting'
    BY <1>1, <1>2, <2>1 DEF Accounting, Pausing, Waiting, P
  <2> QED
    BY <2>1, <2>2, <2>3, <2>4 DEF InOrder, Pausing, Waiting, SdkPart
<1>5. CASE ~ShouldEnterApMode(hasSaved, fsReady, cycles, MaxCycles)
  <2>1. startup' = "TRY_SAVED_DELAY" /\ cycles' = cycles + 1 /\ savedAttempts' = 0 /\ sdkAttempts' = 0
    BY <1>5 DEF NextCycleOrCountdown
  <2>2. cycles + 1 \in 0..MaxCycles
    BY <1>3, <1>5 DEF ShouldEnterApMode
  <2>3. CountersOK'
    BY <1>2, <2>1, <2>2, WifiSetupAssumption DEF IInv, CountersOK, AllAttempts
  <2>4. Begun' = (cycles + 1) * P
    <3>1. Begun' = (cycles + 1) * P + 0 + 0
      BY <1>1, <2>1 DEF Begun, P
    <3>2. (cycles + 1) * P \in Nat
      BY <1>1
    <3> QED
      BY <3>1, <3>2
  <2>5. Accounting'
    BY <1>2, <2>1, <2>4 DEF Accounting, Pausing, Waiting
  <2> QED
    BY <2>1, <2>3, <2>5 DEF InOrder, Pausing, Waiting, SdkPart
<1> QED
  BY <1>4, <1>5

LEMMA SavedStartKeeps == IInv /\ TrySavedStart => IInv'
<1> SUFFICES ASSUME IInv, TrySavedStart PROVE IInv'
  OBVIOUS
<1>0. startup = "TRY_SAVED_START" /\ failed = Begun /\ Begun \in Nat
      /\ UNCHANGED <<hasSaved, sdkAttempts, cycles, fsReady, failed, applyState, applyAttempts, mode, isAPMode, ssid>>
      /\ startup' \in {"TRY_SAVED_WAIT", "TRY_SDK_START"}
  BY BegunBound DEF IInv, Accounting, Pausing, TrySavedStart, webVars
<1>1. FlagsOK'
  BY Zenon DEF IInv, TrySavedStart, FlagsOK, webVars
<1>2. NamesOK'
  BY DEF IInv, TrySavedStart, JoinSaved, NamesOK, StartupStates, webVars
<1>3. Applying' /\ ApNotLost'
  BY <1>0, StartupLeavesWeb
<1>4. PerCycle' = PerCycle /\ PerCycle \in Nat /\ cycles * PerCycle \in Nat
  BY <1>0, CycleBound DEF IInv, PerCycle
<1>5. CASE hasSaved /\ savedAttempts < MaxSavedAttempts
  <2>1. savedAttempts' = savedAttempts + 1 /\ startup' = "TRY_SAVED_WAIT"
    BY <1>5 DEF TrySavedStart
  <2>2. CountersOK'
    BY <1>0, <1>5, <2>1, WifiSetupAssumption DEF IInv, CountersOK, AllAttempts
  <2>3. Begun' = Begun + 1
    BY <1>0, <1>4, <2>1, <2>2 DEF Begun, IInv, CountersOK
  <2>4. Accounting'
    BY <1>0, <2>1, <2>3 DEF Accounting, Pausing, Waiting
  <2>5. InOrder'
    BY <1>0, <1>5, <2>1 DEF InOrder, SdkPart
  <2> QED
    BY <1>1, <1>2, <1>3, <2>2, <2>4, <2>5 DEF IInv
<1>6. CASE ~(hasSaved /\ savedAttempts < MaxSavedAttempts)
  <2>1. savedAttempts' = savedAttempts /\ startup' = "TRY_SDK_START"
    BY <1>6 DEF TrySavedStart
  <2>2. CountersOK'
    BY <1>0, <2>1 DEF IInv, CountersOK, AllAttempts
  <2>3. Begun' = Begun
    BY <1>0, <1>4, <2>1 DEF Begun
  <2>4. Accounting'
    BY <1>0, <2>1, <2>3 DEF Accounting, Pausing, Waiting
  <2>5. hasSaved => savedAttempts = MaxSavedAttempts
    BY <1>6, WifiSetupAssumption DEF IInv, CountersOK
  <2>6. ~hasSaved => savedAttempts = 0
    BY <1>0 DEF IInv, InOrder, Pausing
  <2>7. InOrder'
    BY <1>0, <2>1, <2>5, <2>6 DEF InOrder
  <2> QED
    BY <1>1, <1>2, <1>3, <2>2, <2>4, <2>7 DEF IInv
<1> QED
  BY <1>5, <1>6

LEMMA SdkStartKeeps == IInv /\ TrySdkStart => IInv'
<1> SUFFICES ASSUME IInv, TrySdkStart PROVE IInv'
  OBVIOUS
<1>0. startup = "TRY_SDK_START" /\ failed = Begun
      /\ UNCHANGED <<hasSaved, fsReady, failed, applyState, applyAttempts, mode, isAPMode, ssid>>
      /\ startup' \in {"TRY_SDK_WAIT", "RESET_COUNTDOWN", "TRY_SAVED_DELAY"}
  BY DEF IInv, Accounting, Pausing, TrySdkStart, NextCycleOrCountdown, webVars
<1>1. FlagsOK'
  BY Zenon DEF IInv, TrySdkStart, FlagsOK, webVars
<1>2. sdkSsid' \in Ssids \cup {None} /\ station' \in Ssids \cup {None}
  BY DEF IInv, NamesOK, TrySdkStart, JoinStored, DropNetwork
<1>3. NamesOK'
  BY <1>0, <1>2 DEF IInv, TrySdkStart, NamesOK, StartupStates, webVars
<1>4. Applying' /\ ApNotLost'
  BY <1>0, StartupLeavesWeb
<1>5. PerCycle' = PerCycle /\ PerCycle \in Nat /\ cycles * PerCycle \in Nat
  BY <1>0, CycleBound DEF IInv, PerCycle
<1>6. CASE sdkAttempts < MaxSdkAttempts
  <2>1. sdkAttempts' = sdkAttempts + 1 /\ startup' = "TRY_SDK_WAIT"
        /\ UNCHANGED <<cycles, savedAttempts>>
    BY <1>6 DEF TrySdkStart
  <2>2. CountersOK'
    BY <1>0, <1>6, <2>1, WifiSetupAssumption DEF IInv, CountersOK, AllAttempts
  <2>3. Begun' = Begun + 1
    BY <1>0, <1>5, <2>1, <2>2 DEF Begun, IInv, CountersOK
  <2>4. Begun \in Nat
    BY <1>0, BegunBound DEF IInv, Pausing
  <2>5. Accounting'
    BY <1>0, <2>1, <2>3, <2>4 DEF Accounting, Pausing, Waiting
  <2>6. InOrder'
    BY <1>0, <2>1 DEF IInv, InOrder, SdkPart, Pausing, Waiting
  <2> QED
    BY <1>1, <1>3, <1>4, <2>2, <2>5, <2>6 DEF IInv
<1>7. CASE ~(sdkAttempts < MaxSdkAttempts)
  <2>1. NextCycleOrCountdown
    BY <1>7 DEF TrySdkStart
  <2>2. sdkAttempts = MaxSdkAttempts
    BY <1>7, WifiSetupAssumption DEF IInv, CountersOK
  <2>3. savedAttempts = IF hasSaved THEN MaxSavedAttempts ELSE 0
    BY <1>0 DEF IInv, InOrder, SdkPart, Pausing
  <2>4. failed' = cycles * PerCycle + PerCycle
    BY <1>0, <1>5, <2>2, <2>3, WifiSetupAssumption DEF Begun, PerCycle
  <2>5. CountersOK' /\ Accounting' /\ InOrder'
    BY <1>0, <2>1, <2>4, CycleCarriesOver
  <2> QED
    BY <1>1, <1>3, <1>4, <2>5 DEF IInv
<1> QED
  BY <1>6, <1>7

LEMMA ConnectedKeeps == IInv /\ TryConnected => IInv'
<1> SUFFICES ASSUME IInv, TryConnected PROVE IInv'
  OBVIOUS
<1>0. startup \in Waiting /\ startup' = "WIFI_CONNECTED_DELAY" /\ cycles' = 0
      /\ UNCHANGED <<savedAttempts, sdkAttempts, failed, applyState, applyAttempts>>
  BY DEF TryConnected, Waiting, webVars
<1>1. FlagsOK'
  BY Zenon DEF IInv, TryConnected, Joined, FlagsOK, webVars, flashVars
<1>2. NamesOK'
  BY DEF IInv, TryConnected, Joined, NamesOK, StartupStates, webVars, flashVars
<1>3. CountersOK'
  BY <1>0, WifiSetupAssumption DEF IInv, CountersOK, AllAttempts
<1>4. Applying' /\ ApNotLost'
  BY <1>0, StartupLeavesWeb DEF Waiting
<1> QED
  BY <1>0, <1>1, <1>2, <1>3, <1>4 DEF IInv, Accounting, InOrder, Pausing, Waiting, SdkPart

LEMMA TimedOutKeeps == IInv /\ TryTimedOut => IInv'
<1> SUFFICES ASSUME IInv, TryTimedOut PROVE IInv'
  OBVIOUS
<1>0. startup \in Waiting /\ failed' = failed + 1 /\ failed + 1 = Begun
      /\ UNCHANGED <<hasSaved, fsReady, applyState, applyAttempts, mode, isAPMode, ssid>>
  BY DEF IInv, Accounting, TryTimedOut, Waiting, webVars
<1>1. startup' \in {"TRY_SAVED_DELAY", "TRY_SDK_START", "TRY_SDK_DELAY", "RESET_COUNTDOWN"}
  BY DEF TryTimedOut, NextCycleOrCountdown
<1>2. FlagsOK'
  BY Zenon DEF IInv, TryTimedOut, FlagsOK, webVars, flashVars
<1>3. NamesOK'
  BY <1>1 DEF IInv, TryTimedOut, NamesOK, StartupStates, webVars, flashVars
<1>4. Applying' /\ ApNotLost'
  BY <1>0, <1>1, StartupLeavesWeb DEF Waiting
<1>5. PerCycle' = PerCycle /\ PerCycle \in Nat /\ cycles * PerCycle \in Nat
  BY <1>0, CycleBound DEF IInv, PerCycle
<1>6. failed' \in 0..AllAttempts /\ failed' = Begun
  BY <1>0, BegunBound, CycleBound DEF IInv, CountersOK
<1>7. CASE startup = "TRY_SAVED_WAIT"
  <2>1. startup' = (IF savedAttempts < MaxSavedAttempts THEN "TRY_SAVED_DELAY" ELSE "TRY_SDK_START")
        /\ UNCHANGED <<cycles, savedAttempts, sdkAttempts>>
    BY <1>7 DEF TryTimedOut
  <2>2. CountersOK'
    BY <1>0, <1>6, <2>1 DEF IInv, CountersOK, AllAttempts
  <2>3. Accounting'
    BY <1>5, <1>6, <2>1 DEF Accounting, Pausing, Waiting, Begun
  <2>4. hasSaved
    BY <1>7 DEF IInv, InOrder
  <2>5. startup' = "TRY_SDK_START" => savedAttempts = MaxSavedAttempts
    BY <2>1, WifiSetupAssumption DEF IInv, CountersOK
  <2>6. InOrder'
    BY <1>0, <2>1, <2>4, <2>5 DEF InOrder, SdkPart
  <2> QED
    BY <1>2, <1>3, <1>4, <2>2, <2>3, <2>6 DEF IInv
<1>8. CASE startup = "TRY_SDK_WAIT" /\ sdkAttempts < MaxSdkAttempts
  <2>1. startup' = "TRY_SDK_DELAY" /\ UNCHANGED <<cycles, savedAttempts, sdkAttempts>>
    BY <1>8 DEF TryTimedOut
  <2>2. CountersOK'
    BY <1>0, <1>6, <2>1 DEF IInv, CountersOK, AllAttempts
  <2>3. Accounting'
    BY <1>5, <1>6, <2>1 DEF Accounting, Pausing, Waiting, Begun
  <2>4. InOrder'
    BY <1>0, <1>8, <2>1 DEF IInv, InOrder, SdkPart, Pausing, Waiting
  <2> QED
    BY <1>2, <1>3, <1>4, <2>2, <2>3, <2>4 DEF IInv
<1>9. CASE startup = "TRY_SDK_WAIT" /\ ~(sdkAttempts < MaxSdkAttempts)
  <2>1. NextCycleOrCountdown
    BY <1>9 DEF TryTimedOut
  <2>2. sdkAttempts = MaxSdkAttempts
    BY <1>9, WifiSetupAssumption DEF IInv, CountersOK
  <2>3. savedAttempts = IF hasSaved THEN MaxSavedAttempts ELSE 0
    BY <1>9 DEF IInv, InOrder, SdkPart, Waiting
  <2>4. failed' = cycles * PerCycle + PerCycle
    BY <1>5, <1>6, <2>2, <2>3, WifiSetupAssumption DEF Begun, PerCycle
  <2>5. CountersOK' /\ Accounting' /\ InOrder'
    BY <1>0, <1>9, <2>1, <2>4, CycleCarriesOver
  <2> QED
    BY <1>2, <1>3, <1>4, <2>5 DEF IInv
<1> QED
  BY <1>0, <1>7, <1>8, <1>9 DEF Waiting

\* A step that neither tries nor counts leaves the account as it is.
LEMMA AccountStands ==
    ASSUME IInv, UNCHANGED <<hasSaved, savedAttempts, sdkAttempts, cycles, failed, fsReady>>
    PROVE  /\ Begun' = Begun
           /\ startup' = startup => Accounting' /\ InOrder'
<1>1. PerCycle' = PerCycle
  BY DEF PerCycle
<1> QED
  BY <1>1 DEF IInv, Begun, Accounting, InOrder, Pausing, Waiting, SdkPart

LEMMA DelayKeeps == IInv /\ DelayOver => IInv'
<1> SUFFICES ASSUME IInv, DelayOver PROVE IInv'
  OBVIOUS
<1>0. startup \in {"TRY_SAVED_DELAY", "TRY_SDK_DELAY"}
      /\ startup' = (IF startup = "TRY_SAVED_DELAY" THEN "TRY_SAVED_START" ELSE "TRY_SDK_START")
      /\ UNCHANGED <<hasSaved, savedAttempts, sdkAttempts, cycles, fsReady, failed,
                     applyState, applyAttempts>>
  BY DEF DelayOver, webVars
<1>1. CountersOK' /\ FlagsOK' /\ NamesOK'
  <2>1. CountersOK'
    BY <1>0 DEF IInv, CountersOK, AllAttempts
  <2>2. FlagsOK'
    BY Zenon DEF IInv, DelayOver, FlagsOK, webVars, flashVars
  <2>3. NamesOK'
    BY <1>0 DEF IInv, DelayOver, NamesOK, StartupStates, webVars, flashVars
  <2> QED
    BY <2>1, <2>2, <2>3
<1>2. Applying' /\ ApNotLost'
  BY <1>0, StartupLeavesWeb
<1>3. Accounting' /\ InOrder'
  BY <1>0, AccountStands DEF IInv, Accounting, InOrder, Pausing, Waiting, SdkPart
<1> QED
  BY <1>1, <1>2, <1>3 DEF IInv

\* The steps that end a startup.
LEMMA EndKeeps == IInv /\ (StartMonitorMode \/ CountdownOver \/ EnterAp) => IInv'
<1> SUFFICES ASSUME IInv, StartMonitorMode \/ CountdownOver \/ EnterAp PROVE IInv'
  OBVIOUS
<1>0. startup # "DONE" /\ startup' \in {"DONE", "ENTER_AP"}
      /\ UNCHANGED <<savedAttempts, sdkAttempts, cycles, failed, fsReady, applyState, applyAttempts>>
      /\ (startup' = "DONE" => mode' = "MONITOR" \/ isAPMode')
  BY DEF StartMonitorMode, CountdownOver, EnterAp, StartAp, webVars
<1>1. CountersOK'
  BY <1>0 DEF IInv, CountersOK, AllAttempts
<1>2. FlagsOK'
  BY Zenon DEF IInv, StartMonitorMode, CountdownOver, EnterAp, StartAp, FlagsOK, webVars, flashVars
<1>3. NamesOK'
  <2>1. wifiFile' \in Ssids \cup {None} /\ sdkSsid' \in Ssids \cup {None}
        /\ station' \in Ssids \cup {None} /\ ssid' \in Ssids \cup {None}
    BY DEF IInv, StartMonitorMode, CountdownOver, EnterAp, DropNetwork, NamesOK, flashVars
  <2>2. reachable' \subseteq Ssids /\ mode' \in {"AP_SETUP", "MONITOR"} /\ cause' = cause
    BY DEF IInv, StartMonitorMode, CountdownOver, EnterAp, NamesOK, webVars
  <2> QED
    BY <1>0, <2>1, <2>2 DEF IInv, NamesOK, StartupStates
<1>4. Accounting' /\ InOrder'
  BY <1>0 DEF Accounting, InOrder, Pausing, Waiting, SdkPart
<1>5. Applying' /\ ApNotLost'
  <2>1. applyState = "IDLE" /\ Applying'
    BY <1>0, StartupLeavesWeb
  <2>2. startup' = "DONE" => mode' = "MONITOR" \/ isAPMode'
    BY <1>0
  <2> QED
    BY <2>1, <2>2 DEF ApNotLost
<1> QED
  BY <1>1, <1>2, <1>3, <1>4, <1>5 DEF IInv

-----------------------------------------------------------------------------
(* The web interface, restarts and the surroundings. *)

\* What a handler leaves to the startup machine.
LEMMA WebLeavesStartup ==
    ASSUME IInv, Serving, applyAttempts' \in 0..MaxApplyAttempts
    PROVE  CountersOK' /\ Accounting' /\ InOrder' /\ startup = "DONE" /\ startup' = "DONE"
           /\ mode' = mode /\ reachable' = reachable
<1>1. UNCHANGED <<hasSaved, savedAttempts, sdkAttempts, cycles, failed, fsReady, startup>>
      /\ startup = "DONE" /\ mode' = mode /\ reachable' = reachable
  BY DEF Serving, startupVars
<1> QED
  BY <1>1, AccountStands DEF IInv, CountersOK, AllAttempts

LEMMA SaveHandlerKeeps == IInv /\ HandleWifiSave => IInv'
<1> SUFFICES ASSUME IInv, HandleWifiSave PROVE IInv'
  OBVIOUS
<1>0. isAPMode /\ ~ApplyBusy /\ Serving
      /\ UNCHANGED <<sdkSsid, monitorFile, station, isAPMode, setupComplete, wizardMode,
                     pendingRestart, cause, afterReset>>
  BY DEF HandleWifiSave
<1>1. PICK s \in Ssids :
         \/ SaveConfig(s) /\ applyState' = "PENDING_START" /\ applyAttempts' = 0
         \/ SaveConfigFails(s) /\ UNCHANGED <<applyState, applyAttempts>>
  BY DEF HandleWifiSave
<1>2. applyAttempts' \in 0..MaxApplyAttempts
  BY <1>1, WifiSetupAssumption DEF IInv, CountersOK
<1>3. CountersOK' /\ Accounting' /\ InOrder' /\ startup = "DONE" /\ startup' = "DONE"
      /\ mode' = mode /\ reachable' = reachable
  BY <1>0, <1>2, WebLeavesStartup
<1>4. FlagsOK'
  BY <1>0, Zenon DEF IInv, Serving, startupVars, FlagsOK
<1>5. NamesOK'
  BY <1>0, <1>1, <1>3 DEF IInv, NamesOK, SaveConfig, SaveConfigFails, ApplyStates
<1>6. Applying'
  BY <1>0, <1>1, <1>3, WifiSetupAssumption DEF IInv, Applying, ApplyBusy, SaveConfig
<1>7. ApNotLost'
  BY <1>0 DEF ApNotLost
<1> QED
  BY <1>3, <1>4, <1>5, <1>6, <1>7 DEF IInv

\* processPendingWifiApply().
LEMMA ApplyKeeps == IInv /\ (ApplyStart \/ ApplySuccess \/ ApplyTimedOut) => IInv'
<1>1. ASSUME IInv, ApplyStart PROVE IInv'
  <2>0. Serving /\ applyState \in {"PENDING_START", "RETRY_WAIT"} /\ applyAttempts' = applyAttempts + 1
        /\ station' = ssid /\ sdkSsid' = ssid /\ applyState' = "CONNECTING"
        /\ UNCHANGED <<wifiFile, monitorFile, ssid, isAPMode, setupComplete, wizardMode,
                       pendingRestart, cause, afterReset>>
    BY <1>1 DEF ApplyStart, JoinSaved
  <2>1. applyAttempts' \in 0..MaxApplyAttempts
    BY <1>1, <2>0, WifiSetupAssumption DEF IInv, CountersOK, Applying
  <2>2. CountersOK' /\ Accounting' /\ InOrder' /\ startup = "DONE" /\ startup' = "DONE"
        /\ mode' = mode /\ reachable' = reachable
    BY <1>1, <2>0, <2>1, WebLeavesStartup
  <2>3. FlagsOK'
    BY <1>1, <2>0, Zenon DEF IInv, Serving, startupVars, FlagsOK
  <2>4. NamesOK'
    BY <1>1, <2>0, <2>2 DEF IInv, NamesOK, ApplyStates
  <2>5. Applying'
    BY <1>1, <2>0, <2>2 DEF IInv, Applying, ApplyBusy
  <2>6. ApNotLost'
    BY <1>1, <2>0, <2>2 DEF IInv, ApNotLost
  <2> QED
    BY <2>2, <2>3, <2>4, <2>5, <2>6 DEF IInv
<1>2. ASSUME IInv, ApplySuccess PROVE IInv'
  <2>0. Serving /\ applyState' = "SUCCESS" /\ applyAttempts' = applyAttempts
        /\ isAPMode' = FALSE /\ ssid' = ssid /\ cause' \in {cause, "wifi"}
        /\ pendingRestart' \in {pendingRestart, TRUE}
        /\ UNCHANGED <<flashVars, station, setupComplete, wizardMode, afterReset>>
    BY <1>2 DEF ApplySuccess, Joined, RestartFor
  <2>1. applyAttempts' \in 0..MaxApplyAttempts
    BY <1>2, <2>0 DEF IInv, CountersOK
  <2>2. CountersOK' /\ Accounting' /\ InOrder' /\ startup = "DONE" /\ startup' = "DONE"
        /\ mode' = mode /\ reachable' = reachable
    BY <1>2, <2>0, <2>1, WebLeavesStartup
  <2>3. FlagsOK'
    BY <1>2, <2>0, Zenon DEF IInv, Serving, startupVars, flashVars, FlagsOK
  <2>4. NamesOK'
    BY <1>2, <2>0, <2>2 DEF IInv, NamesOK, ApplyStates, flashVars
  <2> QED
    BY <2>0, <2>2, <2>3, <2>4 DEF IInv, Applying, ApplyBusy, ApNotLost
<1>3. ASSUME IInv, ApplyTimedOut PROVE IInv'
  <2>0. Serving /\ applyState = "CONNECTING" /\ applyAttempts' = applyAttempts /\ isAPMode' \in {isAPMode, TRUE}
        /\ IF applyAttempts < MaxApplyAttempts
           THEN applyState' = "RETRY_WAIT" /\ isAPMode' = isAPMode
           ELSE applyState' = "FAILED" /\ isAPMode' = TRUE
    BY <1>3 DEF ApplyTimedOut, StartAp
  <2>1. UNCHANGED <<flashVars, station, ssid, setupComplete, wizardMode, pendingRestart, cause, afterReset>>
    BY <1>3 DEF ApplyTimedOut
  <2>2. applyAttempts' \in 0..MaxApplyAttempts
    BY <1>3, <2>0 DEF IInv, CountersOK
  <2>3. CountersOK' /\ Accounting' /\ InOrder' /\ startup = "DONE" /\ startup' = "DONE"
        /\ mode' = mode /\ reachable' = reachable
    BY <1>3, <2>0, <2>2, WebLeavesStartup
  <2>4. FlagsOK'
    BY <1>3, <2>0, <2>1, Zenon DEF IInv, Serving, startupVars, flashVars, FlagsOK
  <2>5. NamesOK'
    BY <1>3, <2>0, <2>1, <2>3 DEF IInv, NamesOK, ApplyStates, flashVars
  <2>6. wifiFile \in {ssid, None}
    BY <1>3, <2>0 DEF IInv, Applying, ApplyBusy
  <2>7. Applying'
    BY <2>0, <2>1, <2>3, <2>6 DEF Applying, ApplyBusy, flashVars
  <2>8. ApNotLost'
    BY <1>3, <2>0, <2>3 DEF IInv, ApNotLost
  <2> QED
    BY <2>3, <2>4, <2>5, <2>7, <2>8 DEF IInv
<1> QED
  BY <1>1, <1>2, <1>3

\* The handlers that leave the apply machine alone.
LEMMA RequestKeeps ==
    ASSUME IInv, Serving,
           UNCHANGED <<sdkSsid, station, ssid, isAPMode, applyState, applyAttempts, afterReset>>,
           wifiFile' \in {wifiFile, None}, monitorFile' \in BOOLEAN \cup {None},
           setupComplete' \in BOOLEAN, wizardMode' \in BOOLEAN, pendingRestart' \in BOOLEAN,
           cause' \in {cause, "config", "complete", "reboot", "reset"}
    PROVE  IInv'
<1>1. applyAttempts' \in 0..MaxApplyAttempts
  BY DEF IInv, CountersOK
<1>2. CountersOK' /\ Accounting' /\ InOrder' /\ startup = "DONE" /\ startup' = "DONE"
      /\ mode' = mode /\ reachable' = reachable
  BY <1>1, WebLeavesStartup
<1>3. FlagsOK'
  BY Zenon DEF IInv, Serving, startupVars, FlagsOK
<1>4. NamesOK'
  BY <1>2 DEF IInv, NamesOK
<1>5. Applying' /\ ApNotLost'
  BY <1>2 DEF IInv, Applying, ApplyBusy, ApNotLost
<1> QED
  BY <1>2, <1>3, <1>4, <1>5 DEF IInv

LEMMA RequestsKeep ==
    IInv /\ (OpenWizard \/ DeferredSave \/ SaveMonitorConfig \/ CompleteSetup
             \/ RequestReboot \/ FactoryReset) => IInv'
<1>0. IInv => /\ setupComplete \in BOOLEAN /\ wizardMode \in BOOLEAN /\ pendingRestart \in BOOLEAN
              /\ monitorFile \in BOOLEAN \cup {None} /\ TRUE \in BOOLEAN /\ FALSE \in BOOLEAN
  BY Zenon DEF IInv, FlagsOK
<1>1. ASSUME IInv, OpenWizard PROVE IInv'
  <2>1. wizardMode' \in BOOLEAN
    BY <1>1, Zenon DEF OpenWizard
  <2> QED
    BY <1>0, <1>1, <2>1, RequestKeeps DEF OpenWizard, flashVars
<1>2. ASSUME IInv, DeferredSave PROVE IInv'
  BY <1>0, <1>2, RequestKeeps DEF DeferredSave, webVars
<1>3. ASSUME IInv, SaveMonitorConfig PROVE IInv'
  <2>1. pendingRestart' \in BOOLEAN /\ monitorFile' \in BOOLEAN \cup {None}
    BY <1>0, <1>3, Zenon DEF SaveMonitorConfig, StoreMonitorFile, RestartFor
  <2>2. cause' \in {cause, "config"}
    BY <1>3 DEF SaveMonitorConfig, StoreMonitorFile, RestartFor
  <2> QED
    BY <1>0, <1>3, <2>1, <2>2, RequestKeeps DEF SaveMonitorConfig
<1>4. ASSUME IInv, CompleteSetup PROVE IInv'
  <2>0. setupComplete' = TRUE
    BY <1>4 DEF CompleteSetup
  <2>1. setupComplete' \in BOOLEAN /\ pendingRestart' \in BOOLEAN /\ monitorFile' \in BOOLEAN \cup {None}
    BY <1>0, <1>4, Zenon DEF CompleteSetup, StoreMonitorFile, RestartFor
  <2>2. cause' \in {cause, "complete"}
    BY <1>4 DEF CompleteSetup, StoreMonitorFile, RestartFor
  <2> QED
    BY <1>0, <1>4, <2>1, <2>2, RequestKeeps DEF CompleteSetup
<1>5. ASSUME IInv, RequestReboot PROVE IInv'
  <2>1. pendingRestart' \in BOOLEAN /\ cause' = "reboot"
    BY <1>5, Zenon DEF RequestReboot, RestartFor
  <2> QED
    BY <1>0, <1>5, <2>1, RequestKeeps DEF RequestReboot, flashVars
<1>6. ASSUME IInv, FactoryReset PROVE IInv'
  <2>1. pendingRestart' \in BOOLEAN /\ cause' = "reset" /\ setupComplete' \in BOOLEAN
        /\ monitorFile' \in BOOLEAN \cup {None}
    BY <1>0, <1>6, Zenon DEF FactoryReset, RestartFor
  <2> QED
    BY <1>0, <1>6, <2>1, RequestKeeps DEF FactoryReset
<1> QED
  BY <1>1, <1>2, <1>3, <1>4, <1>5, <1>6

\* A restart, whoever caused it, and a power cut.
LEMMA BootKeeps ==
    ASSUME IInv, PowerOn, UNCHANGED <<flashVars, reachable>>, afterReset' \in BOOLEAN
    PROVE  IInv'
<1>1. AllAttempts' \in Nat
  BY WifiSetupAssumption, OneMore DEF AllAttempts
<1>2. CountersOK'
  BY <1>1, WifiSetupAssumption DEF PowerOn, CountersOK
<1>3. FlagsOK'
  <2>1. Mounts \subseteq BOOLEAN
    BY WifiSetupAssumption
  <2> QED
    BY <2>1, Zenon DEF IInv, PowerOn, MountStorage, FlagsOK, flashVars
<1>4. NamesOK'
  BY DEF IInv, PowerOn, NamesOK, StartupStates, ApplyStates, flashVars
<1>5. Accounting'
  BY DEF PowerOn, Accounting, Pausing, Waiting
<1>6. InOrder' /\ Applying' /\ ApNotLost'
  BY DEF PowerOn, InOrder, Applying, ApNotLost, ApplyBusy, Pausing, Waiting, SdkPart
<1> QED
  BY <1>2, <1>3, <1>4, <1>5, <1>6 DEF IInv

LEMMA RestartKeeps == IInv /\ (Restart \/ PowerCycle) => IInv'
<1>1. ASSUME IInv, Restart PROVE IInv'
  <2>1. afterReset' \in BOOLEAN
    BY <1>1 DEF Restart
  <2> QED
    BY <1>1, <2>1, BootKeeps DEF Restart
<1>2. ASSUME IInv, PowerCycle PROVE IInv'
  <2>1. afterReset' \in BOOLEAN
    BY <1>2, Zenon DEF PowerCycle
  <2> QED
    BY <1>2, <2>1, BootKeeps DEF PowerCycle
<1> QED
  BY <1>1, <1>2

\* Steps that change at most which networks are in reach.
LEMMA SurroundingsKeep ==
    ASSUME IInv, UNCHANGED <<flashVars, station, startupVars, ssid, isAPMode, webVars>>,
           reachable' \subseteq Ssids
    PROVE  IInv'
<1>1. CountersOK'
  BY DEF IInv, CountersOK, AllAttempts, startupVars, webVars
<1>2. FlagsOK'
  BY Zenon DEF IInv, FlagsOK, startupVars, webVars, flashVars
<1>3. NamesOK'
  BY DEF IInv, NamesOK, startupVars, webVars, flashVars
<1>4. Accounting' /\ InOrder'
  BY AccountStands DEF startupVars
<1>5. Applying' /\ ApNotLost'
  BY DEF IInv, Applying, ApplyBusy, ApNotLost, startupVars, webVars, flashVars
<1> QED
  BY <1>1, <1>2, <1>3, <1>4, <1>5 DEF IInv

THEOREM Invariance == Spec => []IInv
<1>1. Init => IInv
  BY InitEstablishes
<1>2. IInv /\ ProcessStartup => IInv'
  BY SetupKeeps, SavedStartKeeps, SdkStartKeeps, ConnectedKeeps, TimedOutKeeps, DelayKeeps, EndKeeps
  DEF ProcessStartup
<1>3. IInv /\ Web => IInv'
  BY SaveHandlerKeeps, ApplyKeeps, RequestsKeep, RestartKeeps DEF Web
<1>4. IInv /\ ReachChange => IInv'
  <2> SUFFICES ASSUME IInv, ReachChange PROVE IInv'
    OBVIOUS
  <2>1. reachable' \subseteq Ssids
    BY DEF IInv, NamesOK, ReachChange
  <2> QED
    BY <2>1, SurroundingsKeep DEF ReachChange
<1>5. IInv /\ UNCHANGED vars => IInv'
  BY SurroundingsKeep DEF vars, IInv, NamesOK
<1>6. IInv /\ [Next]_vars => IInv'
  BY <1>2, <1>3, <1>4, <1>5, RestartKeeps DEF Next
<1> QED
  BY <1>1, <1>6, PTL DEF Spec

-----------------------------------------------------------------------------
(* The results. *)

\* The variables keep their types; no counter passes its limit.
THEOREM TypeCorrect == Spec => []TypeOK
  BY Invariance, TypeParts, PTL DEF IInv

\* In AP mode the setup pages are refused only after a join that worked.
THEOREM SetupPagesStay == Spec => []ApNotLost
  BY Invariance, PTL DEF IInv

\* Credentials are wiped only after every attempt of every cycle has failed.
THEOREM WipedLast == Spec => NoEarlyWipe
<1>1. ASSUME IInv, CountdownOver
      PROVE  failed >= (IF hasSaved THEN AllAttempts
                        ELSE IF fsReady THEN MaxSdkAttempts
                        ELSE (MaxCycles + 1) * MaxSdkAttempts)
  <2>1. failed = (cycles + 1) * PerCycle /\ ((hasSaved \/ ~fsReady) => cycles = MaxCycles)
    BY <1>1 DEF IInv, Accounting, InOrder, CountdownOver
  <2>2. cycles \in Nat /\ MaxSavedAttempts \in Nat /\ MaxSdkAttempts \in Nat
    BY <1>1, WifiSetupAssumption DEF IInv, CountersOK
  <2>3. (cycles + 1) * PerCycle = cycles * PerCycle + PerCycle /\ cycles * PerCycle \in Nat
    BY <1>1, CycleBound DEF IInv
  <2>4. CASE hasSaved
    <3>1. PerCycle = MaxSavedAttempts + MaxSdkAttempts /\ cycles = MaxCycles
      BY <2>1, <2>4 DEF PerCycle
    <3>2. failed = AllAttempts
      BY <2>1, <3>1 DEF AllAttempts
    <3>3. AllAttempts \in Nat
      BY <1>1, CycleBound DEF IInv
    <3> QED
      BY <2>4, <3>2, <3>3
  <2>5. CASE ~hasSaved
    <3>1. PerCycle = MaxSdkAttempts
      BY <2>2, <2>5 DEF PerCycle
    <3>2. fsReady => failed >= MaxSdkAttempts
      BY <2>1, <2>2, <2>3, <3>1
    <3>3. ~fsReady => failed = (MaxCycles + 1) * MaxSdkAttempts /\ failed \in Nat
      BY <1>1, <2>1, <3>1 DEF IInv, CountersOK
    <3> QED
      BY <2>5, <3>2, <3>3
  <2> QED
    BY <2>4, <2>5
<1>2. IInv /\ [Next]_vars =>
         [CountdownOver => failed >= (IF hasSaved THEN AllAttempts
                                      ELSE IF fsReady THEN MaxSdkAttempts
                                      ELSE (MaxCycles + 1) * MaxSdkAttempts)]_vars
  BY <1>1
<1> QED
  BY <1>2, Invariance, PTL DEF Spec, NoEarlyWipe

\* Success is reported for the network that was submitted last.
THEOREM ReportIsTrue == Spec => ReportsNetworkTried
<1>1. IInv /\ [Next]_vars => [ApplySuccess => station = ssid /\ wifiFile \in {ssid, None}]_vars
  BY DEF IInv, Applying, ApplyBusy, ApplySuccess
<1> QED
  BY <1>1, Invariance, PTL DEF Spec, ReportsNetworkTried

-----------------------------------------------------------------------------
(* Startup comes to an end: each of its steps uses up some of what is left. *)

Trying == Pausing \cup Waiting \cup {"INIT"}

\* The steps up to the next attempt, timeout or end, by state.
StepsLeft(s) ==
    CASE s = "TRY_SAVED_WAIT" -> 3
      [] s \in {"INIT", "TRY_SAVED_DELAY", "TRY_SDK_WAIT", "RESET_COUNTDOWN"} -> 2
      [] s \in {"TRY_SAVED_START", "TRY_SDK_DELAY", "ENTER_AP", "WIFI_CONNECTED_DELAY"} -> 1
      [] OTHER -> 0

\* What is left of this cycle, and what a further cycle adds at most: three steps
\* (start, wait, pause) for each attempt.
AttemptSteps == 3 * (MaxSavedAttempts - savedAttempts) + 3 * (MaxSdkAttempts - sdkAttempts)
CycleSteps   == 3 * MaxSavedAttempts + 3 * MaxSdkAttempts + 3

\* A bound on the steps of processStartup() until DONE.
StartupRank ==
    StepsLeft(startup) +
    (IF startup \in Trying THEN 3 + (MaxCycles - cycles) * CycleSteps + AttemptSteps ELSE 0)

LEMMA StepsLeftValue == \A s : StepsLeft(s) \in 0..3
  BY DEF StepsLeft

LEMMA CyclesLeft == \A c \in 0..MaxCycles : MaxCycles - c \in Nat
  BY WifiSetupAssumption

LEMMA RankParts ==
    ASSUME CountersOK
    PROVE  /\ CycleSteps \in Nat /\ AttemptSteps \in 0..(CycleSteps - 3)
           /\ (MaxCycles - cycles) * CycleSteps \in Nat
           /\ StartupRank \in Nat
<1>1. CycleSteps \in Nat /\ AttemptSteps \in 0..(CycleSteps - 3)
  BY WifiSetupAssumption DEF CountersOK, CycleSteps, AttemptSteps
<1>2. MaxCycles - cycles \in Nat
  BY CyclesLeft DEF CountersOK
<1>3. (MaxCycles - cycles) * CycleSteps \in Nat
  BY <1>1, <1>2, OneMore
<1>4. StepsLeft(startup) \in 0..3
  BY StepsLeftValue
<1> QED
  BY <1>1, <1>3, <1>4 DEF StartupRank

\* The rank of a state in which attempts go on, without its products.
LEMMA TryingRank ==
    ASSUME CountersOK, CountersOK', startup \in Trying, startup' \in Trying,
           \/ cycles' = cycles /\ StepsLeft(startup') + AttemptSteps' < StepsLeft(startup) + AttemptSteps
           \/ cycles' = cycles + 1 /\ StepsLeft(startup') <= 2
    PROVE  StartupRank' < StartupRank
<1>1. CycleSteps \in Nat /\ CycleSteps' = CycleSteps
      /\ AttemptSteps \in 0..(CycleSteps - 3) /\ AttemptSteps' \in 0..(CycleSteps - 3)
  BY RankParts, WifiSetupAssumption DEF CountersOK, CycleSteps, AttemptSteps
<1>2. StepsLeft(startup) \in 0..3 /\ StepsLeft(startup') \in 0..3
  BY StepsLeftValue
<1>3. PICK left \in Nat : left = MaxCycles - cycles
  BY CyclesLeft DEF CountersOK
<1>4. PICK after \in Nat : after = MaxCycles - cycles'
  BY CyclesLeft DEF CountersOK
<1>5. left * CycleSteps \in Nat /\ after * CycleSteps \in Nat
  BY <1>1, OneMore
<1>6. StartupRank = StepsLeft(startup) + 3 + left * CycleSteps + AttemptSteps
  BY <1>1, <1>2, <1>3, <1>5 DEF StartupRank
<1>7. StartupRank' = StepsLeft(startup') + 3 + after * CycleSteps + AttemptSteps'
  BY <1>1, <1>2, <1>4, <1>5 DEF StartupRank
<1>8. CASE cycles' = cycles /\ StepsLeft(startup') + AttemptSteps' < StepsLeft(startup) + AttemptSteps
  <2>1. after = left
    BY <1>3, <1>4, <1>8
  <2> QED
    BY <1>1, <1>2, <1>5, <1>6, <1>7, <1>8, <2>1
<1>9. CASE cycles' = cycles + 1 /\ StepsLeft(startup') <= 2
  <2>1. left = after + 1
    BY <1>3, <1>4, <1>9, WifiSetupAssumption DEF CountersOK
  <2>2. left * CycleSteps = after * CycleSteps + CycleSteps
    BY <1>1, <2>1, OneMore
  <2> QED
    BY <1>1, <1>2, <1>5, <1>6, <1>7, <1>9, <2>2
<1> QED
  BY <1>8, <1>9

\* From an attempt or a pause to the states past them.
LEMMA PastTrying ==
    ASSUME CountersOK, startup \in Trying, startup' \notin Trying, startup' \in StartupStates
    PROVE  StartupRank' < StartupRank
<1>1. StartupRank >= 3 /\ StartupRank \in Nat
  <2>1. StartupRank = StepsLeft(startup) + 3 + (MaxCycles - cycles) * CycleSteps + AttemptSteps
    BY RankParts, StepsLeftValue DEF StartupRank
  <2> QED
    BY <2>1, RankParts, StepsLeftValue
<1>2. StartupRank' = StepsLeft(startup') /\ StepsLeft(startup') <= 2
  BY DEF StartupRank, StepsLeft, StartupStates, Trying, Pausing, Waiting
<1>3. StepsLeft(startup') \in 0..3
  BY StepsLeftValue
<1> QED
  BY <1>1, <1>2, <1>3

\* Another cycle, or the countdown.
LEMMA NextCycleRank ==
    ASSUME CountersOK, CountersOK', NextCycleOrCountdown, startup \in Trying
    PROVE  StartupRank' < StartupRank
<1>1. CASE startup' = "RESET_COUNTDOWN"
  BY <1>1, PastTrying DEF Trying, Pausing, Waiting, StartupStates
<1>2. CASE startup' = "TRY_SAVED_DELAY" /\ cycles' = cycles + 1
  <2>1. StepsLeft(startup') <= 2 /\ startup' \in Trying
    BY <1>2 DEF StepsLeft, Trying, Pausing, Waiting
  <2> QED
    BY <1>2, <2>1, TryingRank
<1> QED
  BY <1>1, <1>2 DEF NextCycleOrCountdown

\* An attempt uses up the three steps it has.
LEMMA AttemptCounts ==
    \A m, n, a, b \in Int : /\ 3 * (m - (a + 1)) + 3 * (n - b) = 3 * (m - a) + 3 * (n - b) - 3
                            /\ 3 * (m - a) + 3 * (n - (b + 1)) = 3 * (m - a) + 3 * (n - b) - 3
  OBVIOUS

LEMMA AttemptBegun ==
    ASSUME CountersOK,
           \/ savedAttempts' = savedAttempts + 1 /\ sdkAttempts' = sdkAttempts
           \/ sdkAttempts' = sdkAttempts + 1 /\ savedAttempts' = savedAttempts
    PROVE  AttemptSteps' = AttemptSteps - 3 /\ AttemptSteps \in Int
<1>1. {MaxSavedAttempts, MaxSdkAttempts, savedAttempts, sdkAttempts} \subseteq Int
  BY WifiSetupAssumption DEF CountersOK
<1>2. AttemptSteps' = AttemptSteps - 3
  BY <1>1, AttemptCounts DEF AttemptSteps
<1> QED
  BY <1>2, RankParts

\* Each step of processStartup() uses up some of the rank.
LEMMA StartupAdvances ==
    ASSUME IInv, IInv', ProcessStartup
    PROVE  StartupRank' < StartupRank
<1>0. CountersOK /\ CountersOK'
  BY DEF IInv
<1>1. CASE Setup
  <2>1. startup = "INIT" /\ startup' \in {"TRY_SAVED_START", "TRY_SDK_START"}
        /\ UNCHANGED <<cycles, savedAttempts, sdkAttempts>>
    BY <1>1 DEF Setup
  <2>2. StepsLeft(startup') < StepsLeft(startup)
    BY <2>1 DEF StepsLeft
  <2>3. AttemptSteps' = AttemptSteps /\ AttemptSteps \in Int
    BY <1>0, <2>1, RankParts DEF AttemptSteps
  <2>4. StepsLeft(startup') + AttemptSteps' < StepsLeft(startup) + AttemptSteps
    BY <2>2, <2>3, StepsLeftValue
  <2> QED
    BY <1>0, <2>1, <2>4, TryingRank DEF Trying, Pausing, Waiting
<1>2. CASE TrySavedStart
  <2>0. startup = "TRY_SAVED_START" /\ UNCHANGED <<cycles, sdkAttempts>>
    BY <1>2 DEF TrySavedStart
  <2>1. CASE hasSaved /\ savedAttempts < MaxSavedAttempts
    <3>1. startup' = "TRY_SAVED_WAIT" /\ savedAttempts' = savedAttempts + 1
      BY <1>2, <2>1 DEF TrySavedStart
    <3>2. StepsLeft(startup') = StepsLeft(startup) + 2 /\ StepsLeft(startup) \in Int
      BY <2>0, <3>1 DEF StepsLeft
    <3>3. AttemptSteps' = AttemptSteps - 3 /\ AttemptSteps \in Int
      BY <1>0, <2>0, <3>1, AttemptBegun
    <3>4. StepsLeft(startup') + AttemptSteps' < StepsLeft(startup) + AttemptSteps
      BY <3>2, <3>3
    <3> QED
      BY <1>0, <2>0, <3>1, <3>4, TryingRank DEF Trying, Pausing, Waiting
  <2>2. CASE ~(hasSaved /\ savedAttempts < MaxSavedAttempts)
    <3>1. startup' = "TRY_SDK_START" /\ savedAttempts' = savedAttempts
      BY <1>2, <2>2 DEF TrySavedStart
    <3>2. StepsLeft(startup') = StepsLeft(startup) - 1 /\ StepsLeft(startup) \in Int
      BY <2>0, <3>1 DEF StepsLeft
    <3>3. AttemptSteps' = AttemptSteps /\ AttemptSteps \in Int
      BY <1>0, <2>0, <3>1, RankParts DEF AttemptSteps
    <3>4. StepsLeft(startup') + AttemptSteps' < StepsLeft(startup) + AttemptSteps
      BY <3>2, <3>3
    <3> QED
      BY <1>0, <2>0, <3>1, <3>4, TryingRank DEF Trying, Pausing, Waiting
  <2> QED
    BY <2>1, <2>2
<1>3. CASE TrySdkStart
  <2>0. startup = "TRY_SDK_START"
    BY <1>3 DEF TrySdkStart
  <2>1. CASE sdkAttempts < MaxSdkAttempts
    <3>1. startup' = "TRY_SDK_WAIT" /\ sdkAttempts' = sdkAttempts + 1 /\ UNCHANGED <<cycles, savedAttempts>>
      BY <1>3, <2>1 DEF TrySdkStart
    <3>2. StepsLeft(startup') = StepsLeft(startup) + 2 /\ StepsLeft(startup) \in Int
      BY <2>0, <3>1 DEF StepsLeft
    <3>3. AttemptSteps' = AttemptSteps - 3 /\ AttemptSteps \in Int
      BY <1>0, <3>1, AttemptBegun
    <3>4. StepsLeft(startup') + AttemptSteps' < StepsLeft(startup) + AttemptSteps
      BY <3>2, <3>3
    <3> QED
      BY <1>0, <2>0, <3>1, <3>4, TryingRank DEF Trying, Pausing, Waiting
  <2>2. CASE ~(sdkAttempts < MaxSdkAttempts)
    BY <1>0, <1>3, <2>0, <2>2, NextCycleRank DEF TrySdkStart, Trying, Pausing
  <2> QED
    BY <2>1, <2>2
<1>4. CASE TryConnected
  BY <1>0, <1>4, PastTrying DEF TryConnected, Trying, Pausing, Waiting, StartupStates
<1>5. CASE TryTimedOut
  <2>0. startup \in {"TRY_SAVED_WAIT", "TRY_SDK_WAIT"}
    BY <1>5 DEF TryTimedOut
  <2>1. CASE NextCycleOrCountdown
    BY <1>0, <2>0, <2>1, NextCycleRank DEF Trying, Waiting
  <2>2. CASE ~NextCycleOrCountdown
    <3>1. /\ UNCHANGED <<cycles, savedAttempts, sdkAttempts>>
          /\ \/ startup = "TRY_SAVED_WAIT" /\ startup' \in {"TRY_SAVED_DELAY", "TRY_SDK_START"}
             \/ startup = "TRY_SDK_WAIT" /\ startup' = "TRY_SDK_DELAY"
      BY <1>5, <2>0, <2>2 DEF TryTimedOut
    <3>2. StepsLeft(startup') < StepsLeft(startup)
      BY <3>1 DEF StepsLeft
    <3>3. AttemptSteps' = AttemptSteps /\ AttemptSteps \in Int
      BY <1>0, <3>1, RankParts DEF AttemptSteps
    <3>4. StepsLeft(startup') + AttemptSteps' < StepsLeft(startup) + AttemptSteps
      BY <3>2, <3>3, StepsLeftValue
    <3> QED
      BY <1>0, <3>1, <3>4, TryingRank DEF Trying, Pausing, Waiting
  <2> QED
    BY <2>1, <2>2
<1>6. CASE DelayOver
  <2>1. /\ UNCHANGED <<cycles, savedAttempts, sdkAttempts>>
        /\ \/ startup = "TRY_SAVED_DELAY" /\ startup' = "TRY_SAVED_START"
           \/ startup = "TRY_SDK_DELAY" /\ startup' = "TRY_SDK_START"
    BY <1>6 DEF DelayOver
  <2>2. StepsLeft(startup') < StepsLeft(startup)
    BY <2>1 DEF StepsLeft
  <2>3. AttemptSteps' = AttemptSteps /\ AttemptSteps \in Int
    BY <1>0, <2>1, RankParts DEF AttemptSteps
  <2>4. StepsLeft(startup') + AttemptSteps' < StepsLeft(startup) + AttemptSteps
    BY <2>2, <2>3, StepsLeftValue
  <2> QED
    BY <1>0, <2>1, <2>4, TryingRank DEF Trying, Pausing
<1>7. CASE StartMonitorMode \/ CountdownOver \/ EnterAp
  <2>1. \/ startup = "WIFI_CONNECTED_DELAY" /\ startup' = "DONE"
        \/ startup = "RESET_COUNTDOWN" /\ startup' = "ENTER_AP"
        \/ startup = "ENTER_AP" /\ startup' = "DONE"
    BY <1>7 DEF StartMonitorMode, CountdownOver, EnterAp
  <2>2. StartupRank = StepsLeft(startup) + 0 /\ StartupRank' = StepsLeft(startup') + 0
    BY <2>1 DEF StartupRank, Trying, Pausing, Waiting
  <2> QED
    BY <2>1, <2>2 DEF StepsLeft
<1> QED
  BY <1>1, <1>2, <1>3, <1>4, <1>5, <1>6, <1>7 DEF ProcessStartup

\* What else happens leaves the startup where it is, but for a boot.
LEMMA OthersLeaveRank ==
    ASSUME (Web /\ ~Restart) \/ ReachChange
    PROVE  StartupRank' = StartupRank
<1>1. UNCHANGED <<startup, cycles, savedAttempts, sdkAttempts>>
  BY DEF Web, OpenWizard, HandleWifiSave, ApplyStart, ApplySuccess, ApplyTimedOut, DeferredSave,
         SaveMonitorConfig, CompleteSetup, RequestReboot, FactoryReset, Serving, ReachChange, startupVars
<1> QED
  BY <1>1 DEF StartupRank, AttemptSteps, CycleSteps

\* Startup is bounded: however networks come and go and whatever fails, each step of
\* processStartup() lowers a natural number that only a boot sets back, so that a
\* boot reaches DONE after a bounded number of them.  This is StartupEnds without the
\* fairness that says that the main loop goes on.
THEOREM StartupIsBounded ==
    Spec => /\ [](StartupRank \in Nat)
            /\ [][ProcessStartup => StartupRank' < StartupRank]_vars
            /\ [][ProcessStartup \/ Restart \/ PowerCycle \/ StartupRank' = StartupRank]_vars
<1>1. IInv => StartupRank \in Nat
  BY RankParts DEF IInv
<1>2. IInv /\ IInv' /\ [Next]_vars => [ProcessStartup => StartupRank' < StartupRank]_vars
  BY StartupAdvances
<1>3. [Next]_vars => [ProcessStartup \/ Restart \/ PowerCycle \/ StartupRank' = StartupRank]_vars
  BY OthersLeaveRank DEF Next
<1> QED
  BY <1>1, <1>2, <1>3, Invariance, PTL DEF Spec

-----------------------------------------------------------------------------
(* So does the trial of submitted credentials. *)

\* A bound on the steps of processPendingWifiApply() until the next submission.
ApplyRank ==
    2 * (MaxApplyAttempts - applyAttempts) +
    (IF applyState = "CONNECTING" THEN 2
     ELSE IF applyState \in {"PENDING_START", "RETRY_WAIT"} THEN 1 ELSE 0)

ProcessApply == ApplyStart \/ ApplySuccess \/ ApplyTimedOut

LEMMA ApplyRankFalls ==
    ASSUME IInv, ProcessApply
    PROVE  ApplyRank' < ApplyRank
<1>0. MaxApplyAttempts \in Int /\ applyAttempts \in Int
  BY WifiSetupAssumption DEF IInv, CountersOK
<1>1. CASE ApplyStart
  <2>1. applyState \in {"PENDING_START", "RETRY_WAIT"} /\ applyState' = "CONNECTING"
        /\ applyAttempts' = applyAttempts + 1
    BY <1>1 DEF ApplyStart
  <2> QED
    BY <1>0, <2>1 DEF ApplyRank
<1>2. CASE ApplySuccess \/ ApplyTimedOut
  <2>1. applyState = "CONNECTING" /\ applyState' \in {"SUCCESS", "RETRY_WAIT", "FAILED"}
        /\ applyAttempts' = applyAttempts
    BY <1>2 DEF ApplySuccess, ApplyTimedOut
  <2> QED
    BY <1>0, <2>1 DEF ApplyRank
<1> QED
  BY <1>1, <1>2 DEF ProcessApply

LEMMA ApplyRankStands ==
    ASSUME IInv, Next, ~ProcessApply, ~HandleWifiSave, ~Restart, ~PowerCycle
    PROVE  ApplyRank' = ApplyRank
<1>1. UNCHANGED <<applyState, applyAttempts>>
  <2>1. ProcessStartup => UNCHANGED <<applyState, applyAttempts>>
    BY DEF ProcessStartup, TrySavedStart, TrySdkStart, TryConnected, TryTimedOut, DelayOver,
           StartMonitorMode, CountdownOver, EnterAp, Setup, webVars
  <2> QED
    BY <2>1 DEF Next, Web, ProcessApply, OpenWizard, DeferredSave, SaveMonitorConfig, CompleteSetup,
                RequestReboot, FactoryReset, ReachChange, webVars
<1> QED
  BY <1>1 DEF ApplyRank

\* Submitted credentials are not tried for ever: each step of
\* processPendingWifiApply() lowers a natural number that only a new submission
\* or a boot sets back, so the page gets its answer, success or the access point.
THEOREM ApplyIsBounded ==
    Spec => /\ [](ApplyRank \in Nat)
            /\ [][ProcessApply => ApplyRank' < ApplyRank]_vars
            /\ [][ProcessApply \/ HandleWifiSave \/ Restart \/ PowerCycle
                  \/ ApplyRank' = ApplyRank]_vars
<1>1. IInv => ApplyRank \in Nat
  BY WifiSetupAssumption DEF IInv, CountersOK, ApplyRank
<1>2. IInv /\ [Next]_vars => [ProcessApply => ApplyRank' < ApplyRank]_vars
  BY ApplyRankFalls
<1>3. IInv /\ [Next]_vars => [ProcessApply \/ HandleWifiSave \/ Restart \/ PowerCycle
                              \/ ApplyRank' = ApplyRank]_vars
  BY ApplyRankStands
<1> QED
  BY <1>1, <1>2, <1>3, Invariance, PTL DEF Spec

-----------------------------------------------------------------------------
(* How far the network of the SDK leads. *)

\* Where WiFi.disconnect() forgets the stored network, the attempts with it that
\* come after a disconnect have nothing to join.
Erased ==
    /\ startup = "TRY_SDK_WAIT" => station = None
    /\ startup = "WIFI_CONNECTED_DELAY" => hasSaved
    /\ mode = "MONITOR" => startup = "DONE" /\ hasSaved

LEMMA StartupErased ==
    ASSUME DisconnectErases = {TRUE}, IInv, Erased, ProcessStartup
    PROVE  Erased'
<1>1. CASE Setup
  BY <1>1 DEF Setup, Erased
<1>2. CASE TrySavedStart
  BY <1>2 DEF TrySavedStart, Erased
<1>3. CASE TrySdkStart
  BY <1>3 DEF TrySdkStart, JoinStored, DropNetwork, NextCycleOrCountdown, Erased
<1>4. CASE TryConnected
  <2>1. None \notin reachable
    BY WifiSetupAssumption DEF IInv, NamesOK
  <2>2. startup = "TRY_SAVED_WAIT" /\ hasSaved
    BY <1>4, <2>1 DEF TryConnected, Joined, Linked, Erased, IInv, InOrder
  <2> QED
    BY <1>4, <2>2 DEF TryConnected, Erased
<1>5. CASE TryTimedOut
  <2>1. startup' \in {"TRY_SAVED_DELAY", "TRY_SDK_START", "TRY_SDK_DELAY", "RESET_COUNTDOWN"}
        /\ startup # "DONE" /\ mode' = mode
    BY <1>5 DEF TryTimedOut, NextCycleOrCountdown
  <2> QED
    BY <2>1 DEF Erased
<1>6. CASE DelayOver
  BY <1>6 DEF DelayOver, Erased
<1>7. CASE StartMonitorMode \/ CountdownOver \/ EnterAp
  BY <1>7 DEF StartMonitorMode, CountdownOver, EnterAp, Erased
<1> QED
  BY <1>1, <1>2, <1>3, <1>4, <1>5, <1>6, <1>7 DEF ProcessStartup

LEMMA OthersErased ==
    ASSUME Erased, Web \/ ReachChange \/ PowerCycle \/ UNCHANGED vars
    PROVE  Erased'
<1>1. CASE UNCHANGED <<startup, hasSaved, mode>> /\ (startup = "DONE" \/ UNCHANGED station)
  BY <1>1 DEF Erased
<1>2. CASE Restart \/ PowerCycle
  BY <1>2 DEF Restart, PowerCycle, PowerOn, Erased
<1> QED
  BY <1>1, <1>2 DEF Web, OpenWizard, HandleWifiSave, ApplyStart, ApplySuccess, ApplyTimedOut, DeferredSave,
         SaveMonitorConfig, CompleteSetup, RequestReboot, FactoryReset, Serving, ReachChange, startupVars, vars

\* A reset on a mounted file system leaves no file to the boot after it, unless new
\* credentials are saved before the restart.
ResetPending == pendingRestart /\ cause = "reset"
NoFileLeft ==
    /\ fsReady
    /\ ResetPending => wifiFile = None
    /\ afterReset => ~hasSaved /\ (startup # "DONE" => wifiFile = None)

LEMMA StartupNoFile ==
    ASSUME NoFileLeft, ProcessStartup
    PROVE  NoFileLeft'
<1>1. UNCHANGED <<fsReady, cause, pendingRestart, afterReset>>
  BY DEF ProcessStartup, Setup, TrySavedStart, TrySdkStart, TryConnected, TryTimedOut, DelayOver,
         StartMonitorMode, CountdownOver, EnterAp, webVars
<1>2. startup # "DONE"
  BY DEF ProcessStartup, Setup, TrySavedStart, TrySdkStart, TryConnected, TryTimedOut, DelayOver,
         StartMonitorMode, CountdownOver, EnterAp
<1>3. wifiFile' = wifiFile \/ wifiFile' = None
  BY DEF ProcessStartup, Setup, TrySavedStart, TrySdkStart, TryConnected, TryTimedOut, DelayOver,
         StartMonitorMode, CountdownOver, EnterAp, flashVars
<1>4. hasSaved' => hasSaved \/ wifiFile # None
  BY DEF ProcessStartup, Setup, LoadConfig, TrySavedStart, TrySdkStart, TryConnected, TryTimedOut,
         DelayOver, StartMonitorMode, CountdownOver, EnterAp
<1> QED
  BY <1>1, <1>2, <1>3, <1>4 DEF NoFileLeft, ResetPending

LEMMA OthersNoFile ==
    ASSUME Mounts = {TRUE}, NoFileLeft, Web \/ ReachChange \/ PowerCycle \/ UNCHANGED vars,
           ~(HandleWifiSave /\ ResetPending)
    PROVE  NoFileLeft'
<1>1. CASE UNCHANGED <<fsReady, hasSaved, startup, afterReset>> /\ startup = "DONE"
           /\ (ResetPending' => wifiFile' = None)
  BY <1>1 DEF NoFileLeft
<1>2. CASE HandleWifiSave
  BY <1>1, <1>2 DEF HandleWifiSave, Serving, startupVars, ResetPending
<1>3. CASE FactoryReset
  BY <1>1, <1>3 DEF FactoryReset, Serving, RestartFor, startupVars, NoFileLeft
<1>4. CASE Restart \/ PowerCycle
  <2>1. fsReady'
    BY <1>4, Zenon DEF Restart, PowerCycle, PowerOn, MountStorage
  <2>2. /\ ~ResetPending' /\ hasSaved' = FALSE /\ wifiFile' = wifiFile
        /\ afterReset' = FALSE \/ afterReset' = (cause = "reset")
    BY <1>4 DEF Restart, PowerCycle, PowerOn, flashVars, ResetPending
  <2>3. afterReset' => wifiFile' = None
    BY <1>4, <2>2 DEF Restart, PowerCycle, NoFileLeft, ResetPending
  <2> QED
    BY <2>1, <2>2, <2>3 DEF NoFileLeft
<1>5. CASE UNCHANGED <<fsReady, hasSaved, startup, afterReset, cause, pendingRestart, wifiFile>>
  BY <1>5 DEF NoFileLeft, ResetPending
<1>6. CASE OpenWizard \/ ApplyStart \/ ApplySuccess \/ ApplyTimedOut
           \/ DeferredSave \/ SaveMonitorConfig \/ CompleteSetup \/ RequestReboot
  <2>1. /\ UNCHANGED <<fsReady, hasSaved, startup, afterReset, wifiFile>> /\ startup = "DONE"
    BY <1>6 DEF OpenWizard, ApplyStart, ApplySuccess, ApplyTimedOut, DeferredSave, SaveMonitorConfig,
                CompleteSetup, RequestReboot, Serving, startupVars, flashVars, webVars
  <2>2. UNCHANGED <<pendingRestart, cause>> \/ cause' \in {"wifi", "config", "complete", "reboot"}
    BY <1>6 DEF OpenWizard, ApplyStart, ApplySuccess, ApplyTimedOut, DeferredSave, SaveMonitorConfig,
                CompleteSetup, RequestReboot, StoreMonitorFile, RestartFor, webVars
  <2>3. ResetPending' => ResetPending
    BY <2>2 DEF ResetPending
  <2> QED
    BY <1>1, <2>1, <2>3 DEF NoFileLeft
<1>7. CASE ReachChange \/ UNCHANGED vars
  BY <1>5, <1>7 DEF ReachChange, flashVars, startupVars, webVars, vars
<1> QED
  BY <1>2, <1>3, <1>4, <1>6, <1>7 DEF Web

\* How far the disagreement with ResetLeadsToAp goes: where WiFi.disconnect() forgets
\* the stored network and the file system mounts, only credentials saved between the
\* reset and its restart can lead the next boot anywhere but to AP mode.
THEOREM ResetConfined ==
    DisconnectErases = {TRUE} /\ Mounts = {TRUE} =>
        (Spec /\ [][~(HandleWifiSave /\ ResetPending)]_vars => []ResetLeadsToAp)
<1> SUFFICES ASSUME DisconnectErases = {TRUE}, Mounts = {TRUE}
             PROVE  Spec /\ [][~(HandleWifiSave /\ ResetPending)]_vars => []ResetLeadsToAp
  OBVIOUS
<1>1. Init => Erased /\ NoFileLeft
  <2>1. Init => fsReady
    BY Zenon DEF Init
  <2>2. Init => Erased /\ ~afterReset /\ ~ResetPending
    BY DEF Init, Erased, ResetPending
  <2> QED
    BY <2>1, <2>2 DEF NoFileLeft
<1>2. IInv /\ Erased /\ [Next]_vars => Erased'
  BY StartupErased, OthersErased DEF Next
<1>3. NoFileLeft /\ [Next]_vars /\ [~(HandleWifiSave /\ ResetPending)]_vars => NoFileLeft'
  <2>1. NoFileLeft /\ UNCHANGED vars => NoFileLeft'
    BY DEF NoFileLeft, ResetPending, vars, flashVars, startupVars, webVars
  <2> QED
    BY <2>1, StartupNoFile, OthersNoFile DEF Next
<1>4. IInv /\ Erased /\ NoFileLeft => ResetLeadsToAp
  BY DEF IInv, NamesOK, Erased, NoFileLeft, ResetLeadsToAp
<1> QED
  BY <1>1, <1>2, <1>3, <1>4, Invariance, PTL DEF Spec

-----------------------------------------------------------------------------
(* A saved network that is in reach. *)

\* The one way through a startup with a saved network whose joins succeed.
SavedPath ==
    hasSaved =>
        /\ startup \in {"TRY_SAVED_START", "TRY_SAVED_WAIT", "WIFI_CONNECTED_DELAY", "DONE"}
        /\ startup = "TRY_SAVED_START" => savedAttempts = 0 /\ ssid \in Ssids
        /\ startup = "TRY_SAVED_WAIT" => station \in Ssids
        /\ startup = "DONE" => mode = "MONITOR"

LEMMA StartupOnPath ==
    ASSUME IInv, SavedPath, reachable = Ssids, ProcessStartup
    PROVE  SavedPath'
<1>1. CASE Setup
  <2>1. hasSaved' => wifiFile \in Ssids /\ ssid' = wifiFile
    BY <1>1 DEF Setup, LoadConfig, IInv, NamesOK
  <2>2. savedAttempts' = 0 /\ (hasSaved' => startup' = "TRY_SAVED_START")
    BY <1>1 DEF Setup, IInv, Accounting
  <2> QED
    BY <2>1, <2>2 DEF SavedPath
<1>2. CASE TrySavedStart
  <2>1. hasSaved => startup' = "TRY_SAVED_WAIT" /\ station' = ssid /\ ssid \in Ssids
    BY <1>2, WifiSetupAssumption DEF TrySavedStart, JoinSaved, SavedPath
  <2> QED
    BY <1>2, <2>1 DEF TrySavedStart, SavedPath
<1>3. CASE TryConnected
  BY <1>3 DEF TryConnected, SavedPath
<1>4. CASE TryTimedOut
  <2>1. startup \in {"TRY_SAVED_WAIT", "TRY_SDK_WAIT"} /\ station \notin Ssids /\ hasSaved' = hasSaved
    BY <1>4 DEF TryTimedOut, Linked
  <2> QED
    BY <2>1 DEF SavedPath
<1>5. CASE TrySdkStart \/ DelayOver
  BY <1>5 DEF TrySdkStart, DelayOver, SavedPath
<1>6. CASE StartMonitorMode \/ CountdownOver \/ EnterAp
  BY <1>6 DEF StartMonitorMode, CountdownOver, EnterAp, SavedPath
<1> QED
  BY <1>1, <1>2, <1>3, <1>4, <1>5, <1>6 DEF ProcessStartup

LEMMA OthersOnPath ==
    ASSUME SavedPath, Web \/ ReachChange \/ PowerCycle \/ UNCHANGED vars
    PROVE  SavedPath'
<1>1. CASE UNCHANGED <<startup, hasSaved, mode, savedAttempts>> /\ (startup = "DONE" \/ UNCHANGED <<station, ssid>>)
  BY <1>1 DEF SavedPath
<1>2. CASE Restart \/ PowerCycle
  BY <1>2 DEF Restart, PowerCycle, PowerOn, SavedPath
<1> QED
  BY <1>1, <1>2 DEF Web, OpenWizard, HandleWifiSave, ApplyStart, ApplySuccess, ApplyTimedOut, DeferredSave,
         SaveMonitorConfig, CompleteSetup, RequestReboot, FactoryReset, Serving, ReachChange, startupVars, vars

\* While all networks stay in reach, a device with a saved one neither wipes it nor
\* ends in AP mode, through any number of boots, requests and storage failures.  With
\* StartupIsBounded this is SavedNetworkJoined without its fairness.
THEOREM SavedNetworkKept ==
    Spec /\ [](reachable = Ssids) =>
        /\ [](hasSaved /\ startup = "DONE" => mode = "MONITOR")
        /\ [][CountdownOver => ~hasSaved]_vars
<1>1. Init => SavedPath
  BY DEF Init, SavedPath
<1>2. IInv /\ SavedPath /\ reachable = Ssids /\ [Next]_vars => SavedPath'
  BY StartupOnPath, OthersOnPath DEF Next
<1>3. SavedPath => (hasSaved /\ startup = "DONE" => mode = "MONITOR")
  BY DEF SavedPath
<1>4. SavedPath => [CountdownOver => ~hasSaved]_vars
  BY DEF SavedPath, CountdownOver
<1> QED
  BY <1>1, <1>2, <1>3, <1>4, Invariance, PTL DEF Spec
=============================================================================
