------------------------------ MODULE WifiSetup ------------------------------
(***************************************************************************)
(* How the monitor gets onto WiFi: the startup state machine of main.cpp,  *)
(* the connection attempts of WiFiManager, the access-point (AP) mode with *)
(* the credentials a user submits there (WebServerManager), and the        *)
(* restarts and resets that lead from one boot to the next.                *)
(*                                                                         *)
(* Deadlines (10 s per attempt, 1-3 s pauses, the 10 s countdown) are      *)
(* steps that may come at any time: no property here is about durations.   *)
(* The station of the radio joins the network it was told to join whenever *)
(* that network is in reach.                                               *)
(***************************************************************************)
EXTENDS ConnectionPolicy, FiniteSets

CONSTANTS Ssids,               \* network names
          None,                \* no network name
          MaxSavedAttempts,    \* MAX_SAVED_CONNECT_ATTEMPTS
          MaxSdkAttempts,      \* MAX_SDK_CONNECT_ATTEMPTS
          MaxCycles,           \* MAX_WIFI_RECOVERY_CYCLES_WITH_SAVED_CONFIG
          MaxApplyAttempts,    \* 2 in processPendingWifiApply
          DisconnectErases,    \* what WiFi.disconnect() may do: {TRUE} forgets the stored network
          Mounts               \* what LittleFS.begin() may answer

ASSUME WifiSetupAssumption ==
    /\ None \notin Ssids
    /\ {MaxSavedAttempts, MaxSdkAttempts, MaxApplyAttempts} \subseteq Nat \ {0}
    /\ MaxCycles \in Nat
    /\ DisconnectErases \subseteq BOOLEAN /\ DisconnectErases # {}
    /\ Mounts \subseteq BOOLEAN /\ Mounts # {}

VARIABLES
    (* what survives a restart *)
    wifiFile,        \* the network in /wifi.json, None when missing or unreadable
    sdkSsid,         \* the network the SDK keeps in its own flash sector
    monitorFile,     \* setupComplete in the monitor configuration file, None when missing
    (* the radio and its surroundings *)
    reachable,       \* networks in reach
    station,         \* the network the station was told to join
    (* one boot *)
    fsReady,         \* wifiStorageReady
    startup,         \* startupState
    hasSaved,        \* hasSavedWiFiConfig
    ssid,            \* WiFiManager::ssid
    savedAttempts, sdkAttempts, cycles,
    mode,            \* currentMode
    isAPMode,        \* WiFiManager::isAPMode
    setupComplete,   \* config.setupComplete in RAM
    wizardMode,      \* _wizardMode
    applyState, applyAttempts,
    pendingRestart,  \* _pendingRestart
    (* history *)
    failed,          \* connection attempts of this boot that timed out
    cause,           \* which request scheduled the pending restart last
    afterReset       \* this boot follows the restart of a factory reset

flashVars   == <<wifiFile, sdkSsid, monitorFile>>
startupVars == <<startup, hasSaved, savedAttempts, sdkAttempts, cycles, mode, fsReady, failed>>
webVars     == <<setupComplete, wizardMode, applyState, applyAttempts, pendingRestart, cause, afterReset>>
vars == <<flashVars, reachable, station, startupVars, ssid, isAPMode, webVars>>

StartupStates == {"INIT", "TRY_SAVED_START", "TRY_SAVED_WAIT", "TRY_SAVED_DELAY",
                  "TRY_SDK_START", "TRY_SDK_WAIT", "TRY_SDK_DELAY",
                  "WIFI_CONNECTED_DELAY", "RESET_COUNTDOWN", "ENTER_AP", "DONE"}
ApplyStates == {"IDLE", "PENDING_START", "CONNECTING", "RETRY_WAIT", "FAILED", "SUCCESS"}

\* The attempts a boot makes before it gives up on a saved network.
AllAttempts == (MaxCycles + 1) * (MaxSavedAttempts + MaxSdkAttempts)

TypeOK ==
    /\ {wifiFile, sdkSsid, station, ssid} \subseteq Ssids \cup {None}
    /\ monitorFile \in BOOLEAN \cup {None}
    /\ reachable \subseteq Ssids
    /\ {fsReady, hasSaved, isAPMode, setupComplete, wizardMode, pendingRestart, afterReset}
         \subseteq BOOLEAN
    /\ startup \in StartupStates /\ mode \in {"AP_SETUP", "MONITOR"}
    /\ savedAttempts \in 0..MaxSavedAttempts /\ sdkAttempts \in 0..MaxSdkAttempts
    /\ cycles \in 0..MaxCycles
    /\ applyState \in ApplyStates /\ applyAttempts \in 0..MaxApplyAttempts
    /\ failed \in 0..AllAttempts
    /\ cause \in {None, "wifi", "config", "complete", "reboot", "reset"}

Linked == station \in reachable   \* WiFi.status() == WL_CONNECTED

\* A device that was set up before, or a new one.
Init ==
    /\ wifiFile \in Ssids \cup {None} /\ sdkSsid \in {wifiFile, None}
    /\ monitorFile \in {TRUE, None}
    /\ reachable \in SUBSET Ssids
    /\ startup = "INIT" /\ hasSaved = FALSE /\ ssid = None
    /\ savedAttempts = 0 /\ sdkAttempts = 0 /\ cycles = 0
    /\ mode = "AP_SETUP" /\ isAPMode = FALSE
    /\ setupComplete = FALSE /\ wizardMode = FALSE
    /\ applyState = "IDLE" /\ applyAttempts = 0 /\ pendingRestart = FALSE
    /\ station = None /\ failed = 0 /\ cause = None /\ afterReset = FALSE
    /\ fsReady \in Mounts

-----------------------------------------------------------------------------
(* WiFiManager. *)

\* begin(): the file system is mounted, or out of use until the next boot.
MountStorage == fsReady' \in Mounts

\* loadConfig(): a network is saved when the file is there, readable, and names one.
LoadConfig ==
    /\ hasSaved' = (fsReady /\ wifiFile # None)
    /\ ssid' = IF hasSaved' THEN wifiFile ELSE ssid

\* saveConfig(s): written and read back.
SaveConfig(s) == fsReady /\ wifiFile' = s /\ ssid' = s

\* saveConfig(s) fails.  What the file holds then depends on how far it came: the
\* old contents, nothing readable, or the new name although reading it back failed.
SaveConfigFails(s) ==
    /\ wifiFile' \in IF fsReady THEN {wifiFile, None, s} ELSE {wifiFile}
    /\ UNCHANGED ssid

\* Mutant of JoinSaved: a link that is up is kept.
JoinSavedKeepsLink == station' = (IF Linked THEN station ELSE ssid) /\ sdkSsid' = ssid

\* startConnectWiFi(): drop the current network, join the one in /wifi.json; the
\* SDK is told to remember it.
JoinSaved == station' = ssid /\ sdkSsid' = ssid

\* WiFi.disconnect().
DropNetwork == \E erases \in DisconnectErases : sdkSsid' = IF erases THEN None ELSE sdkSsid

\* startConnectStoredWiFi(): drop the current network, join the SDK's own.
JoinStored == DropNetwork /\ station' = sdkSsid'

\* pollConnect() finds the link up; the SDK's network lends its name.
Joined(usingStored) ==
    /\ Linked
    /\ isAPMode' = FALSE
    /\ ssid' = IF usingStored THEN station ELSE ssid

\* startAP().
StartAp == isAPMode' = TRUE

-----------------------------------------------------------------------------
(* setup() and processStartup() of main.cpp. *)

\* RAM as a reset leaves it.
PowerOn ==
    /\ startup' = "INIT" /\ hasSaved' = FALSE /\ ssid' = None
    /\ savedAttempts' = 0 /\ sdkAttempts' = 0 /\ cycles' = 0
    /\ mode' = "AP_SETUP" /\ isAPMode' = FALSE
    /\ setupComplete' = FALSE /\ wizardMode' = FALSE
    /\ applyState' = "IDLE" /\ applyAttempts' = 0 /\ pendingRestart' = FALSE
    /\ station' = None /\ failed' = 0 /\ cause' = None
    /\ MountStorage

\* Mutant of Setup: the file is found but its network name is not kept.
SetupForgetsName ==
    /\ startup = "INIT"
    /\ setupComplete' = (fsReady /\ monitorFile = TRUE)
    /\ hasSaved' = (fsReady /\ wifiFile # None)
    /\ ssid' = None
    /\ startup' = IF hasSaved' THEN "TRY_SAVED_START" ELSE "TRY_SDK_START"
    /\ UNCHANGED <<flashVars, reachable, station, savedAttempts, sdkAttempts, cycles, mode,
                   fsReady, failed, isAPMode, wizardMode, applyState, applyAttempts,
                   pendingRestart, cause, afterReset>>

\* setup(): load both files and choose where to start.
Setup ==
    /\ startup = "INIT"
    /\ setupComplete' = (fsReady /\ monitorFile = TRUE)
    /\ LoadConfig
    /\ startup' = IF hasSaved' THEN "TRY_SAVED_START" ELSE "TRY_SDK_START"
    /\ UNCHANGED <<flashVars, reachable, station, savedAttempts, sdkAttempts, cycles, mode,
                   fsReady, failed, isAPMode, wizardMode, applyState, applyAttempts,
                   pendingRestart, cause, afterReset>>

\* Mutants of NextCycleOrCountdown: a new cycle starts with the old attempt
\* counters; a cycle is neither counted nor given new attempts.
NextCycleKeepsAttempts ==
    IF ShouldEnterApMode(hasSaved, fsReady, cycles, MaxCycles)
    THEN startup' = "RESET_COUNTDOWN" /\ UNCHANGED <<cycles, savedAttempts, sdkAttempts>>
    ELSE startup' = "TRY_SAVED_DELAY" /\ cycles' = cycles + 1
         /\ UNCHANGED <<savedAttempts, sdkAttempts>>
NextCycleUncounted ==
    IF ShouldEnterApMode(hasSaved, fsReady, cycles, MaxCycles)
    THEN startup' = "RESET_COUNTDOWN" /\ UNCHANGED <<cycles, savedAttempts, sdkAttempts>>
    ELSE startup' = "TRY_SAVED_DELAY" /\ UNCHANGED <<cycles, savedAttempts, sdkAttempts>>

\* All attempts of a cycle failed: another cycle, or the countdown.
NextCycleOrCountdown ==
    IF ShouldEnterApMode(hasSaved, fsReady, cycles, MaxCycles)
    THEN startup' = "RESET_COUNTDOWN" /\ UNCHANGED <<cycles, savedAttempts, sdkAttempts>>
    ELSE /\ startup' = "TRY_SAVED_DELAY" /\ cycles' = cycles + 1
         /\ savedAttempts' = 0 /\ sdkAttempts' = 0

TrySavedStart ==
    /\ startup = "TRY_SAVED_START"
    /\ IF hasSaved /\ savedAttempts < MaxSavedAttempts
       THEN /\ savedAttempts' = savedAttempts + 1
            /\ JoinSaved
            /\ startup' = "TRY_SAVED_WAIT"
       ELSE startup' = "TRY_SDK_START" /\ UNCHANGED <<savedAttempts, station, sdkSsid>>
    /\ UNCHANGED <<wifiFile, monitorFile, reachable, hasSaved, sdkAttempts, cycles, mode,
                   fsReady, failed, ssid, isAPMode, webVars>>

TrySdkStart ==
    /\ startup = "TRY_SDK_START"
    /\ IF sdkAttempts < MaxSdkAttempts
       THEN /\ sdkAttempts' = sdkAttempts + 1
            /\ JoinStored
            /\ startup' = "TRY_SDK_WAIT"
            /\ UNCHANGED <<cycles, savedAttempts>>
       ELSE NextCycleOrCountdown /\ UNCHANGED <<station, sdkSsid>>
    /\ UNCHANGED <<wifiFile, monitorFile, reachable, hasSaved, mode, fsReady, failed,
                   ssid, isAPMode, webVars>>

\* pollConnect() succeeds.
TryConnected ==
    /\ startup \in {"TRY_SAVED_WAIT", "TRY_SDK_WAIT"}
    /\ Joined(startup = "TRY_SDK_WAIT")
    /\ startup' = "WIFI_CONNECTED_DELAY"
    /\ cycles' = 0
    /\ UNCHANGED <<flashVars, reachable, station, hasSaved, savedAttempts, sdkAttempts, mode,
                   fsReady, failed, webVars>>

\* pollConnect() times out.
TryTimedOut ==
    /\ startup \in {"TRY_SAVED_WAIT", "TRY_SDK_WAIT"} /\ ~Linked
    /\ failed' = failed + 1
    /\ CASE startup = "TRY_SAVED_WAIT" ->
              /\ startup' = IF savedAttempts < MaxSavedAttempts
                            THEN "TRY_SAVED_DELAY" ELSE "TRY_SDK_START"
              /\ UNCHANGED <<cycles, savedAttempts, sdkAttempts>>
         [] startup = "TRY_SDK_WAIT" /\ sdkAttempts < MaxSdkAttempts ->
              startup' = "TRY_SDK_DELAY" /\ UNCHANGED <<cycles, savedAttempts, sdkAttempts>>
         [] OTHER -> NextCycleOrCountdown
    /\ UNCHANGED <<flashVars, reachable, station, hasSaved, mode, fsReady, ssid, isAPMode, webVars>>

\* A pause has passed.
DelayOver ==
    /\ startup \in {"TRY_SAVED_DELAY", "TRY_SDK_DELAY"}
    /\ startup' = IF startup = "TRY_SAVED_DELAY" THEN "TRY_SAVED_START" ELSE "TRY_SDK_START"
    /\ UNCHANGED <<flashVars, reachable, station, hasSaved, savedAttempts, sdkAttempts, cycles,
                   mode, fsReady, failed, ssid, isAPMode, webVars>>

\* startMonitorMode().
StartMonitorMode ==
    /\ startup = "WIFI_CONNECTED_DELAY"
    /\ startup' = "DONE" /\ mode' = "MONITOR"
    /\ UNCHANGED <<flashVars, reachable, station, hasSaved, savedAttempts, sdkAttempts, cycles,
                   fsReady, failed, ssid, isAPMode, webVars>>

\* The countdown has run out: forget the network, in the file and, where
\* WiFi.disconnect() does that, in the SDK; the radio is off until startAP().
CountdownOver ==
    /\ startup = "RESET_COUNTDOWN"
    /\ wifiFile' = IF fsReady THEN None ELSE wifiFile
    /\ DropNetwork /\ station' = None
    /\ hasSaved' = FALSE
    /\ startup' = "ENTER_AP"
    /\ UNCHANGED <<monitorFile, reachable, savedAttempts, sdkAttempts, cycles, mode, fsReady,
                   failed, ssid, isAPMode, webVars>>

\* startAPMode().
EnterAp ==
    /\ startup = "ENTER_AP"
    /\ startup' = "DONE" /\ mode' = "AP_SETUP" /\ StartAp
    /\ UNCHANGED <<flashVars, reachable, station, hasSaved, savedAttempts, sdkAttempts, cycles,
                   fsReady, failed, ssid, webVars>>

ProcessStartup ==
    \/ Setup \/ TrySavedStart \/ TrySdkStart \/ TryConnected \/ TryTimedOut
    \/ DelayOver \/ StartMonitorMode \/ CountdownOver \/ EnterAp

-----------------------------------------------------------------------------
(* The web interface, up once startup is DONE. *)

ApplyBusy == applyState \in {"PENDING_START", "CONNECTING", "RETRY_WAIT"}
RestartFor(why) == pendingRestart' = TRUE /\ cause' = why
Serving   == startup = "DONE" /\ UNCHANGED <<startupVars, reachable>>

\* GET / and GET /setup: the setup wizard is served, and remembered until the restart.
OpenWizard ==
    /\ Serving /\ isAPMode
    /\ wizardMode' = TRUE
    /\ UNCHANGED <<flashVars, station, ssid, isAPMode, setupComplete, applyState, applyAttempts,
                   pendingRestart, cause, afterReset>>

\* POST /save: the credentials are stored first and tried afterwards.
HandleWifiSave ==
    /\ Serving /\ isAPMode /\ ~ApplyBusy
    /\ \E s \in Ssids :
         \/ SaveConfig(s) /\ applyState' = "PENDING_START" /\ applyAttempts' = 0
         \/ SaveConfigFails(s) /\ UNCHANGED <<applyState, applyAttempts>>
    /\ UNCHANGED <<sdkSsid, monitorFile, station, isAPMode, setupComplete, wizardMode,
                   pendingRestart, cause, afterReset>>

\* Mutant of ApplyStart: the attempt ends AP mode before it has succeeded.
ApplyStartEndsAp ==
    /\ Serving /\ applyState \in {"PENDING_START", "RETRY_WAIT"}
    /\ applyAttempts' = applyAttempts + 1
    /\ JoinSaved
    /\ applyState' = "CONNECTING" /\ isAPMode' = FALSE
    /\ UNCHANGED <<wifiFile, monitorFile, ssid, setupComplete, wizardMode,
                   pendingRestart, cause, afterReset>>

\* processPendingWifiApply(): start an attempt.
ApplyStart ==
    /\ Serving /\ applyState \in {"PENDING_START", "RETRY_WAIT"}
    /\ applyAttempts' = applyAttempts + 1
    /\ JoinSaved
    /\ applyState' = "CONNECTING"
    /\ UNCHANGED <<wifiFile, monitorFile, ssid, isAPMode, setupComplete, wizardMode,
                   pendingRestart, cause, afterReset>>

\* processPendingWifiApply(): the attempt succeeds.  The wizard goes on to the
\* MQTT settings, so no restart is scheduled under it.
ApplySuccess ==
    /\ Serving /\ applyState = "CONNECTING" /\ Joined(FALSE)
    /\ applyState' = "SUCCESS"
    /\ IF wizardMode THEN UNCHANGED <<pendingRestart, cause>> ELSE RestartFor("wifi")
    /\ UNCHANGED <<flashVars, station, setupComplete, wizardMode, applyAttempts, afterReset>>

\* Mutant of ApplyTimedOut: one attempt too many.
ApplyTimedOutOnceMore ==
    /\ Serving /\ applyState = "CONNECTING" /\ ~Linked
    /\ IF applyAttempts <= MaxApplyAttempts
       THEN applyState' = "RETRY_WAIT" /\ UNCHANGED isAPMode
       ELSE applyState' = "FAILED" /\ isAPMode' = TRUE
    /\ UNCHANGED <<flashVars, station, ssid, setupComplete, wizardMode, applyAttempts,
                   pendingRestart, cause, afterReset>>

\* processPendingWifiApply(): the attempt times out; after the last, AP mode again.
ApplyTimedOut ==
    /\ Serving /\ applyState = "CONNECTING" /\ ~Linked
    /\ IF applyAttempts < MaxApplyAttempts
       THEN applyState' = "RETRY_WAIT" /\ UNCHANGED isAPMode
       ELSE applyState' = "FAILED" /\ StartAp
    /\ UNCHANGED <<flashVars, station, ssid, setupComplete, wizardMode, applyAttempts,
                   pendingRestart, cause, afterReset>>

\* save() of the monitor configuration: a file that does not open fails it, a
\* write that comes up short goes unnoticed and leaves no readable file.
StoreMonitorFile(why) ==
    \/ fsReady /\ monitorFile' \in {setupComplete', None} /\ RestartFor(why)
    \/ UNCHANGED <<monitorFile, pendingRestart, cause>>

\* monitorConfig.loop(): the deferred save of devices and topics seen since.  (What
\* a request changes while it writes is the business of DeviceRegistry.)
DeferredSave ==
    /\ Serving /\ mode = "MONITOR" /\ fsReady
    /\ monitorFile' \in {setupComplete, None}
    /\ UNCHANGED <<wifiFile, sdkSsid, station, ssid, isAPMode, webVars>>

\* POST /api/v2/config (the wizard's MQTT step and the monitor page): save and,
\* when that worked, restart in 3 s.
SaveMonitorConfig ==
    /\ Serving
    /\ UNCHANGED setupComplete
    /\ StoreMonitorFile("config")
    /\ UNCHANGED <<wifiFile, sdkSsid, station, ssid, isAPMode, wizardMode, applyState,
                   applyAttempts, afterReset>>

\* POST /api/v2/setup-complete (the wizard's last step).
CompleteSetup ==
    /\ Serving
    /\ setupComplete' = TRUE
    /\ StoreMonitorFile("complete")
    /\ UNCHANGED <<wifiFile, sdkSsid, station, ssid, isAPMode, wizardMode, applyState,
                   applyAttempts, afterReset>>

\* POST /api/v2/reboot.
RequestReboot ==
    /\ Serving /\ RestartFor("reboot")
    /\ UNCHANGED <<flashVars, station, ssid, isAPMode, setupComplete, wizardMode, applyState,
                   applyAttempts, afterReset>>

\* POST /api/v2/factory-reset: both files go, the SDK's copy stays.
FactoryReset ==
    /\ Serving
    /\ wifiFile' = IF fsReady THEN None ELSE wifiFile
    /\ monitorFile' = IF fsReady THEN None ELSE monitorFile
    /\ setupComplete' = FALSE
    /\ RestartFor("reset")
    /\ UNCHANGED <<sdkSsid, station, ssid, isAPMode, wizardMode, applyState, applyAttempts,
                   afterReset>>

\* WebServerManager::loop(): the scheduled restart is due.
Restart ==
    /\ startup = "DONE" /\ pendingRestart
    /\ PowerOn
    /\ afterReset' = (cause = "reset")
    /\ UNCHANGED <<flashVars, reachable>>

Web ==
    \/ OpenWizard \/ HandleWifiSave \/ ApplyStart \/ ApplySuccess \/ ApplyTimedOut
    \/ DeferredSave \/ SaveMonitorConfig \/ CompleteSetup
    \/ RequestReboot \/ FactoryReset \/ Restart

-----------------------------------------------------------------------------
(* The surroundings. *)

\* Networks come into and go out of reach.
ReachChange ==
    /\ \E s \in Ssids : reachable' = IF s \in reachable THEN reachable \ {s} ELSE reachable \cup {s}
    /\ UNCHANGED <<flashVars, station, startupVars, ssid, isAPMode, webVars>>

\* The user pulls the plug ("Power off to cancel") or the watchdog bites.
PowerCycle ==
    /\ startup # "INIT"
    /\ PowerOn
    /\ afterReset' = FALSE
    /\ UNCHANGED <<flashVars, reachable>>

Next == ProcessStartup \/ Web \/ ReachChange \/ PowerCycle

Spec == Init /\ [][Next]_vars

\* The main loop keeps running until the power goes.
FairSpec == Spec /\ WF_vars(ProcessStartup) /\ WF_vars(ApplyStart)
                 /\ WF_vars(ApplySuccess \/ ApplyTimedOut) /\ WF_vars(Restart)

-----------------------------------------------------------------------------
(* Properties. *)

\* A saved network is forgotten only after every attempt of every cycle of this
\* boot failed, and the SDK's only after every attempt a boot without a file makes.
NoEarlyWipe ==
    [][CountdownOver => failed >= (IF hasSaved THEN AllAttempts
                                   ELSE IF fsReady THEN MaxSdkAttempts
                                   ELSE (MaxCycles + 1) * MaxSdkAttempts)]_vars

\* The setup pages refuse everyone once isAPMode is off.  In AP mode that only
\* happens after a join that worked: a device that has no network keeps them up.
ApNotLost == startup = "DONE" /\ mode = "AP_SETUP" /\ ~isAPMode => applyState = "SUCCESS"

\* "success" is reported for the network the user submitted last, which is also
\* the one in the file unless a factory reset has removed it meanwhile.
ReportsNetworkTried == [][ApplySuccess => station = ssid /\ wifiFile \in {ssid, None}]_vars

\* Startup ends, in monitor mode or with the access point: no combination of
\* missing files, storage failures and networks coming and going makes it wait
\* for ever, unless the power is cut again and again.
StartupEnds == []<>(startup = "DONE") \/ []<><<PowerCycle>>_vars

\* A saved network that stays in reach is joined, and its credentials survive.  (In
\* reach: it accepts the password, and links up before an attempt times out.)
SavedNetworkJoined ==
    [](startup = "TRY_SAVED_START" /\ hasSaved /\ [](reachable = Ssids)
       => <>(startup = "INIT" \/ (startup = "DONE" /\ mode = "MONITOR")))

\* "This will erase all WiFi and MQTT settings. The device will restart in AP
\* setup mode." (status_dashboard.html)
ResetLeadsToAp == afterReset /\ startup = "DONE" => mode = "AP_SETUP"
=============================================================================
