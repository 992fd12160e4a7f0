---------------------------- MODULE DeviceRegistry ----------------------------
(***************************************************************************)
(* Which hosts the monitor knows, listens to and shows: the configuration  *)
(* in RAM and in its file (MonitorConfigManager), the slots of received    *)
(* metrics (DeviceStore), the subscriptions of an MQTT session, and the    *)
(* requests of the web pages that change them.                             *)
(*                                                                         *)
(* A sender's topic and its host name stand for each other; of the order   *)
(* of lists only what their caps drop matters, and that is any choice. The *)
(* 5 s between deferred saves, the 5 minutes after which a topic expires   *)
(* and the 2-3 s before a restart are steps that may come at any time.     *)
(*                                                                         *)
(* Messages and requests arrive in callbacks of the network stack, which   *)
(* run to their end; loop() does the rest and is interrupted by them where *)
(* it yields.  It yields inside a write to the file system (the core's     *)
(* flash access does), so a deferred save is two steps, and what happens   *)
(* between them is a callback or a power cut.                              *)
(***************************************************************************)
EXTENDS Naturals, FiniteSets

CONSTANTS Hosts,           \* hosts that run a sender
          MaxDevices,      \* MAX_DEVICES: slots, and entries of the configuration
          MaxSubscribed,   \* MAX_SUBSCRIBED_TOPICS
          MaxAvailable,    \* MAX_AVAILABLE_TOPICS
          MaxRequests      \* bound: requests of web pages in one boot

ASSUME DeviceRegistryAssumption ==
    /\ IsFiniteSet(Hosts) /\ Hosts # {}
    /\ {MaxDevices, MaxSubscribed, MaxAvailable, MaxRequests} \subseteq Nat \ {0}
    /\ MaxSubscribed <= MaxDevices

VARIABLES
    config,          \* MonitorConfigManager::config
    file,            \* what load() makes of the configuration file
    needsSave,       \* _needsSave
    saving,          \* the deferred save is writing
    image,           \* what it writes: config when it began, Defaults otherwise
    slots,           \* hosts that have a slot of the device store
    subs,            \* hosts the session's subscriptions cover, {} without a session
    begun,           \* the transport connects, or will try to again
    pendingRestart,  \* _pendingRestart
    (* history *)
    partial,         \* a refused request changed config, and no restart since
    unsaved,         \* the last write failed, was skipped, or began before the last change
    accepted,        \* broker and selection the last accepted request saved
    doubtful,        \* copies ("ram", "file", "image") that may hold others, see below
    requests,        \* requests of this boot
    resetAsked       \* the user last asked for a factory reset, and no save was under way

sessionVars == <<subs, begun>>
saveVars    == <<needsSave, saving, image>>
choiceVars  == <<accepted, doubtful>>
vars == <<config, file, saveVars, slots, sessionVars, pendingRestart,
          partial, unsaved, choiceVars, requests, resetAsked>>

\* The parts of MonitorConfig that select hosts: a broker is set, the hosts of
\* subscribedTopics, of availableTopics and of devices, the enabled ones.
Config == [server : BOOLEAN, allow : SUBSET Hosts, listed : SUBSET Hosts,
           entries : SUBSET Hosts, enabled : SUBSET Hosts]

\* setDefaults(); a file that is missing or cut short loads as this.
Defaults == [server |-> FALSE, allow |-> {}, listed |-> {}, entries |-> {}, enabled |-> {}]

\* What a user chooses.
Choice(c) == [server |-> c.server, allow |-> c.allow]

WithinCaps(c) ==
    /\ c.enabled \subseteq c.entries
    /\ Cardinality(c.entries) <= MaxDevices
    /\ Cardinality(c.allow) <= MaxSubscribed
    /\ Cardinality(c.listed) <= MaxAvailable

\* Types, and the fixed arrays are never overrun.
TypeOK ==
    /\ config \in Config /\ WithinCaps(config)
    /\ file \in Config /\ WithinCaps(file)
    /\ image \in Config /\ WithinCaps(image)
    /\ slots \subseteq Hosts /\ Cardinality(slots) <= MaxDevices
    /\ subs \subseteq Hosts
    /\ requests \in 0..MaxRequests
    /\ {needsSave, saving, begun, pendingRestart, partial, unsaved, resetAsked} \subseteq BOOLEAN
    /\ accepted \in [server : BOOLEAN, allow : SUBSET Hosts]
    /\ doubtful \subseteq {"ram", "file", "image"}

\* The hosts an allowlist selects; an empty one means discovery of all.
Selected(c) == IF c.allow = {} THEN Hosts ELSE c.allow

\* Hosts the display may show: a slot, and enabled or without an entry.
Shown == {h \in slots : h \notin config.entries \/ h \in config.enabled}

-----------------------------------------------------------------------------
(* Changes to config. *)

AddAvailableTopic(c, h) ==
    IF h \in c.listed \/ Cardinality(c.listed) >= MaxAvailable
    THEN c ELSE [c EXCEPT !.listed = @ \cup {h}]

\* Mutant of GetOrCreateDevice: no cap.
GetOrCreateDeviceUncapped(c, h) == [c EXCEPT !.entries = @ \cup {h}]

GetOrCreateDevice(c, h) ==
    IF h \in c.entries \/ Cardinality(c.entries) >= MaxDevices
    THEN c ELSE [c EXCEPT !.entries = @ \cup {h}]

\* A message enables the entry of its host, if it has one, in discovery or when
\* the host is selected.
AutoEnable(c, h) ==
    IF h \in c.entries /\ h \in Selected(c) THEN [c EXCEPT !.enabled = @ \cup {h}] ELSE c

\* Mutant of Accepts: the allowlist is left to the broker.
AcceptsAll(c, h) == h \in Hosts

\* The first checks of handleMessage().
Accepts(c, h) == h \in Selected(c)

-----------------------------------------------------------------------------
(* Messages, timers and the session. *)

\* Mutant of Receive: enabling an entry does not mark the configuration dirty.
ReceiveForgetsDirty(h) ==
    LET c1 == AddAvailableTopic(config, h)
        c2 == GetOrCreateDevice(c1, h)
        c3 == AutoEnable(c2, h)
    IN  /\ h \in subs /\ Accepts(config, h)
        /\ config' = c3
        /\ needsSave' = (needsSave \/ c1 # config \/ c2 # c1)
        /\ unsaved' = (unsaved \/ (saving /\ config' # config))
        /\ slots' = IF Cardinality(slots \cup {h}) <= MaxDevices
                    THEN slots \cup {h} ELSE slots
        /\ UNCHANGED <<file, saving, image, sessionVars, pendingRestart, partial,
                       choiceVars, requests, resetAsked>>

\* handleMessage() of a message the session delivers: list the topic, get or
\* create the entry and enable it, then take or update a slot, if one is free.
Receive(h) ==
    LET c1 == AddAvailableTopic(config, h)
        c2 == GetOrCreateDevice(c1, h)
        c3 == AutoEnable(c2, h)
        refused == h \in c3.entries \ c3.enabled
    IN  /\ h \in subs /\ Accepts(config, h)
        /\ config' = c3
        /\ needsSave' = (needsSave \/ c1 # config \/ c2 # c1 \/ c3 # c2)
        /\ unsaved' = (unsaved \/ (saving /\ config' # config))
        /\ slots' = IF ~refused /\ Cardinality(slots \cup {h}) <= MaxDevices
                    THEN slots \cup {h} ELSE slots
        /\ UNCHANGED <<file, saving, image, sessionVars, pendingRestart, partial,
                       choiceVars, requests, resetAsked>>

\* purgeExpiredAvailableTopics(): topics not heard of for 5 minutes, or not since
\* the boot, are dropped unless selected.  That may be any of them.
Purge ==
    /\ ~saving /\ config.server
    /\ \E expired \in SUBSET (config.listed \ config.allow) \ {{}} :
          config' = [config EXCEPT !.listed = @ \ expired]
    /\ needsSave' = TRUE
    /\ UNCHANGED <<file, saving, image, slots, sessionVars, pendingRestart,
                   partial, unsaved, choiceVars, requests, resetAsked>>

\* The display looks up the entry of a host it is about to show or finds
\* offline, and so creates one, disabled.
DisplayVisit(h) ==
    /\ ~saving /\ h \in slots
    /\ config' = GetOrCreateDevice(config, h)
    /\ needsSave' = (needsSave \/ config' # config)
    /\ UNCHANGED <<file, saving, image, slots, sessionVars, pendingRestart,
                   partial, unsaved, choiceVars, requests, resetAsked>>

\* Mutant of Connect: an allowlist of one is taken for none.
ConnectTakesOneForNone ==
    /\ begun /\ subs = {}
    /\ subs' = IF Cardinality(config.allow) > 1 THEN config.allow ELSE Hosts
    /\ UNCHANGED <<config, file, saveVars, slots, begun, pendingRestart,
                   partial, unsaved, choiceVars, requests, resetAsked>>

\* The broker accepts an attempt: onConnect() subscribes to the selected topics,
\* or to the discovery wildcard, whatever became of the broker's name meanwhile.
Connect ==
    /\ begun /\ subs = {}
    /\ subs' = Selected(config)
    /\ UNCHANGED <<config, file, saveVars, slots, begun, pendingRestart,
                   partial, unsaved, choiceVars, requests, resetAsked>>

\* Without a broker loop() returns before the retry, which stays pending; only
\* one taken away between that test and connect() ends the retries for good.
GiveUp ==
    /\ ~saving /\ begun /\ subs = {} /\ ~config.server
    /\ begun' = FALSE
    /\ UNCHANGED <<config, file, saveVars, slots, subs, pendingRestart,
                   partial, unsaved, choiceVars, requests, resetAsked>>

Disconnect ==
    /\ subs # {}
    /\ subs' = {}
    /\ UNCHANGED <<config, file, saveVars, slots, begun, pendingRestart,
                   partial, unsaved, choiceVars, requests, resetAsked>>

-----------------------------------------------------------------------------
(* The file and the requests of the web pages. *)

\* save(): written in full, cut short by a full filesystem (save() does not see
\* it and answers true; the file is unreadable), or not opened.
Outcomes == {"full", "short", "failed"}
Written(outcome, c) == [full |-> c, short |-> Defaults, failed |-> file][outcome]

\* loop() of the configuration: the deferred save takes what it will write ...
BeginSave ==
    /\ needsSave /\ ~saving
    /\ saving' = TRUE /\ image' = config
    /\ unsaved' = FALSE
    /\ doubtful' = IF "ram" \in doubtful THEN doubtful \cup {"image"} ELSE doubtful
    /\ UNCHANGED <<config, file, needsSave, slots, sessionVars, pendingRestart,
                   partial, accepted, requests, resetAsked>>

\* ... and clears the flag when save() is done, whatever it answers and whoever
\* set the flag again meanwhile.  A request may have written or removed the file
\* in between (LittleFS is not made for that): either of the two may prevail.
EndSave ==
    /\ saving
    /\ \E outcome \in Outcomes :
          LET spoilt == outcome = "short" \/ (outcome = "full" /\ "image" \in doubtful)
                            \/ (outcome = "failed" /\ "file" \in doubtful)
          IN  /\ file' = Written(outcome, image)
              /\ unsaved' = (unsaved \/ outcome # "full")
              /\ doubtful' = (doubtful \cap {"ram"}) \cup (IF spoilt THEN {"file"} ELSE {})
    /\ needsSave' = FALSE /\ saving' = FALSE /\ image' = Defaults
    /\ UNCHANGED <<config, slots, sessionVars, pendingRestart, partial, accepted,
                   requests, resetAsked>>

\* The copies a request cannot reach: a save under way has taken its own.
OutOfReach == IF saving THEN {"image"} ELSE {}

\* Mutants of Commit: the write is left to the deferred save; no restart follows.
CommitDeferred(c) ==
    /\ config' = c /\ needsSave' = TRUE
    /\ pendingRestart' = TRUE
    /\ resetAsked' = FALSE
    /\ accepted' = Choice(c) /\ doubtful' = OutOfReach
    /\ UNCHANGED <<slots, sessionVars, file, saving, image, unsaved, partial>>
CommitWithoutRestart(c) ==
    /\ config' = c
    /\ resetAsked' = FALSE
    /\ \E outcome \in Outcomes :
          /\ file' = Written(outcome, c)
          /\ unsaved' = (saving \/ outcome # "full")
          /\ partial' = (partial \/ outcome = "failed")
          /\ IF outcome = "failed"
             THEN doubtful' = doubtful \cup {"ram"} /\ UNCHANGED accepted
             ELSE /\ doubtful' = OutOfReach \cup (IF outcome = "short" THEN {"file"} ELSE {})
                  /\ accepted' = Choice(c)
    /\ UNCHANGED <<slots, sessionVars, saveVars, pendingRestart>>

\* A request that changed config to c and passed every check: save, and restart
\* when that worked.
Commit(c) ==
    /\ config' = c
    /\ resetAsked' = FALSE
    /\ \E outcome \in Outcomes :
          /\ file' = Written(outcome, c)
          /\ unsaved' = (saving \/ outcome # "full")
          /\ pendingRestart' = (pendingRestart \/ outcome # "failed")
          /\ partial' = (partial \/ outcome = "failed")
          /\ IF outcome = "failed"
             THEN doubtful' = doubtful \cup {"ram"} /\ UNCHANGED accepted
             ELSE /\ doubtful' = OutOfReach \cup (IF outcome = "short" THEN {"file"} ELSE {})
                  /\ accepted' = Choice(c)
    /\ UNCHANGED <<slots, sessionVars, saveVars>>

\* Mutant of FitsAllowlist: the cap is not checked.
FitsAnyAllowlist(checked) == checked \subseteq Hosts

\* The check on subscribedTopics in saveConfig().
FitsAllowlist(checked) == Cardinality(checked) <= MaxSubscribed

\* What of a posted list an array of the given size holds.
Truncations(posted, size) ==
    {kept \in SUBSET posted : IF Cardinality(posted) <= size THEN kept = posted
                              ELSE Cardinality(kept) = size}

\* The settings page posts the broker, which may be left empty, a row for each
\* topic it listed when it was loaded, at any earlier time, and the boxes that
\* are checked.
SavePage(server, rows, checked) ==
    /\ FitsAllowlist(checked)
    /\ \E listed \in Truncations(rows, MaxAvailable), entries \in Truncations(rows, MaxDevices) :
          Commit([server |-> server, allow |-> checked, listed |-> listed,
                  entries |-> entries, enabled |-> checked \cap entries])

\* The wizard posts the broker alone, which empties the allowlist.
SaveWizard(server) ==
    Commit([config EXCEPT !.server = server, !.allow = {}])

\* A list that is too long or has an invalid topic ends saveConfig() with an
\* error, after the broker and the topics read so far have been changed.
RejectConfig(server, topics) ==
    /\ Cardinality(topics) <= MaxSubscribed
    /\ config' = [config EXCEPT !.server = server, !.allow = topics]
    /\ doubtful' = doubtful \cup {"ram"}
    /\ partial' = TRUE /\ unsaved' = TRUE /\ resetAsked' = FALSE
    /\ UNCHANGED <<file, saveVars, slots, sessionVars, pendingRestart, accepted>>

CompleteSetup == Commit(config)

RequestReboot ==
    /\ pendingRestart' = TRUE
    /\ UNCHANGED <<config, file, saveVars, slots, sessionVars, partial, unsaved,
                   choiceVars, resetAsked>>

\* The file is removed; RAM keeps everything until the restart, and a save under
\* way goes on.
FactoryReset ==
    /\ file' = Defaults
    /\ pendingRestart' = TRUE /\ unsaved' = TRUE /\ resetAsked' = ~saving
    /\ accepted' = Choice(Defaults) /\ doubtful' = {"ram"} \cup OutOfReach
    /\ UNCHANGED <<config, saveVars, slots, sessionVars, partial>>

\* The scheduled restart, a watchdog reset or a power cut, and setup() after it.
\* (A boot that ends in AP mode comes to none of this and changes none of it.)
\* A write that was under way leaves the file as it was.
Reboot ==
    /\ config' = file
    /\ begun' = file.server
    /\ slots' = {} /\ subs' = {} /\ requests' = 0
    /\ needsSave' = FALSE /\ saving' = FALSE /\ image' = Defaults /\ pendingRestart' = FALSE
    /\ partial' = FALSE /\ unsaved' = FALSE /\ resetAsked' = FALSE
    /\ doubtful' = IF "file" \in doubtful THEN {"ram", "file"} ELSE {}
    /\ UNCHANGED <<file, accepted>>

\* A new device, or one whose settings page was saved with some rows.
Init ==
    /\ \E server \in BOOLEAN, listed \in SUBSET Hosts : \E allow \in SUBSET listed :
       \E entries \in Truncations(listed, MaxDevices) :
          /\ file \in {Defaults, [server |-> server, allow |-> allow, listed |-> listed,
                                  entries |-> entries, enabled |-> allow \cap entries]}
          /\ WithinCaps(file)
    /\ config = file /\ begun = file.server
    /\ slots = {} /\ subs = {} /\ requests = 0
    /\ needsSave = FALSE /\ saving = FALSE /\ image = Defaults /\ pendingRestart = FALSE
    /\ partial = FALSE /\ unsaved = FALSE /\ resetAsked = FALSE
    /\ accepted = Choice(file) /\ doubtful = {}

Request ==
    \/ \E server \in BOOLEAN, rows \in SUBSET Hosts : \E checked \in SUBSET rows :
          SavePage(server, rows, checked)
    \/ \E server \in BOOLEAN : SaveWizard(server)
    \/ \E server \in BOOLEAN, topics \in SUBSET Hosts : RejectConfig(server, topics)
    \/ CompleteSetup \/ RequestReboot \/ FactoryReset

Next ==
    \/ \E h \in Hosts : Receive(h) \/ DisplayVisit(h)
    \/ Purge \/ Connect \/ GiveUp \/ Disconnect \/ BeginSave \/ EndSave
    \/ requests < MaxRequests /\ requests' = requests + 1 /\ Request
    \/ Reboot

Spec == Init /\ [][Next]_vars

-----------------------------------------------------------------------------
(* Properties. *)

\* When no deferred save is pending, the file holds every list exactly as RAM
\* does: each of the places that change the configuration (a message, a timer, the
\* display, a request) either marks it dirty or saves it.  What is lost is lost in
\* one of three ways: its write failed, a request that was refused skipped it, or
\* it came while a deferred save was writing, which then clears its mark too.
Persisted == ~needsSave /\ ~unsaved => file = config

\* A power cut at any moment loses neither the broker nor the selected hosts that
\* the last accepted request saved: only requests choose them, and an accepted one
\* writes them before it answers.  The file may hold others only if it is doubtful:
\* its last write was cut short, or a deferred save wrote what a refused request
\* left in RAM or what it had taken before the last request came.
SelectionDurable == "file" \notin doubtful => Choice(file) = accepted

\* A running device listens to exactly the hosts it is told to: the allowlist is
\* never changed under a session without a restart on its way, except by a
\* request that was refused midway.
SubscriptionCurrent ==
    subs # {} /\ ~pendingRestart /\ ~partial => subs = Selected(config)

\* With an allowlist, the display shows no other host, though shown is decided by
\* the slots and the entries and accepted by the topics.
OnlySelectedShown == ~pendingRestart /\ ~partial => Shown \subseteq Selected(config)

\* A broker the device has is one it connects to: connect() is called at boot if
\* there is one and by its own retries only, so one that is set later must come
\* with a restart.
ServerUsed == config.server /\ ~pendingRestart /\ ~partial => begun

\* Under an allowlist no selected host is kept out by others: each has a slot or
\* finds one free.  (Slots are never freed, so one taken by a host that is not
\* selected would be lost.  In discovery no host is selected before another, and
\* those that come when every slot is taken are dropped until a restart.)
SelectedFits ==
    config.allow # {} /\ ~pendingRestart /\ ~partial =>
        Cardinality(slots \cup config.allow) <= MaxDevices

\* Whatever requests failed or were refused, a message never brings a host that
\* is not selected to the display: a host appears there only when it is selected,
\* or when a posted page dropped the entry that hid it.
NewlyShownSelected ==
    [][\A h \in Shown' \ Shown :
          h \in Selected(config)' \/ h \in config.entries \ config'.entries]_vars

\* "This will erase all WiFi and MQTT settings": the first boot after a factory
\* reset has no broker.  (Only of resets that come while no save is under way.)
ResetForgetsBroker == [][Reboot /\ resetAsked => ~config'.server]_vars
=============================================================================
