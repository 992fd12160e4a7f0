------------------------- MODULE DeviceRegistryProofs -------------------------
(***************************************************************************)
(* Safety of DeviceRegistry for every set of hosts and every size of its   *)
(* arrays.  The invariants share what is needed of the types: that the     *)
(* configuration is a record of sets of hosts, whatever the sizes.         *)
(***************************************************************************)
EXTENDS DeviceRegistry, FiniteSetTheorems, TLAPS

Shape == /\ config \in Config /\ file \in Config /\ image \in Config
         /\ slots \subseteq Hosts

\* What a save under way will bring to the file is what RAM holds, unless something
\* changed since it began (then unsaved says so).
SavesCurrent == saving /\ ~unsaved => image = config

\* What SelectionDurable says of the file, of the other copies: RAM, which is
\* written there by a deferred save, and the image that save has taken of it.
CopiesDurable ==
    /\ "ram" \notin doubtful => Choice(config) = accepted
    /\ saving /\ "image" \notin doubtful => Choice(image) = accepted

\* The parts about what is saved, and those about what is listened to and shown.
SavesInv == Persisted /\ SavesCurrent /\ SelectionDurable /\ CopiesDurable
ShownInv == SubscriptionCurrent /\ OnlySelectedShown

IInv == Shape /\ SavesInv /\ ShownInv

\* Listing a topic touches no other part of the configuration.
LEMMA AddAvailableTopicKeeps ==
    ASSUME NEW c \in Config, NEW h \in Hosts
    PROVE  LET d == AddAvailableTopic(c, h)
           IN  /\ d \in Config
               /\ d.server = c.server /\ d.allow = c.allow
               /\ d.entries = c.entries /\ d.enabled = c.enabled
  BY DEF AddAvailableTopic, Config

\* A new entry is disabled and touches no other part.
LEMMA GetOrCreateDeviceKeeps ==
    ASSUME NEW c \in Config, NEW h \in Hosts
    PROVE  LET d == GetOrCreateDevice(c, h)
           IN  /\ d \in Config
               /\ d.server = c.server /\ d.allow = c.allow
               /\ d.enabled = c.enabled /\ c.entries \subseteq d.entries
  BY DEF GetOrCreateDevice, Config

\* Only a selected host is enabled.
LEMMA AutoEnableKeeps ==
    ASSUME NEW c \in Config, NEW h \in Hosts
    PROVE  LET d == AutoEnable(c, h)
           IN  /\ d \in Config
               /\ d.server = c.server /\ d.allow = c.allow /\ d.entries = c.entries
               /\ d.enabled \subseteq c.enabled \cup ({h} \cap Selected(c))
  BY DEF AutoEnable, Config

\* A message: it comes from a selected host, which is the only one it can bring
\* to the display, and it changes no selection.
LEMMA ReceiveFacts ==
    ASSUME Shape, NEW h \in Hosts, Receive(h)
    PROVE  /\ Shape'
           /\ UNCHANGED <<file, saving, image, subs, pendingRestart, partial, choiceVars>>
           /\ config'.server = config.server /\ config'.allow = config.allow
           /\ Choice(config)' = Choice(config)
           /\ Selected(config)' = Selected(config) /\ h \in Selected(config)
           /\ Shown' \subseteq Shown \cup {h}
           /\ ~needsSave' => ~needsSave /\ config' = config
           /\ ~unsaved' => ~unsaved /\ (saving => config' = config)
<1> DEFINE c1 == AddAvailableTopic(config, h)
           c2 == GetOrCreateDevice(c1, h)
           c3 == AutoEnable(c2, h)
<1>1. config \in Config /\ file \in Config /\ slots \subseteq Hosts
  BY DEF Shape
<1>2. /\ c1 \in Config /\ c1.server = config.server /\ c1.allow = config.allow
      /\ c1.entries = config.entries /\ c1.enabled = config.enabled
  BY <1>1, AddAvailableTopicKeeps
<1>3. /\ c2 \in Config /\ c2.server = c1.server /\ c2.allow = c1.allow
      /\ c2.enabled = c1.enabled /\ c1.entries \subseteq c2.entries
  <2> HIDE DEF c1
  <2> QED
    BY <1>2, GetOrCreateDeviceKeeps
<1>4. /\ c3 \in Config /\ c3.server = c2.server /\ c3.allow = c2.allow
      /\ c3.entries = c2.entries /\ c3.enabled \subseteq c2.enabled \cup ({h} \cap Selected(c2))
  <2> HIDE DEF c1, c2
  <2> QED
    BY <1>3, AutoEnableKeeps
<1>5. /\ config' = c3
      /\ UNCHANGED <<file, saving, image, subs, pendingRestart, partial, choiceVars>>
      /\ needsSave' = (needsSave \/ c1 # config \/ c2 # c1 \/ c3 # c2)
      /\ unsaved' = (unsaved \/ (saving /\ config' # config))
      /\ slots' \subseteq slots \cup {h} /\ h \in Selected(config)
  BY DEF Receive, Accepts, sessionVars
<1> HIDE DEF c1, c2, c3
<1>6. Shape'
  BY <1>1, <1>4, <1>5 DEF Shape
<1>7. Selected(config)' = Selected(config)
  BY <1>2, <1>3, <1>4, <1>5 DEF Selected
<1>8. Shown' \subseteq Shown \cup {h}
  BY <1>2, <1>3, <1>4, <1>5 DEF Shown
<1>9. config'.server = config.server /\ config'.allow = config.allow
  BY <1>2, <1>3, <1>4, <1>5
<1>10. Choice(config)' = Choice(config)
  BY <1>9 DEF Choice
<1>11. ~unsaved' => ~unsaved /\ (saving => config' = config)
  BY <1>5
<1> QED
  BY <1>2, <1>3, <1>4, <1>5, <1>6, <1>7, <1>8, <1>9, <1>10, <1>11

\* A purge and a visit of the display select and show nothing new.
LEMMA TidyFacts ==
    ASSUME Shape, Purge \/ \E h \in Hosts : DisplayVisit(h)
    PROVE  /\ Shape' /\ ~saving
           /\ UNCHANGED <<file, saving, image, subs, pendingRestart, partial, unsaved, choiceVars>>
           /\ config'.server = config.server /\ config'.allow = config.allow
           /\ Choice(config)' = Choice(config)
           /\ Selected(config)' = Selected(config) /\ Shown' \subseteq Shown
           /\ ~needsSave' => ~needsSave /\ config' = config
<1>1. config \in Config
  BY DEF Shape
<1>2. /\ config' \in Config /\ ~saving
      /\ config'.server = config.server /\ config'.allow = config.allow
      /\ config'.enabled = config.enabled /\ config.entries \subseteq config'.entries
      /\ ~needsSave' => ~needsSave /\ config' = config
      /\ UNCHANGED <<file, saving, image, slots, subs, pendingRestart, partial, unsaved,
                     choiceVars>>
  <2>1. CASE Purge
    BY <2>1, <1>1 DEF Purge, Config, sessionVars
  <2>2. ASSUME NEW h \in Hosts, DisplayVisit(h)
        PROVE  <1>2
    BY <2>2, <1>1, GetOrCreateDeviceKeeps DEF DisplayVisit, sessionVars
  <2> QED
    BY <2>1, <2>2
<1> QED
  BY <1>1, <1>2 DEF Shape, Selected, Shown, Choice

\* What follows for the invariant.
LEMMA ReceiveKeeps ==
    ASSUME IInv, NEW h \in Hosts, Receive(h)
    PROVE  IInv'
<1>1. Shape'
  BY ReceiveFacts DEF IInv
<1>2. SavesInv'
  BY ReceiveFacts
  DEF IInv, SavesInv, Persisted, SavesCurrent, SelectionDurable, CopiesDurable, choiceVars
<1>3. ShownInv'
  BY ReceiveFacts DEF IInv, ShownInv, SubscriptionCurrent, OnlySelectedShown
<1> QED
  BY <1>1, <1>2, <1>3 DEF IInv

LEMMA TidyKeeps ==
    ASSUME IInv, Purge \/ \E h \in Hosts : DisplayVisit(h)
    PROVE  IInv'
<1>1. Shape'
  BY TidyFacts DEF IInv
<1>2. SavesInv'
  BY TidyFacts
  DEF IInv, SavesInv, Persisted, SavesCurrent, SelectionDurable, CopiesDurable, choiceVars
<1>3. ShownInv'
  BY TidyFacts DEF IInv, ShownInv, SubscriptionCurrent, OnlySelectedShown
<1> QED
  BY <1>1, <1>2, <1>3 DEF IInv

LEMMA DefaultsConfig == Defaults \in Config
  BY DEF Defaults, Config

\* What the three outcomes of a write leave.
LEMMA WrittenIs ==
    ASSUME NEW c, NEW outcome \in Outcomes
    PROVE  /\ outcome = "full" => Written(outcome, c) = c
           /\ outcome = "short" => Written(outcome, c) = Defaults
           /\ outcome = "failed" => Written(outcome, c) = file
           /\ outcome \in {"full", "short", "failed"}
  BY DEF Written, Outcomes

\* A write leaves a file that loads.
LEMMA WrittenLoads ==
    ASSUME NEW c \in Config, file \in Config, NEW outcome \in Outcomes
    PROVE  Written(outcome, c) \in Config
  BY WrittenIs, DefaultsConfig

\* What is saved in one go is in RAM and in the file; a write that is not full says
\* so, and so does one that comes while another is under way.
LEMMA CommitSaves ==
    ASSUME Shape, SavesInv, NEW c \in Config, Commit(c)
    PROVE  Shape' /\ SavesInv'
<1>1. PICK outcome \in Outcomes :
          /\ file' = Written(outcome, c)
          /\ unsaved' = (saving \/ outcome # "full")
          /\ IF outcome = "failed"
             THEN doubtful' = doubtful \cup {"ram"} /\ UNCHANGED accepted
             ELSE /\ doubtful' = OutOfReach \cup (IF outcome = "short" THEN {"file"} ELSE {})
                  /\ accepted' = Choice(c)
  BY DEF Commit
<1>2. config' = c /\ UNCHANGED <<slots, saving, image, needsSave>>
  BY DEF Commit, saveVars
<1>3. Shape'
  BY <1>1, <1>2, WrittenLoads DEF Shape
<1>4. CASE outcome = "failed"
  <2>1. file' = file /\ unsaved' /\ doubtful' = doubtful \cup {"ram"} /\ accepted' = accepted
    BY <1>1, <1>4, WrittenIs
  <2>2. SavesInv'
    BY <1>2, <2>1
    DEF SavesInv, Persisted, SavesCurrent, SelectionDurable, CopiesDurable
  <2> QED
    BY <1>3, <2>2
<1>5. CASE outcome # "failed"
  <2>1. /\ outcome = "full" => file' = c
        /\ unsaved' = (saving \/ outcome # "full")
        /\ doubtful' = OutOfReach \cup (IF outcome = "short" THEN {"file"} ELSE {})
        /\ accepted' = Choice(c) /\ outcome \in {"full", "short"}
    BY <1>1, <1>5, WrittenIs
  <2>2. Persisted' /\ SavesCurrent'
    BY <1>2, <2>1 DEF Persisted, SavesCurrent
  <2>3. SelectionDurable' /\ CopiesDurable'
    BY <1>2, <2>1 DEF SelectionDurable, CopiesDurable, OutOfReach
  <2> QED
    BY <1>3, <2>2, <2>3 DEF SavesInv
<1> QED
  BY <1>4, <1>5

\* A request that passed every check restarts the device, or is counted as refused.
LEMMA CommitKeeps ==
    ASSUME IInv, NEW c \in Config, Commit(c)
    PROVE  IInv'
<1>1. pendingRestart' \/ partial'
  BY DEF Commit
<1>2. ShownInv'
  BY <1>1 DEF ShownInv, SubscriptionCurrent, OnlySelectedShown
<1> QED
  BY <1>2, CommitSaves DEF IInv

\* The deferred save.
LEMMA BeginSaveKeeps ==
    ASSUME IInv, BeginSave
    PROVE  IInv'
<1>1. /\ needsSave /\ saving' = TRUE /\ image' = config
      /\ doubtful' = IF "ram" \in doubtful THEN doubtful \cup {"image"} ELSE doubtful
      /\ UNCHANGED <<config, file, needsSave, slots, subs, pendingRestart, partial, accepted>>
  BY DEF BeginSave, sessionVars
<1>2. Shape'
  BY <1>1 DEF IInv, Shape
<1>3. Persisted' /\ SavesCurrent'
  BY <1>1 DEF Persisted, SavesCurrent
<1>4. SelectionDurable' /\ CopiesDurable'
  BY <1>1 DEF IInv, SavesInv, SelectionDurable, CopiesDurable
<1>5. ShownInv'
  BY <1>1 DEF IInv, ShownInv, SubscriptionCurrent, OnlySelectedShown, Shown, Selected
<1> QED
  BY <1>2, <1>3, <1>4, <1>5 DEF IInv, SavesInv

LEMMA EndSaveKeeps ==
    ASSUME IInv, EndSave
    PROVE  IInv'
<1> DEFINE spoilt(outcome) ==
             \/ outcome = "short"
             \/ outcome = "full" /\ "image" \in doubtful
             \/ outcome = "failed" /\ "file" \in doubtful
<1>1. PICK outcome \in Outcomes :
          /\ file' = Written(outcome, image)
          /\ unsaved' = (unsaved \/ outcome # "full")
          /\ doubtful' = (doubtful \cap {"ram"}) \cup (IF spoilt(outcome) THEN {"file"} ELSE {})
  BY DEF EndSave
<1>2. /\ saving /\ saving' = FALSE /\ image' = Defaults
      /\ UNCHANGED <<config, slots, subs, pendingRestart, partial, accepted>>
  BY DEF EndSave, sessionVars
<1>3. /\ outcome = "full" => file' = image
      /\ outcome = "failed" => file' = file
      /\ outcome \in {"full", "short", "failed"} /\ file' \in Config
  BY <1>1, WrittenIs, WrittenLoads DEF IInv, Shape
<1>4. Shape'
  BY <1>2, <1>3, DefaultsConfig DEF IInv, Shape
<1>5. Persisted' /\ SavesCurrent'
  BY <1>1, <1>2, <1>3 DEF IInv, SavesInv, Persisted, SavesCurrent
<1>6. SelectionDurable'
  BY <1>1, <1>2, <1>3 DEF IInv, SavesInv, SelectionDurable, CopiesDurable
<1>7. CopiesDurable'
  BY <1>1, <1>2 DEF IInv, SavesInv, CopiesDurable
<1>8. ShownInv'
  BY <1>2 DEF IInv, ShownInv, SubscriptionCurrent, OnlySelectedShown, Shown, Selected
<1> QED
  BY <1>4, <1>5, <1>6, <1>7, <1>8 DEF IInv, SavesInv

LEMMA InitIInv == Init => IInv
<1> SUFFICES ASSUME Init PROVE IInv
  OBVIOUS
<1>1. file \in Config
  <2>1. PICK server \in BOOLEAN, listed \in SUBSET Hosts, allow \in SUBSET Hosts,
             entries \in SUBSET Hosts :
           file \in {Defaults, [server |-> server, allow |-> allow, listed |-> listed,
                              entries |-> entries, enabled |-> allow \cap entries]}
    BY DEF Init, Truncations
  <2>2. [server |-> server, allow |-> allow, listed |-> listed,
         entries |-> entries, enabled |-> allow \cap entries] \in Config
    BY DEF Config
  <2> QED
    BY <2>1, <2>2, DefaultsConfig
<1>2. Shape
  BY <1>1, DefaultsConfig DEF Init, Shape
<1>3. SavesInv
  BY DEF Init, SavesInv, Persisted, SavesCurrent, SelectionDurable, CopiesDurable
<1>4. ShownInv
  BY DEF Init, ShownInv, SubscriptionCurrent, OnlySelectedShown, Shown
<1> QED
  BY <1>2, <1>3, <1>4 DEF IInv

\* Requests, one case for each.
LEMMA RequestKeeps ==
    ASSUME IInv, Request
    PROVE  IInv'
<1>1. config \in Config /\ file \in Config /\ image \in Config /\ slots \subseteq Hosts
  BY DEF IInv, Shape
<1>2. ASSUME NEW server \in BOOLEAN, NEW rows \in SUBSET Hosts, NEW checked \in SUBSET rows,
             SavePage(server, rows, checked)
      PROVE  IInv'
  <2>1. PICK listed \in SUBSET Hosts, entries \in SUBSET Hosts :
           Commit([server |-> server, allow |-> checked, listed |-> listed,
                   entries |-> entries, enabled |-> checked \cap entries])
    BY <1>2 DEF SavePage, Truncations
  <2>2. [server |-> server, allow |-> checked, listed |-> listed,
         entries |-> entries, enabled |-> checked \cap entries] \in Config
    BY DEF Config
  <2> QED
    BY <2>1, <2>2, CommitKeeps
<1>3. ASSUME NEW server \in BOOLEAN, SaveWizard(server)
      PROVE  IInv'
  <2>1. [config EXCEPT !.server = server, !.allow = {}] \in Config
    BY <1>1 DEF Config
  <2> QED
    BY <2>1, <1>3, CommitKeeps DEF SaveWizard
<1>4. ASSUME NEW server \in BOOLEAN, NEW topics \in SUBSET Hosts, RejectConfig(server, topics)
      PROVE  IInv'
  <2>1. config' \in Config
    BY <1>4, <1>1 DEF RejectConfig, Config
  <2>2. /\ UNCHANGED <<file, saving, image, needsSave, slots, accepted>>
        /\ doubtful' = doubtful \cup {"ram"} /\ unsaved' /\ partial'
    BY <1>4 DEF RejectConfig, saveVars
  <2>3. SavesInv'
    BY <2>2
    DEF IInv, SavesInv, Persisted, SavesCurrent, SelectionDurable, CopiesDurable
  <2>4. ShownInv'
    BY <2>2 DEF ShownInv, SubscriptionCurrent, OnlySelectedShown
  <2> QED
    BY <1>1, <2>1, <2>2, <2>3, <2>4 DEF IInv, Shape
<1>5. CASE CompleteSetup
  BY <1>5, <1>1, CommitKeeps DEF CompleteSetup
<1>6. CASE RequestReboot
  <2>1. /\ pendingRestart'
        /\ UNCHANGED <<config, file, needsSave, saving, image, slots, unsaved, accepted, doubtful>>
    BY <1>6 DEF RequestReboot, saveVars, choiceVars
  <2>2. SavesInv'
    BY <2>1
    DEF IInv, SavesInv, Persisted, SavesCurrent, SelectionDurable, CopiesDurable
  <2>3. ShownInv'
    BY <2>1 DEF ShownInv, SubscriptionCurrent, OnlySelectedShown
  <2> QED
    BY <2>1, <2>2, <2>3 DEF IInv, Shape
<1>7. CASE FactoryReset
  <2>1. /\ file' = Defaults /\ accepted' = Choice(Defaults) /\ unsaved' /\ pendingRestart'
        /\ doubtful' = {"ram"} \cup OutOfReach
        /\ UNCHANGED <<config, saving, image, slots>>
    BY <1>7 DEF FactoryReset, saveVars
  <2>2. SavesInv'
    BY <2>1
    DEF SavesInv, Persisted, SavesCurrent, SelectionDurable, CopiesDurable, OutOfReach
  <2>3. ShownInv'
    BY <2>1 DEF ShownInv, SubscriptionCurrent, OnlySelectedShown
  <2> QED
    BY <1>1, <2>1, <2>2, <2>3, DefaultsConfig DEF IInv, Shape
<1> QED
  BY <1>2, <1>3, <1>4, <1>5, <1>6, <1>7 DEF Request

\* The steps that only open, end or give up a session, and stutters.
LEMMA SessionKeeps ==
    ASSUME IInv, Connect \/ GiveUp \/ Disconnect \/ UNCHANGED vars
    PROVE  IInv'
<1>1. UNCHANGED <<config, file, needsSave, saving, image, slots, pendingRestart, partial,
                  unsaved, accepted, doubtful>>
  BY DEF Connect, GiveUp, Disconnect, vars, saveVars, choiceVars
<1>2. subs' \in {subs, {}, Selected(config)}
  BY DEF Connect, GiveUp, Disconnect, vars, sessionVars
<1>3. Shape'
  BY <1>1 DEF IInv, Shape
<1>4. SavesInv'
  BY <1>1 DEF IInv, SavesInv, Persisted, SavesCurrent, SelectionDurable, CopiesDurable
<1>5. ShownInv'
  BY <1>1, <1>2
  DEF IInv, ShownInv, SubscriptionCurrent, OnlySelectedShown, Shown, Selected
<1> QED
  BY <1>3, <1>4, <1>5 DEF IInv

LEMMA RebootKeeps ==
    ASSUME IInv, Reboot
    PROVE  IInv'
<1>1. /\ config' = file /\ file' = file /\ accepted' = accepted /\ image' = Defaults
      /\ saving' = FALSE /\ slots' = {} /\ subs' = {}
      /\ doubtful' = IF "file" \in doubtful THEN {"ram", "file"} ELSE {}
  BY DEF Reboot
<1>2. Shape'
  BY <1>1, DefaultsConfig DEF IInv, Shape
<1>3. SavesInv'
  BY <1>1 DEF IInv, SavesInv, Persisted, SavesCurrent, SelectionDurable, CopiesDurable
<1>4. ShownInv'
  BY <1>1 DEF ShownInv, SubscriptionCurrent, OnlySelectedShown, Shown
<1> QED
  BY <1>2, <1>3, <1>4 DEF IInv

LEMMA NextIInv == IInv /\ [Next]_vars => IInv'
<1> SUFFICES ASSUME IInv, [Next]_vars PROVE IInv'
  OBVIOUS
<1>1. CASE \E h \in Hosts : Receive(h) \/ DisplayVisit(h)
  BY <1>1, ReceiveKeeps, TidyKeeps
<1>2. CASE Purge
  BY <1>2, TidyKeeps
<1>3. CASE Connect \/ GiveUp \/ Disconnect \/ UNCHANGED vars
  BY <1>3, SessionKeeps
<1>4. CASE BeginSave \/ EndSave
  BY <1>4, BeginSaveKeeps, EndSaveKeeps
<1>5. CASE Request
  BY <1>5, RequestKeeps
<1>6. CASE Reboot
  BY <1>6, RebootKeeps
<1> QED
  BY <1>1, <1>2, <1>3, <1>4, <1>5, <1>6 DEF Next

\* The named invariants hold together in every reachable state.
THEOREM Invariance == Spec => []IInv
  BY InitIInv, NextIInv, PTL DEF Spec

\* With no deferred save pending the file holds every list as RAM does, unless the
\* last write failed, was skipped, or had begun before the last change.
THEOREM NothingForgotten == Spec => []Persisted
<1>1. IInv => Persisted
  BY DEF IInv, SavesInv
<1> QED
  BY <1>1, Invariance, PTL

\* The file keeps the broker and the selected hosts of the last accepted request,
\* whatever is received, shown, purged or saved since, until a write is cut short
\* or a deferred save writes what a refused request left or what a save under way
\* had taken before the request.
THEOREM SelectionSurvives == Spec => []SelectionDurable
<1>1. IInv => SelectionDurable
  BY DEF IInv, SavesInv
<1> QED
  BY <1>1, Invariance, PTL

\* A session listens to exactly the selected hosts.
THEOREM ListensToSelection == Spec => []SubscriptionCurrent
<1>1. IInv => SubscriptionCurrent
  BY DEF IInv, ShownInv
<1> QED
  BY <1>1, Invariance, PTL

\* The display shows selected hosts only, however many hosts compete for
\* however few entries and slots.
THEOREM ShowsSelection == Spec => []OnlySelectedShown
<1>1. IInv => OnlySelectedShown
  BY DEF IInv, ShownInv
<1> QED
  BY <1>1, Invariance, PTL

\* A host appears only by a message, which selected hosts alone can send, or by
\* a request: a page enables what it selects, and hides what it lists unchecked.
LEMMA NewlyShown ==
    ASSUME Shape, [Next]_vars, NEW h \in Shown' \ Shown
    PROVE  h \in Selected(config)' \/ h \in config.entries \ config'.entries
<1>1. config \in Config /\ slots \subseteq Hosts
  BY DEF Shape
<1>2. ASSUME NEW g \in Hosts, Receive(g) \/ DisplayVisit(g)
      PROVE  h \in Selected(config)'
  <2>1. CASE Receive(g)
    BY <2>1, ReceiveFacts
  <2>2. CASE DisplayVisit(g)
    BY <2>2, TidyFacts
  <2> QED
    BY <1>2, <2>1, <2>2
<1>3. ASSUME \/ Purge \/ Connect \/ GiveUp \/ Disconnect
             \/ BeginSave \/ EndSave \/ Reboot \/ UNCHANGED vars
      PROVE  FALSE
  <2>1. CASE Purge
    BY <2>1, TidyFacts
  <2>2. CASE Reboot
    BY <2>2 DEF Reboot, Shown
  <2>3. CASE Connect \/ GiveUp \/ Disconnect \/ BeginSave \/ EndSave \/ UNCHANGED vars
    BY <2>3 DEF Connect, GiveUp, Disconnect, BeginSave, EndSave, vars, Shown
  <2> QED
    BY <1>3, <2>1, <2>2, <2>3
<1>4. ASSUME Request
      PROVE  h \in Selected(config)' \/ h \in config.entries \ config'.entries
  <2>1. slots' = slots
    BY <1>4 DEF Request, SavePage, SaveWizard, RejectConfig, CompleteSetup, RequestReboot,
                FactoryReset, Commit
  <2>2. h \in Hosts /\ h \in slots /\ h \in config.entries /\ h \notin config.enabled
        /\ (h \notin config'.entries \/ h \in config'.enabled)
    BY <2>1, <1>1 DEF Shown
  <2>3. ASSUME NEW server \in BOOLEAN, NEW rows \in SUBSET Hosts, NEW checked \in SUBSET rows,
               SavePage(server, rows, checked)
        PROVE  h \in config'.enabled => h \in config'.allow
    BY <2>3 DEF SavePage, Commit
  <2>4. ASSUME h \in config'.enabled, h \in config'.allow
        PROVE  h \in Selected(config)'
    BY <2>4 DEF Selected
  <2>5. ASSUME NEW server \in BOOLEAN, SaveWizard(server)
        PROVE  config'.enabled = config.enabled
    BY <2>5, <1>1 DEF SaveWizard, Commit, Config
  <2>6. ASSUME NEW server \in BOOLEAN, NEW topics \in SUBSET Hosts, RejectConfig(server, topics)
        PROVE  config'.enabled = config.enabled
    BY <2>6, <1>1 DEF RejectConfig, Config
  <2>7. ASSUME CompleteSetup \/ RequestReboot \/ FactoryReset
        PROVE  config'.enabled = config.enabled
    BY <2>7 DEF CompleteSetup, Commit, RequestReboot, FactoryReset
  <2> QED
    BY <1>4, <2>2, <2>3, <2>4, <2>5, <2>6, <2>7 DEF Request
<1> QED
  BY <1>2, <1>3, <1>4 DEF Next

\* Whatever was refused or half saved before, no message brings an unselected
\* host to the display.
THEOREM ShowsNothingUnasked == Spec => NewlyShownSelected
<1>1. IInv /\ [Next]_vars =>
        [\A h \in Shown' \ Shown :
            h \in Selected(config)' \/ h \in config.entries \ config'.entries]_vars
  BY NewlyShown DEF IInv
<1> QED
  BY <1>1, Invariance, PTL DEF Spec, NewlyShownSelected

-----------------------------------------------------------------------------
(* The sizes: no array is overrun, and a selected host finds a slot.  Both  *)
(* are inductive together with the bookkeeping of TypeOK.                   *)

\* The part of a size a step can disturb.
LEMMA SubsetSize ==
    ASSUME NEW S \in SUBSET Hosts, NEW T \in SUBSET S
    PROVE  Cardinality(S) \in Nat /\ Cardinality(T) \in Nat /\ Cardinality(T) <= Cardinality(S)
  BY DeviceRegistryAssumption, FS_Subset, FS_CardinalityType

LEMMA AddedFits ==
    ASSUME NEW S \in SUBSET Hosts, NEW h \in Hosts, NEW cap \in Nat,
           Cardinality(S) <= cap, h \in S \/ ~(Cardinality(S) >= cap)
    PROVE  Cardinality(S \cup {h}) <= cap
<1>1. IsFiniteSet(S) /\ Cardinality(S) \in Nat
  BY DeviceRegistryAssumption, FS_Subset, FS_CardinalityType
<1>2. CASE h \in S
  BY <1>2, S \cup {h} = S
<1>3. CASE h \notin S
  <2>1. Cardinality(S \cup {h}) = Cardinality(S) + 1
    BY <1>1, <1>3, FS_AddElement
  <2>2. ~(Cardinality(S) >= cap)
    BY <1>3
  <2> QED
    BY <1>1, <2>1, <2>2
<1> QED
  BY <1>2, <1>3

LEMMA TruncationsFit ==
    ASSUME NEW posted \in SUBSET Hosts, NEW size \in Nat, NEW kept \in Truncations(posted, size)
    PROVE  kept \subseteq posted /\ Cardinality(kept) <= size
<1>1. Cardinality(posted) \in Nat
  BY SubsetSize
<1> QED
  BY <1>1 DEF Truncations

LEMMA DefaultsFit == WithinCaps(Defaults)
  BY DeviceRegistryAssumption, FS_EmptySet DEF WithinCaps, Defaults

\* Each change of a message respects the caps, and forgets no listed topic.
LEMMA AddAvailableTopicFits ==
    ASSUME NEW c \in Config, WithinCaps(c), NEW h \in Hosts
    PROVE  WithinCaps(AddAvailableTopic(c, h)) /\ c.listed \subseteq AddAvailableTopic(c, h).listed
<1> DEFINE d == [c EXCEPT !.listed = @ \cup {h}]
<1>1. c.listed \in SUBSET Hosts /\ MaxAvailable \in Nat
  BY DeviceRegistryAssumption DEF Config
<1>2. /\ d.listed = c.listed \cup {h} /\ d.entries = c.entries
      /\ d.enabled = c.enabled /\ d.allow = c.allow
  BY DEF Config
<1>3. CASE h \in c.listed \/ Cardinality(c.listed) >= MaxAvailable
  BY <1>3 DEF AddAvailableTopic
<1>4. CASE ~(h \in c.listed \/ Cardinality(c.listed) >= MaxAvailable)
  <2>1. Cardinality(c.listed \cup {h}) <= MaxAvailable
    BY <1>1, <1>4, AddedFits DEF WithinCaps
  <2>2. AddAvailableTopic(c, h) = d
    BY <1>4 DEF AddAvailableTopic
  <2> HIDE DEF d
  <2> QED
    BY <1>2, <2>1, <2>2 DEF WithinCaps
<1> QED
  BY <1>3, <1>4

LEMMA GetOrCreateDeviceFits ==
    ASSUME NEW c \in Config, WithinCaps(c), NEW h \in Hosts
    PROVE  WithinCaps(GetOrCreateDevice(c, h)) /\ GetOrCreateDevice(c, h).listed = c.listed
<1> DEFINE d == [c EXCEPT !.entries = @ \cup {h}]
<1>1. c.entries \in SUBSET Hosts /\ MaxDevices \in Nat
  BY DeviceRegistryAssumption DEF Config
<1>2. /\ d.entries = c.entries \cup {h} /\ d.listed = c.listed
      /\ d.enabled = c.enabled /\ d.allow = c.allow
  BY DEF Config
<1>3. CASE h \in c.entries \/ Cardinality(c.entries) >= MaxDevices
  BY <1>3 DEF GetOrCreateDevice
<1>4. CASE ~(h \in c.entries \/ Cardinality(c.entries) >= MaxDevices)
  <2>1. Cardinality(c.entries \cup {h}) <= MaxDevices
    BY <1>1, <1>4, AddedFits DEF WithinCaps
  <2>2. GetOrCreateDevice(c, h) = d
    BY <1>4 DEF GetOrCreateDevice
  <2> HIDE DEF d
  <2> QED
    BY <1>2, <2>1, <2>2 DEF WithinCaps
<1> QED
  BY <1>3, <1>4

LEMMA AutoEnableFits ==
    ASSUME NEW c \in Config, WithinCaps(c), NEW h \in Hosts
    PROVE  WithinCaps(AutoEnable(c, h)) /\ AutoEnable(c, h).listed = c.listed
  BY DEF AutoEnable, Config, WithinCaps

\* A write keeps the caps.
LEMMA WrittenFits ==
    ASSUME NEW c \in Config, WithinCaps(c), file \in Config, WithinCaps(file),
           NEW outcome \in Outcomes
    PROVE  Written(outcome, c) \in Config /\ WithinCaps(Written(outcome, c))
  BY WrittenIs, WrittenLoads, DefaultsFit

\* The parts of TypeOK.
ConfigsOK == /\ config \in Config /\ WithinCaps(config)
             /\ file \in Config /\ WithinCaps(file)
             /\ image \in Config /\ WithinCaps(image)
SlotsOK   == slots \subseteq Hosts /\ Cardinality(slots) <= MaxDevices
FlagsOK   == {needsSave, saving, begun, pendingRestart, partial, unsaved, resetAsked} \subseteq BOOLEAN
ChoicesOK == /\ accepted \in [server : BOOLEAN, allow : SUBSET Hosts]
             /\ doubtful \subseteq {"ram", "file", "image"}

Parts == ConfigsOK /\ SlotsOK /\ FlagsOK /\ ChoicesOK /\ subs \subseteq Hosts

LEMMA TypeParts == TypeOK <=> Parts /\ requests \in 0..MaxRequests
  BY DEF TypeOK, Parts, ConfigsOK, SlotsOK, FlagsOK, ChoicesOK

LEMMA ChoiceType ==
    ASSUME NEW c \in Config
    PROVE  Choice(c) \in [server : BOOLEAN, allow : SUBSET Hosts]
  BY DEF Choice, Config

LEMMA CommitFits ==
    ASSUME Parts, NEW c \in Config, WithinCaps(c), Commit(c)
    PROVE  Parts'
<1>1. PICK outcome \in Outcomes :
          /\ file' = Written(outcome, c)
          /\ unsaved' = (saving \/ outcome # "full")
          /\ pendingRestart' = (pendingRestart \/ outcome # "failed")
          /\ partial' = (partial \/ outcome = "failed")
          /\ IF outcome = "failed"
             THEN doubtful' = doubtful \cup {"ram"} /\ UNCHANGED accepted
             ELSE /\ doubtful' = OutOfReach \cup (IF outcome = "short" THEN {"file"} ELSE {})
                  /\ accepted' = Choice(c)
  BY DEF Commit
<1>2. /\ config' = c /\ resetAsked' = FALSE
      /\ UNCHANGED <<slots, subs, begun, needsSave, saving, image>>
  BY DEF Commit, sessionVars, saveVars
<1>3. file' \in Config /\ WithinCaps(file')
  BY <1>1, WrittenFits DEF Parts, ConfigsOK
<1>4. ConfigsOK' /\ SlotsOK' /\ subs' \subseteq Hosts
  BY <1>2, <1>3 DEF Parts, ConfigsOK, SlotsOK, WithinCaps
<1>5. FlagsOK'
  BY <1>1, <1>2 DEF Parts, FlagsOK
<1>6. ChoicesOK'
  BY <1>1, ChoiceType DEF Parts, ChoicesOK, OutOfReach
<1> QED
  BY <1>4, <1>5, <1>6 DEF Parts

LEMMA ReceiveFits ==
    ASSUME TypeOK, NEW h \in Hosts, Receive(h)
    PROVE  TypeOK'
<1> DEFINE c1 == AddAvailableTopic(config, h)
           c2 == GetOrCreateDevice(c1, h)
           c3 == AutoEnable(c2, h)
<1>1. ConfigsOK /\ SlotsOK /\ FlagsOK /\ ChoicesOK
  BY TypeParts DEF Parts
<1>2. c1 \in Config /\ WithinCaps(c1)
  BY <1>1, AddAvailableTopicKeeps, AddAvailableTopicFits DEF ConfigsOK
<1>3. c2 \in Config /\ WithinCaps(c2)
  <2> HIDE DEF c1
  <2> QED
    BY <1>2, GetOrCreateDeviceKeeps, GetOrCreateDeviceFits
<1>4. c3 \in Config /\ WithinCaps(c3)
  <2> HIDE DEF c1, c2
  <2> QED
    BY <1>3, AutoEnableKeeps, AutoEnableFits
<1>5. /\ config' = c3
      /\ needsSave' = (needsSave \/ c1 # config \/ c2 # c1 \/ c3 # c2)
      /\ unsaved' = (unsaved \/ (saving /\ config' # config))
      /\ slots' = slots \/ (slots' = slots \cup {h} /\ Cardinality(slots \cup {h}) <= MaxDevices)
      /\ UNCHANGED <<file, saving, image, subs, begun, pendingRestart, partial,
                     accepted, doubtful, requests, resetAsked>>
  BY DEF Receive, sessionVars, choiceVars
<1> HIDE DEF c1, c2, c3
<1>6. ConfigsOK'
  BY <1>1, <1>4, <1>5 DEF ConfigsOK
<1>7. SlotsOK'
  BY <1>1, <1>5 DEF SlotsOK
<1>8. FlagsOK'
  BY <1>1, <1>5 DEF FlagsOK
<1>9. ChoicesOK' /\ subs' \subseteq Hosts /\ requests' \in 0..MaxRequests
  BY <1>1, <1>5, TypeParts DEF Parts, ChoicesOK
<1> QED
  BY <1>6, <1>7, <1>8, <1>9, TypeParts DEF TypeOK, ConfigsOK, SlotsOK, FlagsOK, ChoicesOK

\* A purge and a visit of the display.
LEMMA TidyFits ==
    ASSUME TypeOK, Purge \/ \E h \in Hosts : DisplayVisit(h)
    PROVE  TypeOK'
<1>1. ConfigsOK /\ SlotsOK /\ FlagsOK /\ ChoicesOK
  BY TypeParts DEF Parts
<1>2. /\ UNCHANGED <<file, saving, image, slots, subs, begun, pendingRestart, partial,
                     unsaved, accepted, doubtful, requests, resetAsked>>
      /\ needsSave' \in BOOLEAN
  BY <1>1 DEF Purge, DisplayVisit, sessionVars, choiceVars, FlagsOK
<1>3. config' \in Config /\ WithinCaps(config')
  <2>1. CASE Purge
    <3>1. PICK expired \in SUBSET (config.listed \ config.allow) \ {{}} :
             config' = [config EXCEPT !.listed = @ \ expired]
      BY <2>1 DEF Purge
    <3>2. /\ config' \in Config /\ config'.listed = config.listed \ expired
          /\ config'.entries = config.entries
          /\ config'.enabled = config.enabled /\ config'.allow = config.allow
      BY <1>1, <3>1 DEF ConfigsOK, Config
    <3>3. /\ config.listed \in SUBSET Hosts /\ MaxAvailable \in Nat
          /\ config.listed \ expired \in SUBSET config.listed
      BY <1>1, DeviceRegistryAssumption DEF ConfigsOK, Config
    <3>4. Cardinality(config.listed \ expired) <= Cardinality(config.listed)
          /\ Cardinality(config.listed \ expired) \in Nat /\ Cardinality(config.listed) \in Nat
      BY <3>3, SubsetSize
    <3>5. Cardinality(config'.listed) <= MaxAvailable
      BY <1>1, <3>2, <3>3, <3>4 DEF ConfigsOK, WithinCaps
    <3> QED
      BY <1>1, <3>2, <3>5 DEF ConfigsOK, WithinCaps
  <2>2. ASSUME NEW h \in Hosts, DisplayVisit(h)
        PROVE  <1>3
    BY <2>2, <1>1, GetOrCreateDeviceKeeps, GetOrCreateDeviceFits DEF DisplayVisit, ConfigsOK
  <2> QED
    BY <2>1, <2>2
<1> QED
  BY <1>1, <1>2, <1>3 DEF TypeOK, SlotsOK, ConfigsOK, FlagsOK, ChoicesOK

LEMMA RequestFits ==
    ASSUME TypeOK, Request
    PROVE  Parts'
<1>1. Parts /\ ConfigsOK /\ SlotsOK /\ FlagsOK /\ ChoicesOK /\ subs \subseteq Hosts
  BY TypeParts DEF Parts
<1>2. ASSUME NEW server \in BOOLEAN, NEW rows \in SUBSET Hosts, NEW checked \in SUBSET rows,
             SavePage(server, rows, checked)
      PROVE  Parts'
  <2>1. PICK listed \in Truncations(rows, MaxAvailable), entries \in Truncations(rows, MaxDevices) :
           Commit([server |-> server, allow |-> checked, listed |-> listed,
                   entries |-> entries, enabled |-> checked \cap entries])
    BY <1>2 DEF SavePage
  <2> DEFINE c == [server |-> server, allow |-> checked, listed |-> listed,
                   entries |-> entries, enabled |-> checked \cap entries]
  <2>2. /\ listed \subseteq rows /\ Cardinality(listed) <= MaxAvailable
        /\ entries \subseteq rows /\ Cardinality(entries) <= MaxDevices
    BY DeviceRegistryAssumption, TruncationsFit
  <2>3. Cardinality(checked) <= MaxSubscribed
    BY <1>2 DEF SavePage, FitsAllowlist
  <2>4. c \in Config /\ WithinCaps(c)
    BY <2>2, <2>3 DEF Config, WithinCaps
  <2>5. Commit(c)
    BY <2>1
  <2> HIDE DEF c
  <2> QED
    BY <1>1, <2>4, <2>5, CommitFits
<1>3. ASSUME NEW server \in BOOLEAN, SaveWizard(server)
      PROVE  Parts'
  <2> DEFINE c == [config EXCEPT !.server = server, !.allow = {}]
  <2>1. /\ c \in Config /\ c.listed = config.listed /\ c.entries = config.entries
        /\ c.enabled = config.enabled /\ c.allow = {}
    BY <1>1 DEF ConfigsOK, Config
  <2>2. Cardinality(c.allow) <= MaxSubscribed
    BY <2>1, FS_EmptySet, DeviceRegistryAssumption
  <2>3. WithinCaps(c)
    BY <1>1, <2>1, <2>2 DEF WithinCaps, ConfigsOK
  <2>4. Commit(c)
    BY <1>3 DEF SaveWizard
  <2> HIDE DEF c
  <2> QED
    BY <1>1, <2>1, <2>3, <2>4, CommitFits
<1>4. ASSUME NEW server \in BOOLEAN, NEW topics \in SUBSET Hosts, RejectConfig(server, topics)
      PROVE  Parts'
  <2>1. /\ config' \in Config /\ config'.listed = config.listed
        /\ config'.entries = config.entries /\ config'.enabled = config.enabled
        /\ config'.allow = topics /\ Cardinality(topics) <= MaxSubscribed
    BY <1>1, <1>4 DEF RejectConfig, ConfigsOK, Config
  <2>2. /\ UNCHANGED <<file, saving, image, slots, subs, begun, needsSave, pendingRestart, accepted>>
        /\ doubtful' = doubtful \cup {"ram"}
        /\ partial' = TRUE /\ unsaved' = TRUE /\ resetAsked' = FALSE
    BY <1>4 DEF RejectConfig, saveVars, sessionVars
  <2> QED
    BY <1>1, <2>1, <2>2 DEF Parts, ConfigsOK, WithinCaps, SlotsOK, FlagsOK, ChoicesOK
<1>5. CASE CompleteSetup
  BY <1>1, <1>5, CommitFits DEF CompleteSetup, ConfigsOK
<1>6. CASE RequestReboot
  BY <1>1, <1>6
  DEF RequestReboot, saveVars, sessionVars, choiceVars, Parts, ConfigsOK, SlotsOK, FlagsOK,
      ChoicesOK
<1>7. CASE FactoryReset
  <2>1. /\ file' = Defaults /\ accepted' = Choice(Defaults)
        /\ doubtful' = {"ram"} \cup OutOfReach
        /\ pendingRestart' = TRUE /\ unsaved' = TRUE /\ resetAsked' = ~saving
        /\ UNCHANGED <<config, needsSave, saving, image, slots, subs, begun, partial>>
    BY <1>7 DEF FactoryReset, saveVars, sessionVars
  <2>2. ConfigsOK' /\ SlotsOK' /\ subs' \subseteq Hosts
    BY <1>1, <2>1, DefaultsConfig, DefaultsFit DEF ConfigsOK, SlotsOK
  <2>3. FlagsOK'
    BY <1>1, <2>1 DEF FlagsOK
  <2>4. ChoicesOK'
    BY <2>1, ChoiceType, DefaultsConfig DEF ChoicesOK, OutOfReach
  <2> QED
    BY <2>2, <2>3, <2>4 DEF Parts
<1> QED
  BY <1>2, <1>3, <1>4, <1>5, <1>6, <1>7 DEF Request

LEMMA InitTypeOK == Init => TypeOK
<1> SUFFICES ASSUME Init PROVE TypeOK
  OBVIOUS
<1>1. WithinCaps(file) /\ config = file /\ begun = file.server /\ image = Defaults
  BY DEF Init
<1>2. file \in Config
  BY InitIInv DEF IInv, Shape
<1>3. file.server \in BOOLEAN
  BY <1>2 DEF Config
<1>4. /\ slots = {} /\ subs = {} /\ requests = 0
      /\ needsSave = FALSE /\ saving = FALSE /\ pendingRestart = FALSE
      /\ partial = FALSE /\ unsaved = FALSE /\ resetAsked = FALSE
      /\ accepted = Choice(file) /\ doubtful = {}
  BY DEF Init
<1>5. Cardinality({}) <= MaxDevices /\ 0 \in 0..MaxRequests
  BY FS_EmptySet, DeviceRegistryAssumption
<1> QED
  BY <1>1, <1>2, <1>3, <1>4, <1>5, DefaultsConfig, DefaultsFit, ChoiceType DEF TypeOK

LEMMA NextTypeOK == TypeOK /\ [Next]_vars => TypeOK'
<1> SUFFICES ASSUME TypeOK, [Next]_vars PROVE TypeOK'
  OBVIOUS
<1>1. /\ ConfigsOK /\ SlotsOK /\ FlagsOK /\ ChoicesOK
      /\ subs \subseteq Hosts /\ requests \in 0..MaxRequests
  BY TypeParts DEF Parts
<1>2. CASE \E h \in Hosts : Receive(h) \/ DisplayVisit(h)
  BY <1>2, ReceiveFits, TidyFits
<1>3. CASE Purge
  BY <1>3, TidyFits
<1>4. CASE Connect \/ GiveUp \/ Disconnect \/ UNCHANGED vars
  <2>1. /\ UNCHANGED <<config, file, needsSave, saving, image, slots, pendingRestart, partial,
                       unsaved, accepted, doubtful, requests, resetAsked>>
        /\ begun' \in {begun, FALSE} /\ subs' \in {subs, {}, Selected(config)}
    BY <1>4 DEF Connect, GiveUp, Disconnect, vars, saveVars, sessionVars, choiceVars
  <2>2. begun' \in BOOLEAN /\ subs' \subseteq Hosts
    BY <1>1, <2>1 DEF FlagsOK, ConfigsOK, Config, Selected
  <2> QED
    BY <2>1, <2>2 DEF TypeOK
<1>5. CASE BeginSave
  <2>1. /\ UNCHANGED <<config, file, needsSave, slots, subs, begun, pendingRestart, partial,
                       accepted, requests, resetAsked>>
        /\ saving' = TRUE /\ image' = config /\ unsaved' = FALSE
        /\ doubtful' = doubtful \/ doubtful' = doubtful \cup {"image"}
    BY <1>5 DEF BeginSave, sessionVars
  <2> QED
    BY <1>1, <2>1 DEF TypeOK, ConfigsOK, ChoicesOK
<1>6. CASE EndSave
  <2>1. PICK outcome \in Outcomes :
           file' = Written(outcome, image) /\ unsaved' = (unsaved \/ outcome # "full")
    BY <1>6 DEF EndSave
  <2>2. file' \in Config /\ WithinCaps(file') /\ unsaved' \in BOOLEAN
    BY <1>1, <2>1, WrittenFits DEF ConfigsOK, FlagsOK
  <2>3. /\ UNCHANGED <<config, slots, subs, begun, pendingRestart, partial,
                       accepted, requests, resetAsked>>
        /\ needsSave' = FALSE /\ saving' = FALSE /\ image' = Defaults
        /\ doubtful' \subseteq {"ram", "file"}
    BY <1>6 DEF EndSave, sessionVars
  <2> QED
    BY <1>1, <2>2, <2>3, DefaultsConfig, DefaultsFit DEF TypeOK, ChoicesOK
<1>7. CASE requests < MaxRequests /\ requests' = requests + 1 /\ Request
  <2>1. requests' \in 0..MaxRequests
    BY <1>1, <1>7, DeviceRegistryAssumption
  <2> QED
    BY <1>7, <2>1, RequestFits DEF TypeOK, Parts, ConfigsOK, SlotsOK, FlagsOK, ChoicesOK
<1>8. CASE Reboot
  <2>1. Cardinality({}) <= MaxDevices /\ 0 \in 0..MaxRequests
    BY FS_EmptySet, DeviceRegistryAssumption
  <2>2. file.server \in BOOLEAN
    BY <1>1 DEF ConfigsOK, Config
  <2> QED
    BY <1>1, <1>8, <2>1, <2>2, DefaultsConfig, DefaultsFit
    DEF Reboot, TypeOK, ConfigsOK, ChoicesOK
<1> QED
  BY <1>2, <1>3, <1>4, <1>5, <1>6, <1>7, <1>8 DEF Next

\* Every variable keeps its type, and no array of the configuration, its file or
\* the store is overrun, for any number of hosts.
THEOREM TypeCorrect == Spec => []TypeOK
  BY InitTypeOK, NextTypeOK, PTL DEF Spec

LEMMA InitFits == Init => SelectedFits
<1> SUFFICES ASSUME Init PROVE Cardinality(slots \cup config.allow) <= MaxDevices
  BY DEF SelectedFits
<1>1. WithinCaps(config) /\ config \in Config /\ slots = {}
  BY InitTypeOK DEF Init, TypeOK
<1>2. Cardinality(config.allow) \in Nat /\ Cardinality(config.allow) <= MaxSubscribed
  BY <1>1, SubsetSize DEF WithinCaps, Config
<1> QED
  BY <1>1, <1>2, DeviceRegistryAssumption, slots \cup config.allow = config.allow

\* With an allowlist a message takes a slot for a selected host, which was counted
\* already; whatever changes the allowlist is followed by a restart, which empties
\* the slots, or was refused.
LEMMA NextFits == TypeOK /\ SelectedFits /\ [Next]_vars => SelectedFits'
<1> SUFFICES ASSUME TypeOK, SelectedFits, [Next]_vars PROVE SelectedFits'
  OBVIOUS
<1>1. Shape /\ config \in Config /\ file \in Config /\ WithinCaps(file)
  BY DEF TypeOK, Shape
<1>2. ASSUME UNCHANGED <<slots, pendingRestart, partial>>, config'.allow = config.allow
      PROVE  SelectedFits'
  BY <1>2 DEF SelectedFits
<1>3. ASSUME NEW h \in Hosts, Receive(h) \/ DisplayVisit(h)
      PROVE  SelectedFits'
  <2>1. CASE Receive(h)
    <3>1. /\ h \in Selected(config) /\ config'.allow = config.allow
          /\ UNCHANGED <<pendingRestart, partial>>
      BY <2>1, <1>1, ReceiveFacts
    <3>2. slots' = slots \/ slots' = slots \cup {h}
      BY <2>1 DEF Receive
    <3>3. config.allow # {} => slots' \cup config'.allow = slots \cup config.allow
      BY <3>1, <3>2 DEF Selected
    <3> QED
      BY <3>1, <3>3 DEF SelectedFits
  <2>2. CASE DisplayVisit(h)
    BY <1>1, <1>2, <2>2, GetOrCreateDeviceKeeps DEF DisplayVisit
  <2> QED
    BY <1>3, <2>1, <2>2
<1>4. CASE Purge
  BY <1>1, <1>2, <1>4 DEF Purge, Config
<1>5. CASE Connect \/ GiveUp \/ Disconnect \/ BeginSave \/ EndSave \/ UNCHANGED vars
  BY <1>2, <1>5 DEF Connect, GiveUp, Disconnect, BeginSave, EndSave, vars
<1>6. CASE Request
  <2>1. ASSUME NEW c, Commit(c)
        PROVE  pendingRestart' \/ partial'
    BY <2>1 DEF Commit
  <2>2. pendingRestart' \/ partial'
    BY <1>6, <2>1 DEF Request, SavePage, SaveWizard, RejectConfig, CompleteSetup,
                      RequestReboot, FactoryReset
  <2> QED
    BY <2>2 DEF SelectedFits
<1>7. CASE Reboot
  <2>1. config' = file /\ slots' = {}
    BY <1>7 DEF Reboot
  <2>2. Cardinality(file.allow) \in Nat /\ Cardinality(file.allow) <= MaxSubscribed
    BY <1>1, SubsetSize DEF WithinCaps, Config
  <2>3. slots' \cup config'.allow = file.allow
    BY <2>1
  <2> QED
    BY <2>2, <2>3, DeviceRegistryAssumption DEF SelectedFits
<1> QED
  BY <1>3, <1>4, <1>5, <1>6, <1>7 DEF Next

\* A selected host has a slot or finds one free, for any number of hosts and slots:
\* none that is not selected ever takes one it cannot give back.
THEOREM SelectedFindSlots == Spec => []SelectedFits
<1>1. Spec => [](TypeOK /\ SelectedFits)
  BY InitTypeOK, NextTypeOK, InitFits, NextFits, PTL DEF Spec
<1> QED
  BY <1>1, PTL

\* The broker changes only with a restart on its way or in a request that was
\* refused; an attempt gives up only without one.
LEMMA NextServerUsed == TypeOK /\ ServerUsed /\ [Next]_vars => ServerUsed'
<1> SUFFICES ASSUME TypeOK, ServerUsed, [Next]_vars PROVE ServerUsed'
  OBVIOUS
<1>1. Shape /\ config \in Config
  BY DEF TypeOK, Shape
<1>2. ASSUME UNCHANGED <<begun, pendingRestart, partial>>, config'.server = config.server
      PROVE  ServerUsed'
  BY <1>2 DEF ServerUsed
<1>3. ASSUME NEW h \in Hosts, Receive(h) \/ DisplayVisit(h)
      PROVE  ServerUsed'
  <2>1. CASE Receive(h)
    BY <1>1, <1>2, <2>1, ReceiveFacts DEF Receive, sessionVars
  <2>2. CASE DisplayVisit(h)
    BY <1>1, <1>2, <2>2, GetOrCreateDeviceKeeps DEF DisplayVisit, sessionVars
  <2> QED
    BY <1>3, <2>1, <2>2
<1>4. CASE Purge
  BY <1>1, <1>2, <1>4 DEF Purge, Config, sessionVars
<1>5. CASE GiveUp
  BY <1>5 DEF GiveUp, ServerUsed
<1>6. CASE Connect \/ Disconnect \/ BeginSave \/ EndSave \/ UNCHANGED vars
  BY <1>2, <1>6 DEF Connect, Disconnect, BeginSave, EndSave, vars, sessionVars
<1>7. CASE Request
  <2>1. ASSUME NEW c, Commit(c)
        PROVE  pendingRestart' \/ partial'
    BY <2>1 DEF Commit
  <2>2. pendingRestart' \/ partial'
    BY <1>7, <2>1 DEF Request, SavePage, SaveWizard, RejectConfig, CompleteSetup,
                      RequestReboot, FactoryReset
  <2> QED
    BY <2>2 DEF ServerUsed
<1>8. CASE Reboot
  BY <1>8 DEF Reboot, ServerUsed
<1> QED
  BY <1>3, <1>4, <1>5, <1>6, <1>7, <1>8 DEF Next

\* A broker the device has is one it connects to, unless a restart is on its way or
\* a request was refused midway.
THEOREM BrokerUsed == Spec => []ServerUsed
<1>1. Init => ServerUsed
  BY DEF Init, ServerUsed
<1> QED
  BY <1>1, TypeCorrect, NextServerUsed, PTL DEF Spec

-----------------------------------------------------------------------------
(* What brings the broker back after a factory reset. *)

\* From a reset until its restart the file stays gone, unless something is saved.
ResetStands == resetAsked => file = Defaults /\ ~saving

LEMMA NextResetStands ==
    ASSUME ResetStands, [Next]_vars, ~(resetAsked /\ BeginSave)
    PROVE  ResetStands'
<1>1. CASE UNCHANGED <<file, saving, resetAsked>>
  BY <1>1 DEF ResetStands
<1>2. CASE BeginSave \/ EndSave
  BY <1>2 DEF BeginSave, EndSave, ResetStands
<1>3. CASE Request
  <2>1. ASSUME NEW c, Commit(c)
        PROVE  ~resetAsked'
    BY <2>1 DEF Commit
  <2>2. ~resetAsked' \/ FactoryReset \/ RequestReboot
    BY <1>3, <2>1 DEF Request, SavePage, SaveWizard, RejectConfig, CompleteSetup
  <2>3. FactoryReset => file' = Defaults /\ resetAsked' = ~saving /\ saving' = saving
    BY DEF FactoryReset, saveVars
  <2>4. RequestReboot => UNCHANGED <<file, saving, resetAsked>>
    BY DEF RequestReboot, saveVars
  <2> QED
    BY <1>1, <2>2, <2>3, <2>4 DEF ResetStands
<1>4. CASE Reboot
  BY <1>4 DEF Reboot, ResetStands
<1>5. UNCHANGED <<file, saving, resetAsked>> \/ BeginSave \/ EndSave \/ Request \/ Reboot
  BY DEF Next, Receive, DisplayVisit, Purge, Connect, GiveUp, Disconnect, vars, saveVars
<1> QED
  BY <1>1, <1>2, <1>3, <1>4, <1>5

\* A factory reset that comes while no save is under way is undone by one thing
\* alone, a deferred save that begins between it and its restart: in a behaviour
\* without one, whatever else is received, shown or fails, the first boot after
\* such a reset has no broker (ResetForgetsBroker).
THEOREM OnlyASaveUndoesReset ==
    Spec /\ [][~(resetAsked /\ BeginSave)]_vars => ResetForgetsBroker
<1>1. Init => ResetStands
  BY DEF Init, ResetStands
<1>2. ResetStands /\ [Next]_vars /\ [~(resetAsked /\ BeginSave)]_vars => ResetStands'
  <2>1. UNCHANGED vars /\ ResetStands => ResetStands'
    BY DEF vars, saveVars, ResetStands
  <2> QED
    BY <2>1, NextResetStands
<1>3. ResetStands => [Reboot /\ resetAsked => ~config'.server]_vars
  BY DEF Reboot, ResetStands, Defaults
<1> QED
  BY <1>1, <1>2, <1>3, PTL DEF Spec, ResetForgetsBroker
=============================================================================
