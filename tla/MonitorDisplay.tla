--------------------------- MODULE MonitorDisplay ---------------------------
(***************************************************************************)
(* The screen: which host's figures it shows, the carousel, the lock, and  *)
(* the flags that decide how much of it is drawn again.                    *)
(*                                                                         *)
(* loop() of main.cpp polls the touch sensor, runs the transport and then  *)
(* the display.  Drawing yields between and inside its rows, so messages   *)
(* come in while a screen is half drawn; a row into which a message falls  *)
(* is one the message made stale just after it was drawn.  Intervals have  *)
(* passed whenever a step is taken; _pendingVisibleUpdate only shortens    *)
(* one of them.  The footer (age, address, MQTT state) is left out.        *)
(***************************************************************************)
EXTENDS DeviceStore

CONSTANTS NoHost,         \* the empty host name
          Listed,         \* hosts with an entry in the configuration
          AutoCarousel    \* config.autoCarousel

ASSUME DisplayAssumption ==
    /\ NoHost \notin Hosts /\ Listed \subseteq Hosts /\ AutoCarousel \in BOOLEAN

VARIABLES
    current,      \* _currentDevice
    force,        \* _forceRedraw
    lastHost,     \* _lastHostname
    locked,       \* _locked
    lockedHost,   \* _lockedHostname
    pc,           \* idle; drawing the rows of a host; showing LOCKED or UNLOCKED
    slot,         \* the host showDevice() is drawing
    todo,         \* the rows it has yet to draw
    screen,       \* what the screen shows, and of which host
    stale         \* rows on the screen that are not those of the host's frame

displayVars == <<current, force, lastHost, locked, lockedHost, pc, slot, todo, screen, stale>>
vars == <<storeVars, displayVars>>

Device(h)  == [kind |-> "device", host |-> h]
Offline(h) == [kind |-> "offline", host |-> h]
Waiting    == [kind |-> "waiting", host |-> NoHost]
Other      == [kind |-> "other", host |-> NoHost]    \* start-up screens, LOCKED, UNLOCKED

Screens == {Device(h) : h \in Hosts} \cup {Offline(h) : h \in Hosts} \cup {Waiting, Other}

TypeOK ==
    /\ StoreTypeOK
    /\ current \in Nat /\ current < MaxDevices
    /\ force \in BOOLEAN /\ locked \in BOOLEAN
    /\ {lastHost, lockedHost, slot} \subseteq Hosts \cup {NoHost}
    /\ pc \in {"idle", "drawing", "splash"}
    /\ todo \subseteq Rows /\ stale \subseteq Rows
    /\ screen \in Screens

Init ==
    /\ StoreInit
    /\ current = 0 /\ force = TRUE /\ lastHost = NoHost
    /\ locked = FALSE /\ lockedHost = NoHost
    /\ pc = "idle" /\ slot = NoHost /\ todo = {}
    /\ screen = Other /\ stale = {}

-----------------------------------------------------------------------------
(* Messages and silence. *)

\* handleMessage() accepts a message: any rows may have changed, and a row that was
\* stale may by chance be right again.
Receive ==
    /\ \E h \in Hosts, changed \in SUBSET Rows :
         \/ /\ UpdateKnown(h, changed)
            /\ IF screen = Device(h)
               THEN \E back \in SUBSET (changed \cap stale) : stale' = (stale \cup changed) \ back
               ELSE UNCHANGED stale
         \/ UpdateNew(h) /\ UNCHANGED stale
    /\ UNCHANGED <<current, force, lastHost, locked, lockedHost, pc, slot, todo, screen>>

\* The offline check of MQTTTransport::loop().
OfflineCheck ==
    /\ pc = "idle"
    /\ \E h \in Hosts : MarkOffline(h)
    /\ UNCHANGED displayVars

-----------------------------------------------------------------------------
(* The touch sensor's events, as loop() of main.cpp handles them. *)

\* Mutants of NextIndex: the index is not brought back; the carousel stops at the
\* last device.
NextIndexNoWrap == current + 1
NextIndexStops == IF current + 1 < OnlineCount THEN current + 1 ELSE current

NextIndex == (current + 1) % OnlineCount

\* TAP: nextDevice().
Tap ==
    /\ pc = "idle" /\ ~locked /\ OnlineCount > 1
    /\ current' = NextIndex /\ force' = TRUE
    /\ UNCHANGED <<storeVars, lastHost, locked, lockedHost, pc, slot, todo, screen, stale>>

\* LONG_PRESS: toggleLock(), and a message over the whole screen.
LongPress ==
    /\ pc = "idle"
    /\ locked' = ~locked
    /\ lockedHost' = IF locked THEN NoHost
                     ELSE IF OnlineAt(current) = {} THEN lockedHost
                     ELSE slots[CHOOSE i \in OnlineAt(current) : TRUE]
    /\ force' = TRUE
    /\ pc' = "splash" /\ screen' = Other /\ stale' = {}
    /\ UNCHANGED <<storeVars, current, lastHost, slot, todo>>

\* The message has been up for its 1.5 s.
SplashOver ==
    /\ pc = "splash"
    /\ pc' = "idle" /\ force' = TRUE
    /\ UNCHANGED <<storeVars, current, lastHost, locked, lockedHost, slot, todo, screen, stale>>

-----------------------------------------------------------------------------
(* MonitorDisplay::loop(). *)

\* autoRotateIfNeeded(), the display time of the current device over.
AutoRotate ==
    /\ pc = "idle" /\ ~locked /\ AutoCarousel /\ OnlineCount > 1
    /\ current' = NextIndex /\ force' = TRUE
    /\ UNCHANGED <<storeVars, lastHost, locked, lockedHost, pc, slot, todo, screen, stale>>

\* Mutant of HeaderRedraw: another host is not noticed.
HeaderRedrawSameHost(h, forced) == forced \/ Online \in dirty[h]

\* shouldRedrawDeviceHeader().
HeaderRedraw(h, forced) == forced \/ lastHost # h \/ Online \in dirty[h]

\* Mutant of RowsToDraw: a changed row waits for the next full redraw.
RowsToDrawFullOnly(h, header) == IF header THEN Rows ELSE {}

\* The rows showDevice() draws: all of them under a new header, else those marked.
RowsToDraw(h, header) == IF header THEN Rows ELSE dirty[h] \cap Rows

\* showDevice() up to its rows: the marks are taken before anything is drawn.
ShowDevice(h, forced) ==
    LET header == HeaderRedraw(h, forced) IN
    /\ dirty' = [dirty EXCEPT ![h] = {}]
    /\ slot' = h /\ todo' = RowsToDraw(h, header)
    /\ pc' = IF todo' = {} THEN "idle" ELSE "drawing"
    /\ IF header
       THEN screen' = Device(h) /\ stale' = Rows /\ lastHost' = h /\ force' = FALSE
       ELSE UNCHANGED <<screen, stale, lastHost>> /\ force' = forced

\* refresh() with a device online: the index is brought back into range first.
RefreshDevice ==
    /\ pc = "idle" /\ OnlineCount > 0
    /\ current' = IF current >= OnlineCount THEN 0 ELSE current
    /\ \E i \in OnlineAt(current') : ShowDevice(slots[i], force \/ current >= OnlineCount)
    /\ UNCHANGED <<slots, online, locked, lockedHost>>

\* The first of these rows is drawn, with the figures the frame has by now.
DrawRow ==
    /\ pc = "drawing"
    /\ \E r \in todo :
         /\ \A s \in todo : r <= s
         /\ todo' = todo \ {r} /\ stale' = stale \ {r}
    /\ pc' = IF todo' = {} THEN "idle" ELSE "drawing"
    /\ UNCHANGED <<storeVars, current, force, lastHost, locked, lockedHost, slot, screen>>

\* findFirstOfflineEnabledDevice().
FirstOffline ==
    {i \in DOMAIN slots : /\ slots[i] \in Listed \ online
                          /\ \A j \in 1..(i - 1) : slots[j] \notin Listed \ online}

\* refresh() with no device online, one of them known: showOfflineDevice().
RefreshOffline ==
    /\ pc = "idle" /\ OnlineCount = 0
    /\ \E i \in FirstOffline :
         IF force \/ lastHost # slots[i]
         THEN /\ screen' = Offline(slots[i]) /\ stale' = {}
              /\ lastHost' = slots[i] /\ force' = FALSE
         ELSE UNCHANGED <<screen, stale, lastHost, force>>
    /\ UNCHANGED <<storeVars, current, locked, lockedHost, pc, slot, todo>>

\* refresh() with none: showNoDevice().
RefreshWaiting ==
    /\ pc = "idle" /\ OnlineCount = 0 /\ FirstOffline = {}
    /\ IF force
       THEN screen' = Waiting /\ stale' = {} /\ lastHost' = NoHost /\ force' = FALSE
       ELSE UNCHANGED <<screen, stale, lastHost, force>>
    /\ UNCHANGED <<storeVars, current, locked, lockedHost, pc, slot, todo>>

Refresh == RefreshDevice \/ RefreshOffline \/ RefreshWaiting

-----------------------------------------------------------------------------

Next ==
    \/ Receive \/ OfflineCheck
    \/ Tap \/ LongPress \/ SplashOver
    \/ AutoRotate \/ Refresh \/ DrawRow

Spec == Init /\ [][Next]_vars

\* loop() keeps calling the display, and drawing comes to an end.
FairSpec == /\ Spec
            /\ SF_vars(AutoRotate)
            /\ WF_vars(Refresh) /\ WF_vars(DrawRow) /\ WF_vars(SplashOver)

-----------------------------------------------------------------------------
(* Properties. *)

\* A row that shows other figures than the host's last ones is marked, or is about
\* to be drawn: a message that arrives between the taking of the marks and the
\* drawing of a row, or in the middle of it, is not lost.
Coherent ==
    screen.kind = "device" =>
        stale \subseteq dirty[screen.host] \cup (IF pc = "drawing" THEN todo ELSE {})

\* Figures are drawn only below the name of the host they belong to: no sequence of
\* hosts coming, going and changing places lets a refresh skip the header.
DrawsUnderOwnName == pc = "drawing" => screen = Device(slot)

\* An OFFLINE screen is about a host that is silent; once the host is heard again
\* the next time it is shown the whole screen is drawn.
OfflineIsTrue ==
    screen.kind = "offline" /\ screen.host \in online => Online \in dirty[screen.host]

\* The carousel shows every online host again and again, whatever index it was left
\* at and however it is tapped, unless hosts come and go, or it is turned before the
\* last turn was drawn (forced redraws come within 90 ms, turns and taps after a
\* second or more).
CarouselGoesRound ==
    AutoCarousel => \A h \in Hosts :
        \/ []<>~(h \in online /\ ~locked)
        \/ []<>(screen = Device(h))
        \/ []<><<online' # online \/ ((Tap \/ AutoRotate) /\ force)>>_vars

\* When no more messages come, the figures of an online host become those that
\* came last.  (A host that has gone silent keeps the screen as it is.)
FiguresCatchUp ==
    \/ []<>(screen.kind = "device" /\ screen.host \in online => stale = {})
    \/ []<><<Receive>>_vars

\* "Remember the current device's host name when locking" (toggleLock), which the
\* status page reports as the locked device: while that host is online, the
\* figures on the screen are its.
LockedHostShown ==
    pc = "idle" /\ locked /\ ~force /\ screen.kind = "device" /\ lockedHost \in online
        => screen.host = lockedHost
=============================================================================
