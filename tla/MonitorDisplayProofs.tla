------------------------ MODULE MonitorDisplayProofs ------------------------
(***************************************************************************)
(* Proofs about MonitorDisplay for any finite or infinite set of hosts and *)
(* any number of slots and rows: TLC checks the same invariants with one   *)
(* row, where no message can come between two of them.                     *)
(***************************************************************************)
EXTENDS MonitorDisplay, FiniteSetTheorems, TLAPS

\* What lets a refresh skip the header: when nothing asks for a full redraw, the
\* screen is about the host that was drawn last.
ScreenOfLast ==
    ~force /\ lastHost # NoHost => screen \in {Device(lastHost), Offline(lastHost)}

IInv == TypeOK /\ Coherent /\ DrawsUnderOwnName /\ OfflineIsTrue /\ ScreenOfLast

-----------------------------------------------------------------------------
(* The slots. *)

\* There are no more online slots than slots.
LEMMA OnlineCountBounded ==
    ASSUME StoreTypeOK
    PROVE  OnlineCount \in Nat /\ OnlineCount <= MaxDevices
<1> DEFINE Up == {i \in DOMAIN slots : slots[i] \in online}
<1>1. Len(slots) \in Nat /\ DOMAIN slots = 1..Len(slots)
  BY DEF StoreTypeOK
<1>2. IsFiniteSet(1..Len(slots)) /\ Cardinality(1..Len(slots)) = Len(slots)
  <2>0. 1 \in Int /\ Len(slots) \in Int
    BY <1>1
  <2>1. /\ IsFiniteSet(1..Len(slots))
        /\ Cardinality(1..Len(slots)) = IF 1 > Len(slots) THEN 0 ELSE Len(slots) - 1 + 1
    BY <2>0, FS_Interval, Zenon
  <2> QED
    BY <1>1, <2>1
<1>3. Up \subseteq 1..Len(slots)
  BY <1>1
<1>4. IsFiniteSet(Up) /\ Cardinality(Up) <= Cardinality(1..Len(slots))
  BY <1>2, <1>3, FS_Subset
<1>5. Cardinality(Up) \in Nat
  BY <1>4, FS_CardinalityType
<1>6. OnlineCount = Cardinality(Up)
  BY DEF OnlineCount
<1> QED
  BY <1>1, <1>2, <1>4, <1>5, <1>6, StoreAssumption DEF StoreTypeOK

\* The slot that is shown holds a host that is online.
LEMMA OnlineAtOnline ==
    ASSUME StoreTypeOK, NEW index, NEW i \in OnlineAt(index)
    PROVE  slots[i] \in Hosts /\ slots[i] \in online
  BY DEF OnlineAt, StoreTypeOK

\* The next turn of the carousel stays among the online slots.
LEMMA NextIndexInRange ==
    ASSUME StoreTypeOK, current \in Nat, OnlineCount > 1
    PROVE  NextIndex \in Nat /\ NextIndex < MaxDevices
<1> DEFINE c == OnlineCount
<1>1. c \in Nat \ {0} /\ c <= MaxDevices
  BY OnlineCountBounded
<1> HIDE DEF c
<1>2. (current + 1) % c \in 0..(c - 1)
  BY <1>1
<1>3. NextIndex = (current + 1) % c
  BY DEF NextIndex, c
<1> QED
  BY <1>1, <1>2, <1>3, StoreAssumption

\* What a message changes in the store: marks are added, the changed rows and a
\* return from offline among them.
LEMMA UpdateFacts ==
    ASSUME StoreTypeOK, NEW h \in Hosts, NEW changed \in SUBSET Rows,
           UpdateKnown(h, changed) \/ UpdateNew(h)
    PROVE  /\ StoreTypeOK'
           /\ \A g \in Hosts : dirty[g] \subseteq dirty'[g]
           /\ \A g \in Hosts : g \in online' \ online => Online \in dirty'[g]
           /\ UpdateKnown(h, changed) => changed \subseteq dirty'[h]
<1>1. CASE UpdateKnown(h, changed)
  <2>1. dirty' \in [Hosts -> SUBSET Marks]
    BY <1>1 DEF StoreTypeOK, UpdateKnown, MarksOfUpdate, Marks
  <2> QED
    BY <1>1, <2>1 DEF StoreTypeOK, UpdateKnown, MarksOfUpdate, Known
<1>2. CASE UpdateNew(h)
  <2>1. slots' \in Seq(Hosts) /\ Len(slots') = Len(slots) + 1 /\ h = slots'[Len(slots')]
        /\ \A i \in DOMAIN slots : i \in DOMAIN slots' /\ slots'[i] = slots[i]
    BY <1>2 DEF StoreTypeOK, UpdateNew
  <2>2. Known \cup {h} \subseteq Known'
    BY <2>1 DEF Known, StoreTypeOK
  <2>3. Len(slots') <= MaxDevices
    BY <1>2, <2>1, StoreAssumption DEF StoreTypeOK, UpdateNew
  <2>4. dirty' \in [Hosts -> SUBSET Marks]
    BY <1>2 DEF StoreTypeOK, UpdateNew
  <2>5. StoreTypeOK'
    BY <1>2, <2>1, <2>2, <2>3, <2>4 DEF StoreTypeOK, UpdateNew
  <2>6. \A g \in Hosts : dirty[g] \subseteq dirty'[g]
    BY <1>2 DEF StoreTypeOK, UpdateNew
  <2>7. \A g \in Hosts : g \in online' \ online => Online \in dirty'[g]
    BY <1>2 DEF StoreTypeOK, UpdateNew, Marks
  <2>8. ~UpdateKnown(h, changed)
    BY <1>2 DEF UpdateKnown, UpdateNew
  <2> QED
    BY <2>5, <2>6, <2>7, <2>8
<1> QED
  BY <1>1, <1>2

\* What the offline check changes in it.
LEMMA OfflineFacts ==
    ASSUME StoreTypeOK, NEW h \in Hosts, MarkOffline(h)
    PROVE  /\ StoreTypeOK'
           /\ \A g \in Hosts : dirty[g] \subseteq dirty'[g]
           /\ online' \subseteq online
<1>1. dirty' \in [Hosts -> SUBSET Marks]
  BY DEF StoreTypeOK, MarkOffline, Marks
<1> QED
  BY <1>1 DEF StoreTypeOK, MarkOffline, Known

\* What kind of screen is which.
LEMMA ScreenKinds ==
    /\ \A h : Device(h).kind = "device" /\ Device(h).host = h
    /\ \A h : Offline(h).kind = "offline" /\ Offline(h).host = h
    /\ Waiting.kind = "waiting" /\ Other.kind = "other"
    /\ \A s \in Screens : s.kind \in {"device", "offline"} => s.host \in Hosts
    /\ \A s \in Screens : s.kind = "device" => s = Device(s.host)
    /\ \A s \in Screens : s.kind = "offline" => s = Offline(s.host)
  BY DEF Screens, Device, Offline, Waiting, Other
-----------------------------------------------------------------------------
(* The invariant. *)

LEMMA InitEstablishes == Init => IInv
<1> SUFFICES ASSUME Init PROVE IInv
  OBVIOUS
<1>1. StoreTypeOK
  BY StoreAssumption DEF Init, StoreInit, StoreTypeOK, Known
<1>2. screen = Other /\ screen \in Screens /\ screen.kind = "other"
  BY ScreenKinds DEF Init, Screens
<1>3. current \in Nat /\ current < MaxDevices
  BY StoreAssumption DEF Init
<1>4. {lastHost, lockedHost, slot} \subseteq Hosts \cup {NoHost}
  BY DEF Init
<1>5. TypeOK
  BY <1>1, <1>2, <1>3, <1>4 DEF Init, TypeOK
<1> QED
  BY <1>2, <1>5 DEF Init, IInv, Coherent, DrawsUnderOwnName, OfflineIsTrue, ScreenOfLast

\* A message: whatever becomes stale is marked.
LEMMA ReceiveKeeps == IInv /\ Receive => IInv'
<1> SUFFICES ASSUME IInv, Receive PROVE IInv'
  OBVIOUS
<1>1. PICK h \in Hosts, changed \in SUBSET Rows :
         \/ /\ UpdateKnown(h, changed)
            /\ IF screen = Device(h)
               THEN \E back \in SUBSET (changed \cap stale) : stale' = (stale \cup changed) \ back
               ELSE UNCHANGED stale
         \/ UpdateNew(h) /\ UNCHANGED stale
  BY DEF Receive
<1>2. StoreTypeOK /\ StoreTypeOK'
      /\ (\A g \in Hosts : dirty[g] \subseteq dirty'[g])
      /\ (\A g \in Hosts : g \in online' \ online => Online \in dirty'[g])
      /\ (UpdateKnown(h, changed) => changed \subseteq dirty'[h])
  BY <1>1, UpdateFacts DEF IInv, TypeOK
<1>3. UNCHANGED <<current, force, lastHost, locked, lockedHost, pc, slot, todo, screen>>
  BY DEF Receive
<1>4. stale' \subseteq Rows /\ stale' \subseteq stale \cup changed
      /\ (screen # Device(h) => stale' = stale) /\ (UpdateNew(h) /\ ~UpdateKnown(h, changed) => stale' = stale)
  BY <1>1 DEF IInv, TypeOK
<1>5. TypeOK'
  BY <1>2, <1>3, <1>4 DEF IInv, TypeOK
<1>6. Coherent'
  <2> SUFFICES ASSUME screen.kind = "device"
               PROVE  stale' \subseteq dirty'[screen.host] \cup (IF pc = "drawing" THEN todo ELSE {})
    BY <1>3 DEF Coherent
  <2>1. screen.host \in Hosts /\ screen = Device(screen.host)
    BY ScreenKinds DEF IInv, TypeOK
  <2>2. stale \subseteq dirty[screen.host] \cup (IF pc = "drawing" THEN todo ELSE {})
    BY DEF IInv, Coherent
  <2>3. CASE stale' = stale
    BY <1>2, <2>1, <2>2, <2>3
  <2>4. CASE UpdateKnown(h, changed) /\ screen = Device(h)
    <3>1. screen.host = h
      BY <2>4, ScreenKinds
    <3> QED
      BY <1>2, <1>4, <2>1, <2>2, <2>4, <3>1
  <2> QED
    BY <1>1, <1>4, <2>3, <2>4
<1>7. DrawsUnderOwnName' /\ ScreenOfLast'
  BY <1>3 DEF IInv, DrawsUnderOwnName, ScreenOfLast, Device, Offline
<1>8. OfflineIsTrue'
  <2> SUFFICES ASSUME screen.kind = "offline", screen.host \in online'
               PROVE  Online \in dirty'[screen.host]
    BY <1>3 DEF OfflineIsTrue
  <2>1. screen.host \in Hosts
    BY ScreenKinds DEF IInv, TypeOK
  <2>2. screen.host \in online => Online \in dirty[screen.host]
    BY DEF IInv, OfflineIsTrue
  <2> QED
    BY <1>2, <2>1, <2>2
<1> QED
  BY <1>5, <1>6, <1>7, <1>8 DEF IInv

\* A host found silent.
LEMMA OfflineCheckKeeps == IInv /\ OfflineCheck => IInv'
<1> SUFFICES ASSUME IInv, OfflineCheck PROVE IInv'
  OBVIOUS
<1>1. PICK h \in Hosts : MarkOffline(h)
  BY DEF OfflineCheck
<1>2. StoreTypeOK' /\ (\A g \in Hosts : dirty[g] \subseteq dirty'[g]) /\ online' \subseteq online
  BY <1>1, OfflineFacts DEF IInv, TypeOK
<1>3. UNCHANGED displayVars
  BY DEF OfflineCheck
<1>4. TypeOK'
  BY <1>2, <1>3 DEF IInv, TypeOK, displayVars
<1>5. screen.kind \in {"device", "offline"} => screen.host \in Hosts
  BY ScreenKinds DEF IInv, TypeOK
<1>6. Coherent'
  BY <1>2, <1>3, <1>5 DEF IInv, Coherent, displayVars
<1>7. OfflineIsTrue'
  BY <1>2, <1>3, <1>5 DEF IInv, OfflineIsTrue, displayVars
<1> QED
  BY <1>3, <1>4, <1>6, <1>7
  DEF IInv, DrawsUnderOwnName, ScreenOfLast, displayVars, Device, Offline

\* A turn of the carousel, by a tap or by itself: a full redraw is asked for.
LEMMA TurnKeeps == IInv /\ (Tap \/ AutoRotate) => IInv'
<1> SUFFICES ASSUME IInv, Tap \/ AutoRotate PROVE IInv'
  OBVIOUS
<1>1. current' \in Nat /\ current' < MaxDevices
  BY NextIndexInRange DEF IInv, TypeOK, Tap, AutoRotate
<1>2. force' = TRUE
      /\ UNCHANGED <<storeVars, lastHost, locked, lockedHost, pc, slot, todo, screen, stale>>
  BY DEF Tap, AutoRotate
<1>3. StoreTypeOK'
  BY <1>2 DEF IInv, TypeOK, StoreTypeOK, storeVars, Known
<1>4. TypeOK'
  BY <1>1, <1>2, <1>3 DEF IInv, TypeOK
<1> QED
  BY <1>2, <1>4
  DEF IInv, Coherent, DrawsUnderOwnName, OfflineIsTrue, ScreenOfLast, Device, storeVars

\* The lock and its message.
LEMMA LockKeeps == IInv /\ (LongPress \/ SplashOver) => IInv'
<1>1. ASSUME IInv, LongPress PROVE IInv'
  <2>1. lockedHost' \in Hosts \cup {NoHost}
    <3>1. CASE locked \/ OnlineAt(current) = {}
      BY <1>1, <3>1 DEF IInv, TypeOK, LongPress
    <3>2. CASE ~locked /\ OnlineAt(current) # {}
      <4>1. (CHOOSE i \in OnlineAt(current) : TRUE) \in OnlineAt(current)
        BY <3>2
      <4>2. slots[CHOOSE i \in OnlineAt(current) : TRUE] \in Hosts
        BY <1>1, <4>1, OnlineAtOnline DEF IInv, TypeOK
      <4> QED
        BY <1>1, <3>2, <4>2 DEF LongPress
    <3> QED
      BY <3>1, <3>2
  <2>2. StoreTypeOK'
    BY <1>1 DEF IInv, TypeOK, StoreTypeOK, LongPress, storeVars, Known
  <2>3. screen' \in Screens /\ screen'.kind = "other"
    BY <1>1, ScreenKinds DEF LongPress, Screens
  <2>4. TypeOK'
    BY <1>1, <2>1, <2>2, <2>3 DEF IInv, TypeOK, LongPress
  <2> QED
    BY <1>1, <2>3, <2>4
    DEF IInv, LongPress, Coherent, DrawsUnderOwnName, OfflineIsTrue, ScreenOfLast
<1>2. ASSUME IInv, SplashOver PROVE IInv'
  <2>1. StoreTypeOK'
    BY <1>2 DEF IInv, TypeOK, StoreTypeOK, SplashOver, storeVars, Known
  <2>2. TypeOK'
    BY <1>2, <2>1 DEF IInv, TypeOK, SplashOver
  <2> QED
    BY <1>2, <2>2
    DEF IInv, SplashOver, Coherent, DrawsUnderOwnName, OfflineIsTrue, ScreenOfLast, storeVars
<1> QED
  BY <1>1, <1>2

\* Without a header the screen is already about the host that is drawn.
LEMMA NoHeaderSameScreen ==
    ASSUME IInv, NEW h \in Hosts, h \in online, ~HeaderRedraw(h, force)
    PROVE  screen = Device(h)
<1>1. ~force /\ lastHost = h /\ Online \notin dirty[h] /\ lastHost # NoHost
  BY DisplayAssumption DEF HeaderRedraw
<1>2. screen \in {Device(h), Offline(h)}
  BY <1>1 DEF IInv, ScreenOfLast
<1>3. screen # Offline(h)
  <2> SUFFICES ASSUME screen = Offline(h) PROVE FALSE
    OBVIOUS
  <2>1. screen.kind = "offline" /\ screen.host = h
    BY ScreenKinds
  <2> QED
    BY <1>1, <2>1 DEF IInv, OfflineIsTrue
<1> QED
  BY <1>2, <1>3

\* A host is drawn: the marks that are taken become rows to draw, and no other row
\* of its screen is stale.
LEMMA RefreshDeviceKeeps ==
    ASSUME IInv, RefreshDevice
    PROVE  IInv' /\ screen' = Device(slot') /\ stale' \subseteq todo'
<1>1. PICK i \in OnlineAt(current') : ShowDevice(slots[i], force \/ current >= OnlineCount)
  BY DEF RefreshDevice
<1> DEFINE h == slots[i]
           forced == force \/ current >= OnlineCount
           header == HeaderRedraw(h, forced)
<1>2. h \in Hosts /\ h \in online
  BY <1>1, OnlineAtOnline DEF IInv, TypeOK
<1>3. forced \in BOOLEAN /\ (force => forced)
  BY DEF IInv, TypeOK
<1>4. pc = "idle" /\ UNCHANGED <<slots, online, locked, lockedHost>>
      /\ dirty' = [dirty EXCEPT ![h] = {}]
      /\ slot' = h /\ todo' = RowsToDraw(h, header)
      /\ pc' = (IF todo' = {} THEN "idle" ELSE "drawing")
      /\ IF header
         THEN screen' = Device(h) /\ stale' = Rows /\ lastHost' = h /\ force' = FALSE
         ELSE UNCHANGED <<screen, stale, lastHost>> /\ force' = forced
  BY <1>1 DEF RefreshDevice, ShowDevice
<1>5. ~header => ~HeaderRedraw(h, force)
  BY <1>3 DEF HeaderRedraw
<1> HIDE DEF h, forced, header
<1>6. screen' = Device(h)
  BY <1>2, <1>4, <1>5, NoHeaderSameScreen
<1>7. screen'.kind = "device" /\ screen'.host = h /\ screen' \in Screens
  BY <1>2, <1>6, ScreenKinds DEF Screens
<1>8. StoreTypeOK'
  <2>1. dirty' \in [Hosts -> SUBSET Marks]
    BY <1>2, <1>4 DEF IInv, TypeOK, StoreTypeOK
  <2> QED
    BY <1>4, <2>1 DEF IInv, TypeOK, StoreTypeOK, Known
<1>9. todo' \subseteq Rows /\ stale' \subseteq Rows
  BY <1>4 DEF RowsToDraw, IInv, TypeOK
<1>10. current' \in Nat /\ current' < MaxDevices
  BY StoreAssumption DEF RefreshDevice, IInv, TypeOK
<1>11. force' \in BOOLEAN /\ lastHost' \in Hosts \cup {NoHost}
  BY <1>2, <1>3, <1>4 DEF IInv, TypeOK
<1>12. TypeOK'
  BY <1>2, <1>4, <1>7, <1>8, <1>9, <1>10, <1>11 DEF IInv, TypeOK
<1>13. stale' \subseteq todo'
  <2>1. CASE header
    BY <1>4, <2>1 DEF RowsToDraw
  <2>2. CASE ~header
    <3>1. screen = Device(h) /\ screen.kind = "device" /\ screen.host = h
      BY <1>2, <1>5, <2>2, NoHeaderSameScreen, ScreenKinds
    <3>2. stale \subseteq dirty[h]
      BY <1>4, <3>1 DEF IInv, Coherent
    <3> QED
      BY <1>4, <2>2, <3>2 DEF RowsToDraw, IInv, TypeOK
  <2> QED
    BY <2>1, <2>2
<1>14. Coherent'
  BY <1>4, <1>13 DEF Coherent
<1>15. DrawsUnderOwnName' /\ OfflineIsTrue'
  BY <1>4, <1>6, <1>7 DEF DrawsUnderOwnName, OfflineIsTrue, Device
<1>16. ScreenOfLast'
  <2>1. CASE header
    BY <1>4, <1>6, <2>1 DEF ScreenOfLast, Device, Offline
  <2>2. CASE ~header
    <3>1. lastHost = h
      BY <1>5, <2>2 DEF HeaderRedraw
    <3> QED
      BY <1>4, <1>6, <2>2, <3>1 DEF ScreenOfLast, Device, Offline
  <2> QED
    BY <2>1, <2>2
<1> QED
  BY <1>4, <1>6, <1>12, <1>13, <1>14, <1>15, <1>16 DEF IInv

\* One row is drawn.
LEMMA DrawRowKeeps == IInv /\ DrawRow => IInv'
<1> SUFFICES ASSUME IInv, DrawRow PROVE IInv'
  OBVIOUS
<1>1. PICK r \in todo : todo' = todo \ {r} /\ stale' = stale \ {r}
  BY DEF DrawRow
<1>2. pc = "drawing" /\ pc' = (IF todo' = {} THEN "idle" ELSE "drawing")
      /\ UNCHANGED <<storeVars, current, force, lastHost, locked, lockedHost, slot, screen>>
  BY DEF DrawRow
<1>3. StoreTypeOK'
  BY <1>2 DEF IInv, TypeOK, StoreTypeOK, storeVars, Known
<1>4. TypeOK'
  BY <1>1, <1>2, <1>3 DEF IInv, TypeOK
<1>5. Coherent'
  BY <1>1, <1>2 DEF IInv, Coherent, storeVars
<1> QED
  BY <1>2, <1>4, <1>5
  DEF IInv, DrawsUnderOwnName, OfflineIsTrue, ScreenOfLast, Device, Offline, storeVars

\* The screens without figures.
LEMMA NoFiguresKeeps == IInv /\ (RefreshOffline \/ RefreshWaiting) => IInv'
<1>1. ASSUME IInv, RefreshOffline PROVE IInv'
  <2>1. PICK i \in FirstOffline :
           IF force \/ lastHost # slots[i]
           THEN /\ screen' = Offline(slots[i]) /\ stale' = {}
                /\ lastHost' = slots[i] /\ force' = FALSE
           ELSE UNCHANGED <<screen, stale, lastHost, force>>
    BY <1>1 DEF RefreshOffline
  <2>2. slots[i] \in Hosts /\ slots[i] \notin online
    BY <1>1, DisplayAssumption DEF FirstOffline, IInv, TypeOK, StoreTypeOK
  <2>3. pc = "idle" /\ UNCHANGED <<storeVars, current, locked, lockedHost, pc, slot, todo>>
    BY <1>1 DEF RefreshOffline
  <2>4. StoreTypeOK'
    BY <1>1, <2>3 DEF IInv, TypeOK, StoreTypeOK, storeVars, Known
  <2>5. CASE force \/ lastHost # slots[i]
    <3>1. screen' \in Screens /\ screen'.kind = "offline" /\ screen'.host = slots[i]
      BY <2>1, <2>2, <2>5, ScreenKinds DEF Screens
    <3>2. TypeOK'
      BY <1>1, <2>1, <2>2, <2>3, <2>4, <2>5, <3>1 DEF IInv, TypeOK
    <3> QED
      BY <2>1, <2>2, <2>3, <2>5, <3>1, <3>2
      DEF IInv, Coherent, DrawsUnderOwnName, OfflineIsTrue, ScreenOfLast, storeVars
  <2>6. CASE ~(force \/ lastHost # slots[i])
    <3>1. TypeOK'
      BY <1>1, <2>1, <2>3, <2>4, <2>6 DEF IInv, TypeOK
    <3> QED
      BY <1>1, <2>1, <2>3, <2>6, <3>1
      DEF IInv, Coherent, DrawsUnderOwnName, OfflineIsTrue, ScreenOfLast, Device, Offline, storeVars
  <2> QED
    BY <2>5, <2>6
<1>2. ASSUME IInv, RefreshWaiting PROVE IInv'
  <2>1. pc = "idle" /\ UNCHANGED <<storeVars, current, locked, lockedHost, pc, slot, todo>>
    BY <1>2 DEF RefreshWaiting
  <2>2. StoreTypeOK'
    BY <1>2, <2>1 DEF IInv, TypeOK, StoreTypeOK, storeVars, Known
  <2>3. CASE force
    <3>1. screen' = Waiting /\ stale' = {} /\ lastHost' = NoHost /\ force' = FALSE
      BY <1>2, <2>3 DEF RefreshWaiting
    <3>2. screen' \in Screens /\ screen'.kind = "waiting"
      BY <3>1, ScreenKinds DEF Screens
    <3>3. TypeOK'
      BY <1>2, <2>1, <2>2, <3>1, <3>2 DEF IInv, TypeOK
    <3> QED
      BY <2>1, <3>1, <3>2, <3>3
      DEF IInv, Coherent, DrawsUnderOwnName, OfflineIsTrue, ScreenOfLast
  <2>4. CASE ~force
    <3>1. UNCHANGED <<screen, stale, lastHost, force>>
      BY <1>2, <2>4 DEF RefreshWaiting
    <3>2. TypeOK'
      BY <1>2, <2>1, <2>2, <3>1 DEF IInv, TypeOK
    <3> QED
      BY <1>2, <2>1, <3>1, <3>2
      DEF IInv, Coherent, DrawsUnderOwnName, OfflineIsTrue, ScreenOfLast, Device, Offline, storeVars
  <2> QED
    BY <2>3, <2>4
<1> QED
  BY <1>1, <1>2

LEMMA StutterKeeps == IInv /\ UNCHANGED vars => IInv'
<1> SUFFICES ASSUME IInv, UNCHANGED vars PROVE IInv'
  OBVIOUS
<1>1. StoreTypeOK'
  BY DEF IInv, TypeOK, StoreTypeOK, vars, storeVars, Known
<1>2. TypeOK'
  BY <1>1 DEF IInv, TypeOK, vars, displayVars
<1> QED
  BY <1>2 DEF IInv, Coherent, DrawsUnderOwnName, OfflineIsTrue, ScreenOfLast,
              vars, storeVars, displayVars, Device, Offline

THEOREM Invariance == Spec => []IInv
<1>1. Init => IInv
  BY InitEstablishes
<1>2. IInv /\ [Next]_vars => IInv'
  BY ReceiveKeeps, OfflineCheckKeeps, TurnKeeps, LockKeeps, RefreshDeviceKeeps, DrawRowKeeps,
     NoFiguresKeeps, StutterKeeps
  DEF Next, Refresh
<1> QED
  BY <1>1, <1>2, PTL DEF Spec

-----------------------------------------------------------------------------
(* The results. *)

\* The variables keep their types; the index stays within the slots.
THEOREM TypeCorrect == Spec => []TypeOK
  BY Invariance, PTL DEF IInv

\* With any number of rows, and messages between and inside all of them: a row
\* that shows old figures is marked or about to be drawn.
THEOREM NoUpdateLost == Spec => []Coherent
  BY Invariance, PTL DEF IInv

\* No refresh draws figures under another host's name.
THEOREM NameMatchesFigures == Spec => []DrawsUnderOwnName
  BY Invariance, PTL DEF IInv

\* A host that is shown as OFFLINE is silent, or will be drawn afresh.
THEOREM OfflineScreenTrue == Spec => []OfflineIsTrue
  BY Invariance, PTL DEF IInv

\* The last figures reach the screen unless messages keep coming: a refresh queues
\* every row of its host that is not current (rows it does not queue are current,
\* although it draws no header), drawing them leaves none behind, and ends.  This is
\* the part of FiguresCatchUp that does not rest on fairness.
THEOREM StaleRowsQueued ==
    Spec => /\ [][RefreshDevice => screen' = Device(slot') /\ stale' \subseteq todo']_vars
            /\ [][pc = "drawing" /\ stale \subseteq todo => stale' \subseteq todo' \/ Receive]_vars
            /\ [][DrawRow => Cardinality(todo') < Cardinality(todo)]_vars
<1>1. IInv /\ [Next]_vars => [RefreshDevice => screen' = Device(slot') /\ stale' \subseteq todo']_vars
  BY RefreshDeviceKeeps
<1>2. [Next]_vars => [pc = "drawing" /\ stale \subseteq todo => stale' \subseteq todo' \/ Receive]_vars
  BY DEF Next, OfflineCheck, Tap, LongPress, SplashOver, AutoRotate, Refresh, RefreshDevice,
         RefreshOffline, RefreshWaiting, DrawRow
<1>3. IInv /\ [Next]_vars => [DrawRow => Cardinality(todo') < Cardinality(todo)]_vars
  <2> SUFFICES ASSUME IInv, DrawRow PROVE Cardinality(todo') < Cardinality(todo)
    OBVIOUS
  <2>1. IsFiniteSet(1..RowCount)
    BY StoreAssumption, FS_Interval
  <2>2. IsFiniteSet(todo)
    BY <2>1, FS_Subset DEF IInv, TypeOK, Rows
  <2>3. PICK r \in todo : todo' = todo \ {r}
    BY DEF DrawRow
  <2>4. Cardinality(todo \ {r}) = Cardinality(todo) - 1 /\ Cardinality(todo) \in Nat
    BY <2>2, <2>3, FS_RemoveElement, FS_CardinalityType
  <2> QED
    BY <2>3, <2>4
<1> QED
  BY <1>1, <1>2, <1>3, Invariance, PTL DEF Spec
=============================================================================
