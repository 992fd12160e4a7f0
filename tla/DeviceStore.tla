----------------------------- MODULE DeviceStore -----------------------------
(***************************************************************************)
(* The slots in which the firmware keeps the last figures of each host.    *)
(* Slots are given out in the order in which hosts are first heard and are *)
(* never freed.  A host in a slot has passed the selection (DeviceRegistry)*)
(* and counts as enabled.  Figures are abstracted to the rows of the       *)
(* screen they appear in (cpu, ram, gpu, net, disk: 1, 2, ...); the bits   *)
(* of dirtyMask are those rows and Online.                                 *)
(***************************************************************************)
EXTENDS Naturals, Sequences, FiniteSets

CONSTANTS Hosts,        \* hosts that send
          MaxDevices,   \* MAX_DEVICES
          RowCount      \* rows of figures on the screen

ASSUME StoreAssumption == MaxDevices \in Nat \ {0} /\ RowCount \in Nat

Rows   == 1..RowCount
Online == 0               \* DIRTY_ONLINE
Marks  == Rows \cup {Online}

VARIABLES slots,    \* hosts in the order of devices[]
          online,   \* hosts whose slot is online
          dirty     \* dirtyMask of each host

storeVars == <<slots, online, dirty>>

Known == {slots[i] : i \in DOMAIN slots}

StoreTypeOK ==
    /\ slots \in Seq(Hosts) /\ Len(slots) <= MaxDevices
    /\ online \subseteq Known
    /\ dirty \in [Hosts -> SUBSET Marks]

StoreInit == slots = <<>> /\ online = {} /\ dirty = [h \in Hosts |-> {}]

-----------------------------------------------------------------------------

OnlineCount == Cardinality({i \in DOMAIN slots : slots[i] \in online})

\* The slots getOnlineByIndex may return: the one with `index` online slots before it.
OnlineAt(index) ==
    {i \in DOMAIN slots :
        /\ slots[i] \in online
        /\ Cardinality({j \in 1..(i - 1) : slots[j] \in online}) = index}

\* Mutants of MarksOfUpdate: the mask is overwritten; only rows are marked.
MarksOfUpdateRows(h, changed) == changed
MarksOfUpdateOnly(h, changed) == changed \cup (IF h \in online THEN {} ELSE {Online})

\* dirtyMask after a frame whose rows `changed` differ from the last one's.
MarksOfUpdate(h, changed) ==
    dirty[h] \cup changed \cup (IF h \in online THEN {} ELSE {Online})

\* updateFrame() for a host that has a slot.
UpdateKnown(h, changed) ==
    /\ h \in Known
    /\ online' = online \cup {h}
    /\ dirty' = [dirty EXCEPT ![h] = MarksOfUpdate(h, changed)]
    /\ UNCHANGED slots

\* updateFrame() for a host that gets one.
UpdateNew(h) ==
    /\ h \notin Known /\ Len(slots) < MaxDevices
    /\ slots' = Append(slots, h)
    /\ online' = online \cup {h}
    /\ dirty' = [dirty EXCEPT ![h] = Marks]

\* markOfflineExpired(): a host has been silent for too long.
MarkOffline(h) ==
    /\ h \in online
    /\ online' = online \ {h}
    /\ dirty' = [dirty EXCEPT ![h] = @ \cup {Online}]
    /\ UNCHANGED slots
=============================================================================
