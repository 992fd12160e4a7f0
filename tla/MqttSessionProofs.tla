------------------------- MODULE MqttSessionProofs -------------------------
(***************************************************************************)
(* Proofs about MqttSession for any set of messages, any length of them    *)
(* and any size of the buffer: TLC checks payloads of at most five bytes.  *)
(***************************************************************************)
EXTENDS MqttSession, ReconnectBackoffProofs, SequenceTheorems

\* Why the buffer of an older session does no harm: while a message that fits is
\* being received in fragments, the buffer is what has come of it.
Buffered ==
    incoming # Nothing /\ incoming.total <= MaxPayload /\ incoming.index > 0 =>
        msgBuf = Bytes(incoming.msg, 0, incoming.index)

FragmentInv == FragmentTypeOK /\ HandledWhole /\ Buffered

-----------------------------------------------------------------------------
(* Runs of bytes. *)

LEMMA BytesType ==
    ASSUME NEW m \in Messages, NEW from \in Nat, NEW len \in Nat
    PROVE  /\ Bytes(m, from, len) \in Seq(Byte)
           /\ Len(Bytes(m, from, len)) = len
           /\ \A k \in 1..len : Bytes(m, from, len)[k] = [msg |-> m, at |-> from + k - 1]
<1>1. \A k \in 1..len : [msg |-> m, at |-> from + k - 1] \in Byte
  BY DEF Byte
<1>2. Bytes(m, from, len) \in [1..len -> Byte]
  BY <1>1 DEF Bytes
<1> QED
  BY <1>2 DEF Bytes

\* Two runs that meet are one.
LEMMA BytesConcat ==
    ASSUME NEW m \in Messages, NEW n \in Nat, NEW len \in Nat
    PROVE  Bytes(m, 0, n) \o Bytes(m, n, len) = Bytes(m, 0, n + len)
<1> DEFINE first == Bytes(m, 0, n)
           second == Bytes(m, n, len)
           whole == Bytes(m, 0, n + len)
<1>1. first \in Seq(Byte) /\ Len(first) = n
      /\ \A k \in 1..n : first[k] = [msg |-> m, at |-> 0 + k - 1]
  BY BytesType
<1>2. second \in Seq(Byte) /\ Len(second) = len
      /\ \A k \in 1..len : second[k] = [msg |-> m, at |-> n + k - 1]
  BY BytesType
<1>0. n + len \in Nat
  OBVIOUS
<1>3. whole \in Seq(Byte) /\ Len(whole) = n + len
      /\ \A k \in 1..(n + len) : whole[k] = [msg |-> m, at |-> 0 + k - 1]
  BY <1>0, BytesType
<1> HIDE DEF first, second, whole
<1>4. first \o second \in Seq(Byte) /\ Len(first \o second) = n + len
      /\ \A k \in 1..(n + len) :
            (first \o second)[k] = IF k <= n THEN first[k] ELSE second[k - n]
  BY <1>1, <1>2, ConcatProperties
<1>5. \A k \in 1..(n + len) : (first \o second)[k] = whole[k]
  <2> TAKE k \in 1..(n + len)
  <2>1. CASE k <= n
    BY <1>1, <1>3, <1>4, <2>1
  <2>2. CASE ~(k <= n)
    <3>1. k - n \in 1..len /\ n + (k - n) - 1 = 0 + k - 1
      BY <2>2
    <3> QED
      BY <1>2, <1>3, <1>4, <2>2, <3>1
  <2> QED
    BY <2>1, <2>2
<1> QED
  BY <1>3, <1>4, <1>5, SeqEqual DEF first, second, whole

-----------------------------------------------------------------------------
(* One fragment. *)

\* The facts about a message that is under way.
Underway(m, total, n) ==
    /\ m = incoming.msg /\ total = incoming.total /\ n = incoming.index
    /\ m \in Messages /\ total \in Nat /\ n \in Nat /\ n < total

LEMMA UnderwayHolds ==
    ASSUME FragmentTypeOK, incoming # Nothing
    PROVE  Underway(incoming.msg, incoming.total, incoming.index)
  BY FragmentAssumption DEF FragmentTypeOK, Underway

\* Appending a fragment of a message that fits yields all that has come of it.
LEMMA AppendedIsPrefix ==
    ASSUME FragmentInv, incoming # Nothing, incoming.total <= MaxPayload,
           NEW len \in 1..(incoming.total - incoming.index)
    PROVE  Appended(len) = Bytes(incoming.msg, 0, incoming.index + len)
<1> DEFINE m == incoming.msg
           total == incoming.total
           n == incoming.index
<1>1. m \in Messages /\ total \in Nat /\ n \in Nat /\ n < total
  BY UnderwayHolds DEF FragmentInv, Underway
<1>2. len \in Nat /\ n + len \in Nat /\ n + len <= MaxPayload
  BY <1>1, FragmentAssumption
<1> HIDE DEF m, total, n
<1>3. Bytes(m, n, len) \in Seq(Byte)
  BY <1>1, <1>2, BytesType
<1>4. CASE n = 0
  <2>1. <<>> \o Bytes(m, n, len) = Bytes(m, 0, n + len)
    BY <1>1, <1>2, <1>3, <1>4, ConcatEmptySeq
  <2>2. Len(<<>>) + len <= MaxPayload
    BY <1>2, <1>4
  <2> QED
    BY <1>4, <2>1, <2>2 DEF Appended, m, n
<1>5. CASE n # 0
  <2>1. msgBuf = Bytes(m, 0, n)
    BY <1>1, <1>5 DEF FragmentInv, Buffered, m, n
  <2>2. Len(msgBuf) = n
    BY <1>1, <2>1, BytesType
  <2>3. msgBuf \o Bytes(m, n, len) = Bytes(m, 0, n + len)
    BY <1>1, <1>2, <2>1, BytesConcat
  <2> QED
    BY <1>2, <1>5, <2>2, <2>3 DEF Appended, m, n
<1> QED
  BY <1>4, <1>5

\* What onMessage does with a fragment of a message that fits: the last one passes
\* the message on, every other one is kept.
LEMMA FragmentOfFitting ==
    ASSUME FragmentInv, incoming # Nothing, incoming.total <= MaxPayload,
           NEW len \in 1..(incoming.total - incoming.index), OnFragment(len)
    PROVE  IF incoming.index + len = incoming.total
           THEN /\ handled' = [msg |-> incoming.msg, payload |-> Bytes(incoming.msg, 0, incoming.total)]
                /\ msgBuf' \in {msgBuf, <<>>}
           ELSE /\ handled' = Nothing
                /\ msgBuf' = Bytes(incoming.msg, 0, incoming.index + len)
<1>1. incoming.msg \in Messages /\ incoming.total \in Nat /\ incoming.index \in Nat
  BY UnderwayHolds DEF FragmentInv, Underway
<1>2. Appended(len) = Bytes(incoming.msg, 0, incoming.index + len)
  BY AppendedIsPrefix
<1>3. Len(Appended(len)) = incoming.index + len
  <2>1. incoming.index + len \in Nat /\ 0 \in Nat
    BY <1>1
  <2>2. Len(Bytes(incoming.msg, 0, incoming.index + len)) = incoming.index + len
    BY <1>1, <2>1, BytesType, Zenon
  <2> QED
    BY <1>2, <2>2, Zenon
<1>4. ~(incoming.total > MaxPayload)
  BY <1>1, FragmentAssumption
<1>5. CASE incoming.index = 0 /\ len = incoming.total
  BY <1>1, <1>4, <1>5 DEF OnFragment, Pass
<1>6. CASE ~(incoming.index = 0 /\ len = incoming.total)
  BY <1>1, <1>2, <1>3, <1>4, <1>6 DEF OnFragment, Pass
<1> QED
  BY <1>5, <1>6
-----------------------------------------------------------------------------
(* The invariant of the buffer. *)

\* A step of the buffer, as OnMessage and OnDisconnect take it.
LEMMA BeginsKeeps == FragmentInv /\ MessageBegins => FragmentInv'
  BY FragmentAssumption
  DEF FragmentInv, FragmentTypeOK, HandledWhole, Buffered, MessageBegins, Nothing

LEMMA CutKeeps == FragmentInv /\ MessageCut => FragmentInv'
  BY DEF FragmentInv, FragmentTypeOK, HandledWhole, Buffered, MessageCut

\* A message that is too long is left alone, fragment by fragment.
LEMMA FragmentOfTooLong ==
    ASSUME FragmentInv, incoming # Nothing, ~(incoming.total <= MaxPayload),
           NEW len \in 1..(incoming.total - incoming.index), OnFragment(len)
    PROVE  handled' = Nothing /\ msgBuf' = msgBuf
<1>1. incoming.total \in Nat
  BY UnderwayHolds DEF FragmentInv, Underway
<1> QED
  BY <1>1, FragmentAssumption DEF OnFragment

LEMMA ArrivesKeeps == FragmentInv /\ FragmentArrives => FragmentInv'
<1> SUFFICES ASSUME FragmentInv, FragmentArrives PROVE FragmentInv'
  OBVIOUS
<1>1. incoming # Nothing
  BY DEF FragmentArrives
<1>2. PICK len \in 1..(incoming.total - incoming.index) :
         /\ OnFragment(len)
         /\ incoming' = IF incoming.index + len = incoming.total THEN Nothing
                        ELSE [incoming EXCEPT !.index = @ + len]
  BY DEF FragmentArrives
<1> DEFINE m == incoming.msg
           total == incoming.total
           n == incoming.index
<1>3. m \in Messages /\ total \in Nat /\ n \in Nat /\ n < total
  BY <1>1, UnderwayHolds DEF FragmentInv, Underway
<1>4. len \in Nat /\ n + len \in Nat /\ n + len <= total /\ n + len > 0
  BY <1>3
<1>5. incoming \in [msg : Messages, total : 1..MaxTotal, index : Nat]
  BY <1>1 DEF FragmentInv, FragmentTypeOK
<1>6. n + len # total =>
         /\ incoming' \in [msg : Messages, total : 1..MaxTotal, index : Nat]
         /\ incoming'.msg = m /\ incoming'.total = total /\ incoming'.index = n + len
  BY <1>2, <1>4, <1>5
<1>7. msgBuf \in Seq(Byte) /\ Len(msgBuf) <= MaxPayload
  BY DEF FragmentInv, FragmentTypeOK
<1>8. CASE total <= MaxPayload
  <2>1. IF n + len = total
        THEN handled' = [msg |-> m, payload |-> Bytes(m, 0, total)] /\ msgBuf' \in {msgBuf, <<>>}
        ELSE handled' = Nothing /\ msgBuf' = Bytes(m, 0, n + len)
    BY <1>1, <1>2, <1>8, FragmentOfFitting
  <2>2. Bytes(m, 0, total) \in Seq(Byte) /\ Len(Bytes(m, 0, total)) = total
        /\ Bytes(m, 0, n + len) \in Seq(Byte) /\ Len(Bytes(m, 0, n + len)) = n + len
    BY <1>3, <1>4, BytesType
  <2> HIDE DEF m, total, n
  <2>3. msgBuf' \in Seq(Byte) /\ Len(msgBuf') <= MaxPayload
    <3>1. Len(<<>>) = 0 /\ <<>> \in Seq(Byte)
      OBVIOUS
    <3>2. n + len <= MaxPayload
      BY <1>3, <1>4, <1>8, FragmentAssumption
    <3>3. CASE n + len = total
      <4>1. msgBuf' = msgBuf \/ msgBuf' = <<>>
        BY <2>1, <3>3
      <4>2. 0 <= MaxPayload
        BY FragmentAssumption
      <4> QED
        BY <1>7, <3>1, <4>1, <4>2
    <3>4. CASE n + len # total
      <4>1. msgBuf' = Bytes(m, 0, n + len)
        BY <2>1, <3>4
      <4> QED
        BY <2>2, <3>2, <4>1
    <3> QED
      BY <3>3, <3>4
  <2>4. handled' = Nothing \/ handled' \in [msg : Messages, payload : Seq(Byte)]
    BY <1>3, <2>1, <2>2
  <2>5. HandledWhole'
    BY <2>1, <2>2 DEF HandledWhole
  <2>6. incoming' = Nothing \/ n + len # total
    BY <1>2 DEF n, total
  <2>7. Buffered'
    BY <1>6, <2>1, <2>6 DEF Buffered
  <2>8. FragmentTypeOK'
    BY <1>3, <1>4, <1>6, <2>3, <2>4, <2>6 DEF FragmentTypeOK
  <2> QED
    BY <2>5, <2>7, <2>8 DEF FragmentInv
<1>9. CASE ~(total <= MaxPayload)
  <2>1. handled' = Nothing /\ msgBuf' = msgBuf
    BY <1>1, <1>2, <1>9, FragmentOfTooLong
  <2> HIDE DEF m, total, n
  <2>2. incoming' = Nothing \/ n + len # total
    BY <1>2 DEF n, total
  <2>3. FragmentTypeOK'
    BY <1>3, <1>4, <1>6, <1>7, <2>1, <2>2 DEF FragmentTypeOK
  <2>4. HandledWhole' /\ Buffered'
    BY <1>6, <1>9, <2>1, <2>2 DEF HandledWhole, Buffered
  <2> QED
    BY <2>3, <2>4 DEF FragmentInv
<1> QED
  BY <1>8, <1>9

THEOREM FragmentInvariance == Spec => []FragmentInv
<1>1. Init => FragmentInv
  BY FragmentAssumption
  DEF Init, FragmentInit, FragmentInv, FragmentTypeOK, HandledWhole, Buffered
<1>2. FragmentInv /\ UNCHANGED fragmentVars => FragmentInv'
  BY DEF FragmentInv, FragmentTypeOK, HandledWhole, Buffered, fragmentVars
<1>3. FragmentInv /\ [Next]_vars => FragmentInv'
  BY <1>2, BeginsKeeps, CutKeeps, ArrivesKeeps
  DEF Next, OnConnect, OnDisconnect, WithoutSession, OnMessage, vars
<1> QED
  BY <1>1, <1>3, PTL DEF Spec

-----------------------------------------------------------------------------
(* The results. *)

\* The buffer is never overrun.
THEOREM BufferBounded == Spec => []FragmentTypeOK
  BY FragmentInvariance, PTL DEF FragmentInv

\* What is handed to the parser is a message as it was sent, whatever an older
\* session has left in the buffer.
THEOREM OnlyWholeMessages == Spec => []HandledWhole
  BY FragmentInvariance, PTL DEF FragmentInv

\* Every message that fits is handed on with its last fragment and not before;
\* nothing of one that does not fit ever is.
THEOREM EveryMessageOnce == Spec => PassedOnOnce
<1>1. ASSUME FragmentInv, FragmentArrives
      PROVE  IF incoming' = Nothing /\ incoming.total <= MaxPayload
             THEN handled' # Nothing /\ handled'.msg = incoming.msg
                  /\ Len(handled'.payload) = incoming.total
             ELSE handled' = Nothing
  <2>1. incoming # Nothing
    BY <1>1 DEF FragmentArrives
  <2>2. PICK len \in 1..(incoming.total - incoming.index) :
           /\ OnFragment(len)
           /\ incoming' = IF incoming.index + len = incoming.total THEN Nothing
                          ELSE [incoming EXCEPT !.index = @ + len]
    BY <1>1 DEF FragmentArrives
  <2>3. incoming \in [msg : Messages, total : 1..MaxTotal, index : Nat]
    BY <1>1, <2>1 DEF FragmentInv, FragmentTypeOK
  <2>4. incoming' = Nothing <=> incoming.index + len = incoming.total
    BY <2>2, <2>3 DEF Nothing
  <2>5. CASE incoming.total <= MaxPayload
    <3>1. IF incoming.index + len = incoming.total
          THEN handled' = [msg |-> incoming.msg, payload |-> Bytes(incoming.msg, 0, incoming.total)]
          ELSE handled' = Nothing
      BY <1>1, <2>1, <2>2, <2>5, FragmentOfFitting
    <3>2. Len(Bytes(incoming.msg, 0, incoming.total)) = incoming.total
      BY <2>3, BytesType
    <3> QED
      BY <2>4, <2>5, <3>1, <3>2 DEF Nothing
  <2>6. CASE ~(incoming.total <= MaxPayload)
    BY <1>1, <2>1, <2>2, <2>6, FragmentOfTooLong
  <2> QED
    BY <2>5, <2>6
<1>2. FragmentInv /\ [Next]_vars =>
         [FragmentArrives =>
            IF incoming' = Nothing /\ incoming.total <= MaxPayload
            THEN handled' # Nothing /\ handled'.msg = incoming.msg
                 /\ Len(handled'.payload) = incoming.total
            ELSE handled' = Nothing]_fragmentVars
  BY <1>1
<1> QED
  BY <1>2, FragmentInvariance, PTL DEF Spec, PassedOnOnce

-----------------------------------------------------------------------------
(* The sessions as a use of ReconnectBackoff. *)

\* onConnect clears the count whether or not there was one.
LEMMA NoFailureNoDelay == Spec => [](BackoffTypeOK /\ (failures = 0 => delay = 0))
<1> DEFINE Inv == BackoffTypeOK /\ (failures = 0 => delay = 0)
<1>1. Init => Inv
  BY PolicyAssumption, BackoffAssumption DEF Init, BackoffInit, BackoffTypeOK
<1>2. Inv /\ (ScheduleReconnect \/ Reset) => Inv'
  BY PolicyAssumption, BackoffAssumption
     DEF ScheduleReconnect, Reset, BackoffTypeOK, BackoffDelays
<1>3. Inv /\ [Next]_vars => Inv'
  BY <1>2, PolicyAssumption, BackoffAssumption
     DEF Next, OnConnect, OnDisconnect, WithoutSession, OnMessage, vars, backoffVars,
         BackoffTypeOK
<1> QED
  BY <1>1, <1>3, PTL DEF Spec

\* Whatever begins and ends the sessions, the counter and the delay behave as
\* ReconnectBackoff allows: what is proved of it is true of the sessions.
THEOREM SessionBackoff == Spec => BackoffSpec
<1>1. Init => BackoffInit
  BY DEF Init
<1>2. ASSUME BackoffTypeOK, failures = 0 => delay = 0, [Next]_vars
      PROVE  [BackoffNext]_backoffVars
  <2>1. CASE OnConnect
    <3>1. failures' = 0 /\ delay' = 0
      BY <2>1 DEF OnConnect
    <3>2. failures > 0 \/ failures = 0
      BY <1>2, BackoffAssumption DEF BackoffTypeOK
    <3> QED
      BY <1>2, <3>1, <3>2 DEF BackoffNext, Reset, backoffVars
  <2>2. CASE OnDisconnect \/ WithoutSession
    BY <2>2 DEF OnDisconnect, WithoutSession, BackoffNext
  <2>3. CASE OnMessage \/ UNCHANGED vars
    BY <2>3 DEF OnMessage, vars
  <2> QED
    BY <1>2, <2>1, <2>2, <2>3 DEF Next
<1> QED
  BY <1>1, <1>2, NoFailureNoDelay, PTL DEF Spec, BackoffSpec

\* Over any sequence of sessions and failed attempts the wait grows with each of
\* the first 29 failures in a row, within base and cap (BackoffMonotone).
THEOREM SessionDelayGrows == Spec => BackoffMonotone
  BY SessionBackoff, DelayGrows, PTL
=============================================================================
