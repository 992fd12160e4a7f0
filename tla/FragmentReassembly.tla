------------------------- MODULE FragmentReassembly -------------------------
(***************************************************************************)
(* The buffer in which onMessage puts the fragments of a payload together. *)
(* The MQTT client hands a payload over in one or more fragments, in their *)
(* order and without gaps; a session that ends cuts the payload short, and *)
(* the buffer keeps what had come.  Payloads are sequences of bytes that   *)
(* know which message they belong to and where.                            *)
(***************************************************************************)
EXTENDS Naturals, Sequences

CONSTANTS Messages,     \* the messages the broker may send
          MaxPayload,   \* MQTT_MAX_PAYLOAD_BYTES
          MaxTotal      \* bound: the longest payload that is sent

ASSUME FragmentAssumption == MaxPayload \in Nat \ {0} /\ MaxTotal \in Nat

Nothing == [kind |-> "nothing"]
Byte    == [msg : Messages, at : Nat]

\* len bytes of message m from offset `from` on.
Bytes(m, from, len) == [k \in 1..len |-> [msg |-> m, at |-> from + k - 1]]

VARIABLES incoming,   \* the message the client is receiving and how far it is
          msgBuf,     \* _msgBuf, the first _msgBufLen bytes
          handled     \* what the last fragment made onMessage pass to handleMessage

fragmentVars == <<incoming, msgBuf, handled>>

FragmentTypeOK ==
    /\ \/ incoming = Nothing
       \/ /\ incoming \in [msg : Messages, total : 1..MaxTotal, index : Nat]
          /\ incoming.index < incoming.total
    /\ msgBuf \in Seq(Byte) /\ Len(msgBuf) <= MaxPayload
    /\ handled = Nothing \/ handled \in [msg : Messages, payload : Seq(Byte)]

FragmentInit == incoming = Nothing /\ msgBuf = <<>> /\ handled = Nothing

-----------------------------------------------------------------------------

Pass(payload) == handled' = [msg |-> incoming.msg, payload |-> payload]

\* Mutant of Appended: whatever is in the buffer stays, and nothing is too long.
AppendedBlindly(len) == msgBuf \o Bytes(incoming.msg, incoming.index, len)

\* Mutant of Appended: only the end of a message empties the buffer.
AppendedToOld(len) ==
    IF Len(msgBuf) + len <= MaxPayload
    THEN msgBuf \o Bytes(incoming.msg, incoming.index, len) ELSE msgBuf

\* The buffer with the fragment in it: a first fragment starts it afresh, one
\* that does not fit is left out.
Appended(len) ==
    LET old == IF incoming.index = 0 THEN <<>> ELSE msgBuf
    IN  IF Len(old) + len <= MaxPayload
        THEN old \o Bytes(incoming.msg, incoming.index, len) ELSE old

\* Mutant of OnFragment: no payload is too long.
OnFragmentAnyTotal(len) ==
    IF incoming.index = 0 /\ len = incoming.total
    THEN Pass(Bytes(incoming.msg, 0, len)) /\ UNCHANGED msgBuf
    ELSE IF Len(Appended(len)) = incoming.total
    THEN Pass(Appended(len)) /\ msgBuf' = <<>>
    ELSE handled' = Nothing /\ msgBuf' = Appended(len)

\* onMessage for `len` bytes of the incoming message: too long a payload is
\* ignored, a whole one is passed on from where it is, a fragment is buffered and
\* the buffer passed on when it is as long as the payload.
OnFragment(len) ==
    IF incoming.total > MaxPayload
    THEN handled' = Nothing /\ UNCHANGED msgBuf
    ELSE IF incoming.index = 0 /\ len = incoming.total
    THEN Pass(Bytes(incoming.msg, 0, len)) /\ UNCHANGED msgBuf
    ELSE IF Len(Appended(len)) = incoming.total
    THEN Pass(Appended(len)) /\ msgBuf' = <<>>
    ELSE handled' = Nothing /\ msgBuf' = Appended(len)

\* The broker's next message begins to arrive.
MessageBegins ==
    /\ incoming = Nothing
    /\ \E m \in Messages, total \in 1..MaxTotal :
         incoming' = [msg |-> m, total |-> total, index |-> 0]
    /\ UNCHANGED <<msgBuf, handled>>

\* The client hands the next bytes over.
FragmentArrives ==
    /\ incoming # Nothing
    /\ \E len \in 1..(incoming.total - incoming.index) :
         /\ OnFragment(len)
         /\ incoming' = IF incoming.index + len = incoming.total THEN Nothing
                        ELSE [incoming EXCEPT !.index = @ + len]

\* The session ends: the rest of the message never comes, the buffer stays.
MessageCut == incoming' = Nothing /\ handled' = Nothing /\ UNCHANGED msgBuf

FragmentNext == MessageBegins \/ FragmentArrives \/ MessageCut

FragmentSpec == FragmentInit /\ [][FragmentNext]_fragmentVars

-----------------------------------------------------------------------------

\* What reaches the parser is a message as it was sent: all its bytes, in their
\* order, and none of a message that was cut short before it.
HandledWhole ==
    handled # Nothing =>
        handled.payload = Bytes(handled.msg, 0, Len(handled.payload))

\* A message that fits is passed on with its last fragment, all of it, however it
\* was split and whatever was cut short before it; nothing is passed on earlier,
\* and nothing of a message that is too long.
PassedOnOnce ==
    [][FragmentArrives =>
         IF incoming' = Nothing /\ incoming.total <= MaxPayload
         THEN handled' # Nothing /\ handled'.msg = incoming.msg
              /\ Len(handled'.payload) = incoming.total
         ELSE handled' = Nothing]_fragmentVars
=============================================================================
