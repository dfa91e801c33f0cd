------------------------- MODULE ProtobufCodecLite -------------------------
(***************************************************************************)
(* ProtobufCodecLite (src/muduo/net/protobuf/ProtobufCodecLite.cc): one    *)
(* side frames messages, a connection hands them over in pieces of any     *)
(* size and may damage a cell, the other side takes the frames apart.      *)
(* A cell stands for the bytes of one field or of one part of a payload,   *)
(* a message is the sequence of cells it is serialized to.                 *)
(***************************************************************************)
EXTENDS Integers, Sequences, SequencesExt, Functions

CONSTANTS Message, MaxSent,
          kMaxMessageLen,
          Unwanted,        \* messages for which rawCb_ returns false
          Damage           \* values that a damaged cell may have

VARIABLES sent, wire, readable, delivered, errorCode, connected, damaged,
          tag_             \* of the receiver

codecVars == <<sent, wire, readable, delivered, errorCode, connected, damaged, tag_>>

kHeaderLen == 1
kChecksumLen == 1
SenderTag == 7
kMinMessageLen == 1 + kChecksumLen

CodecInit ==
    /\ sent = <<>> /\ wire = <<>> /\ readable = <<>> /\ delivered = <<>>
    /\ errorCode = "kNoError" /\ connected = TRUE /\ damaged = FALSE
    /\ tag_ \in {SenderTag, SenderTag + 1}

\* adler32, taken to tell all contents apart; no other cell has its values.
checksum(cells) ==
    LET sum[n \in 0 .. Len(cells)] == IF n = 0 THEN 1 ELSE 10 * sum[n - 1] + cells[n]
    IN  1000 * sum[Len(cells)]

fillEmptyBuffer(message) ==
    LET body == <<SenderTag>> \o message
        buf == Append(body, checksum(body))
    IN  <<Len(buf)>> \o buf

\* Sent whatever its length.
send(message) ==
    /\ Len(sent) < MaxSent
    /\ sent' = Append(sent, message)
    /\ wire' = wire \o fillEmptyBuffer(message)
    /\ UNCHANGED <<readable, delivered, errorCode, connected, damaged, tag_>>

DamageCell ==
    /\ ~damaged
    /\ \E i \in DOMAIN wire, cell \in Damage :
          wire[i] # cell /\ wire' = [wire EXCEPT ![i] = cell]
    /\ damaged' = TRUE
    /\ UNCHANGED <<sent, readable, delivered, errorCode, connected, tag_>>

-----------------------------------------------------------------------------
\* Fault: any checksum will do.
SumsNothing(frame) == TRUE

validateChecksum(frame) == checksum(Front(frame)) = Last(frame)

\* What a frame holds, past the tag; a damaged one is not parsed at all.
Payload(frame) == SubSeq(frame, 2, Len(frame) - kChecksumLen)

parse(frame) ==
    CASE ~validateChecksum(frame) -> "kCheckSumError"
      [] validateChecksum(frame) /\ Head(frame) # tag_ -> "kUnknownMessageType"
      [] OTHER -> "kNoError"

rawCb(frame) == Payload(frame) \notin Unwanted

\* Fault: a bad frame is taken out of the buffer.
RestSkips(buf, len) == SubSeq(buf, kHeaderLen + len + 1, Len(buf))

RestAfterError(buf, len) == buf

\* Fault: the shortest frame is waited past.
AgainIfMore(buf) == Len(buf) > kMinMessageLen + kHeaderLen

Again(buf) == Len(buf) >= kMinMessageLen + kHeaderLen

RECURSIVE Parsed(_, _)
\* The loop of onMessage(): what is left, what was delivered, and the error.
Parsed(buf, messages) ==
    LET len == Head(buf)
        frame == SubSeq(buf, kHeaderLen + 1, kHeaderLen + len)
        rest == SubSeq(buf, kHeaderLen + len + 1, Len(buf))
        stop(left, code) == [left |-> left, messages |-> messages, code |-> code]
    IN
    IF ~Again(buf) THEN stop(buf, "kNoError")
    ELSE IF len > kMaxMessageLen \/ len < kMinMessageLen THEN stop(buf, "kInvalidLength")
    ELSE IF Len(buf) < kHeaderLen + len THEN stop(buf, "kNoError")
    ELSE IF ~rawCb(frame) THEN Parsed(rest, messages)
    ELSE IF parse(frame) = "kNoError" THEN Parsed(rest, Append(messages, Payload(frame)))
    ELSE stop(RestAfterError(buf, len), parse(frame))

\* The connection reads some cells and calls onMessage(); defaultErrorCallback()
\* shuts a connected connection down, which goes on reading.
onMessage(n) ==
    LET r == Parsed(readable \o SubSeq(wire, 1, n), delivered) IN
    /\ n \in 1 .. Len(wire)
    /\ wire' = SubSeq(wire, n + 1, Len(wire))
    /\ readable' = r.left
    /\ delivered' = r.messages
    /\ errorCode' = IF r.code = "kNoError" THEN errorCode ELSE r.code
    /\ connected' = (connected /\ r.code = "kNoError")
    /\ UNCHANGED <<sent, damaged, tag_>>

CodecNext ==
    \/ \E m \in Message : send(m)
    \/ DamageCell
    \/ \E n \in DOMAIN wire : onMessage(n)

CodecSpec == CodecInit /\ [][CodecNext]_codecVars

-----------------------------------------------------------------------------
Wanted(messages) == SelectSeq(messages, LAMBDA m : m \notin Unwanted)

(***************************************************************************)
(* However the stream is cut into pieces, and if a cell is damaged: what   *)
(* is delivered is what was sent, in order, up to some point.  Only        *)
(* rawCb_, which sees a frame before its checksum is looked at, may make   *)
(* the damaged message go missing from the middle                          *)
(* (ProtobufCodecLite.cc:62-96).                                           *)
(***************************************************************************)
DeliveredInOrder ==
    \/ IsPrefix(delivered, Wanted(sent))
    \/ /\ damaged /\ Unwanted # {}
       /\ \E i \in DOMAIN sent : IsPrefix(delivered, Wanted(RemoveAt(sent, i)))

(***************************************************************************)
(* When all has been read and nothing was damaged, every message has been  *)
(* delivered and the buffer is empty, provided that the tags agree and no  *)
(* message is longer than the receiver allows: send() does not look        *)
(* (ProtobufCodecLite.cc:54, 65).                                          *)
(***************************************************************************)
AllDelivered ==
    wire = <<>> /\ ~damaged /\ tag_ = SenderTag
        /\ (\A i \in DOMAIN sent : kMinMessageLen + Len(sent[i]) <= kMaxMessageLen) =>
    delivered = Wanted(sent) /\ readable = <<>> /\ connected

(***************************************************************************)
(* After an error nothing is delivered any more, though the connection     *)
(* goes on reading: the bad frame stays at the front of the buffer, and    *)
(* whatever arrives behind it is not looked at (ProtobufCodecLite.cc:68,   *)
(* 89).                                                                    *)
(***************************************************************************)
ErrorIsFinal ==
    errorCode # "kNoError" =>
        Parsed(readable \o wire, delivered)
            = [left |-> readable \o wire, messages |-> delivered, code |-> errorCode]

(***************************************************************************)
(* What the receiver delivers: the messages that were sent, all of them,   *)
(* and nothing after an error.                                             *)
(***************************************************************************)
CodecInv ==
    /\ DeliveredInOrder
    /\ AllDelivered
    /\ ErrorIsFinal
=============================================================================
