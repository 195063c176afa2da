------------------------------- MODULE Byter --------------------------------
(***************************************************************************)
(* The formats of what is sent over the two sockets: integers, lengths and *)
(* structs (pkg/messagix/byter), MQTT packets (pkg/messagix/packets,       *)
(* request.go, response.go and payload.go of pkg/messagix) and DGW frames  *)
(* (pkg/messagix/dgw/frames.go).  Data are sequences of bytes.             *)
(***************************************************************************)
EXTENDS Naturals, Sequences, SequencesExt

-----------------------------------------------------------------------------
(* Integers.                                                               *)

(* writeInteger: the low n bytes of v.                                     *)
writeInteger(v, n, endian) ==
  [i \in 1..n |->
     (v \div 256 ^ (IF endian = "big" THEN n - i ELSE i - 1)) % 256]

(* ReadInteger: fewer than n bytes are filled up with zeros.               *)
Byte(b, i) == IF i <= Len(b) THEN b[i] ELSE 0
ReadInteger(b, n, endian) ==
  FoldLeft(LAMBDA v, i :
             v * 256 + Byte(b, IF endian = "big" THEN i ELSE n + 1 - i),
           0, [i \in 1..n |-> i])
Rest(b, n) == SubSeq(b, n + 1, Len(b))

(* EncodeVLQ: groups of seven bits, the lowest first, all but the last     *)
(* with the highest bit set.                                               *)
Groups(v) == CASE v < 128 -> 1
               [] v >= 128 /\ v < 128 ^ 2 -> 2
               [] v >= 128 ^ 2 /\ v < 128 ^ 3 -> 3
               [] v >= 128 ^ 3 /\ v < 128 ^ 4 -> 4
               [] OTHER -> 5
EncodeVLQ(v) ==
  [i \in 1..Groups(v) |-> ((v \div 128 ^ (i - 1)) % 128)
                            + (IF i < Groups(v) THEN 128 ELSE 0)]

(* DecodeVLQ: an error without a last byte, and with a fifth.              *)
NoValue == [ok |-> FALSE, value |-> 0, rest |-> <<>>]
MutDecodeVLQ(b) ==
  LET last == SelectInSeq(b, LAMBDA x : x < 128)
  IN IF last = 0 \/ last > 3 THEN NoValue
     ELSE [ok |-> TRUE, rest |-> Rest(b, last),
           value |-> FoldLeft(LAMBDA v, i : v + (b[i] % 128) * 128 ^ (i - 1),
                              0, [i \in 1..last |-> i])]
DecodeVLQ(b) ==
  LET last == SelectInSeq(b, LAMBDA x : x < 128)
  IN IF last = 0 \/ last > 4 THEN NoValue
     ELSE [ok |-> TRUE, rest |-> Rest(b, last),
           value |-> FoldLeft(LAMBDA v, i : v + (b[i] % 128) * 128 ^ (i - 1),
                              0, [i \in 1..last |-> i])]

-----------------------------------------------------------------------------
(* Structs.  A field has a kind and, an integer or string, the number of   *)
(* bytes of its value or length; a string of size 0 has no length.         *)

Field(kind, size) == [kind |-> kind, size |-> size]
Uint(size) == Field("uint", size)
VLQ == Field("vlq", 0)
String(size) == Field("string", size)
Bool == Field("bool", 0)
JSON == Field("json", 0)
Enum == Field("enum", 1)

WriteField(f, v) ==
  CASE f.kind = "uint" -> writeInteger(v, f.size, "big")
    [] f.kind = "enum" -> <<v % 256>>
    [] f.kind = "vlq" -> EncodeVLQ(v)
    [] f.kind = "string" -> writeInteger(Len(v), f.size, "big") \o v
    [] OTHER -> <<>>

WriteFromStruct(fields, values) ==
  FoldLeft(LAMBDA b, i : b \o WriteField(fields[i], values[i]),
           <<>>, [i \in 1..Len(fields) |-> i])

(* Reading a field of a buffer that is not empty.                          *)
Got(v, rest) == [ok |-> TRUE, value |-> v, rest |-> rest]
MutReadString(b, size) ==
  LET n == ReadInteger(b, size, "big") % 256
      rest == Rest(b, size)
  IN IF n > 0 /\ rest = <<>> THEN NoValue
     ELSE Got([i \in 1..n |-> Byte(rest, i)], Rest(rest, n))
readString(b, size) ==
  LET n == ReadInteger(b, size, "big")
      rest == Rest(b, size)
  IN IF size = 0 \/ (n > 0 /\ rest = <<>>) THEN NoValue
     ELSE Got([i \in 1..n |-> Byte(rest, i)], Rest(rest, n))
ReadField(f, b) ==
  CASE f.kind = "uint" -> Got(ReadInteger(b, f.size, "big"), Rest(b, f.size))
    [] f.kind = "enum" -> Got(b[1], Rest(b, 1))
    [] f.kind = "vlq" -> DecodeVLQ(b)
    [] f.kind = "string" -> readString(b, f.size)
    [] f.kind = "bool" -> Got(b[1] # 0, Rest(b, 1))
    [] f.kind = "json" -> Got(b, <<>>)

(* ReadToStruct: the fields after the end of the buffer are not read, and  *)
(* those after an error neither.                                           *)
ReadToStruct(fields, b) ==
  FoldLeft(LAMBDA s, f :
             LET r == ReadField(f, s.rest)
             IN IF ~s.ok \/ s.rest = <<>> THEN s
                ELSE IF ~r.ok THEN [s EXCEPT !.ok = FALSE]
                ELSE [s EXCEPT !.values = Append(@, r.value),
                               !.rest = r.rest],
           [ok |-> TRUE, values |-> <<>>, rest |-> b], fields)

-----------------------------------------------------------------------------
(* MQTT packets.                                                           *)

CONNECT == 1
CONNACK == 2
PUBLISH == 3
PUBACK == 4
SUBSCRIBE == 8
SUBACK == 9
PINGRESP == 13

(* PublishPacket: Compress and Decompress.                                 *)
Compress(p) == PUBLISH * 16 + p.DUP * 8 + (p.QOSLevel % 4) * 2 + p.RetainFlag
Decompress(byte) ==
  [ok |-> byte \div 16 = PUBLISH, DUP |-> (byte \div 8) % 2,
   QOSLevel |-> (byte \div 2) % 4, RetainFlag |-> byte % 2]

CreateConnectFlagByte(f) ==
  (IF f.Username THEN 128 ELSE 0) + (IF f.Password THEN 64 ELSE 0)
    + (IF f.Retain THEN 32 ELSE 0) + (f.QoS % 4) * 8
    + (IF f.CleanSession THEN 2 ELSE 0)

SubscribeByte == SUBSCRIBE * 16 + 2

Header == <<Uint(1), VLQ>>
ConnectPayload ==
  <<String(2), Uint(1), Uint(1), Uint(2), String(2), String(2)>>
PublishPayload == <<String(2), Uint(2), String(0)>>
SubscribePayload == <<Uint(2), String(2), Enum>>

(* Request.Write.                                                          *)
Write(packetByte, payload) ==
  WriteFromStruct(Header, <<packetByte, Len(payload)>>) \o payload

(* What is read after the header, by packet type.                          *)
responseMap ==
  [t \in {CONNACK, PUBACK, SUBACK, PUBLISH, PINGRESP} |->
     CASE t = CONNACK -> <<Bool, Uint(1)>>
       [] t = PUBACK -> <<Uint(2)>>
       [] t = SUBACK -> <<Uint(2), Uint(1)>>
       [] t = PUBLISH -> <<String(2), JSON>>
       [] t = PINGRESP -> <<>>]

(* Response.Read.  The identifier of a message that was published with QoS *)
(* 1 is taken from where it is for a topic of 8 characters, and removed.   *)
IdAt == 10
Unread == [ok |-> FALSE, type |-> 0, identifier |-> 0, values |-> <<>>]
MutRead(data) ==
  LET header == ReadToStruct(Header, data)
      type == header.values[1] \div 16
      read == ReadToStruct(responseMap[type], header.rest)
  IN IF ~header.ok \/ type \notin DOMAIN responseMap THEN Unread
     ELSE [ok |-> read.ok, type |-> type, values |-> read.values,
           identifier |-> 0]
Read(data) ==
  LET header == ReadToStruct(Header, data)
      packetByte == header.values[1]
      type == packetByte \div 16
      withId == type = PUBLISH /\ (packetByte \div 2) % 4 = 1
      b == header.rest
      rest == IF withId THEN SubSeq(b, 1, IdAt) \o Rest(b, IdAt + 2) ELSE b
      read == ReadToStruct(responseMap[type], rest)
  IN IF ~header.ok \/ type \notin DOMAIN responseMap THEN Unread
     ELSE [ok |-> read.ok, type |-> type, values |-> read.values,
           identifier |-> IF withId
                          THEN ReadInteger(Rest(b, IdAt), 2, "big") ELSE 0]

-----------------------------------------------------------------------------
(* DGW frames.  The parameters of an OpenFrame are JSON if they begin with *)
(* a brace.                                                                *)

Word(v) == writeInteger(v % 65536, 2, "little")
WordAt(b, i) == ReadInteger(Rest(b, i - 1), 2, "little")
IsJSON(b) == b # <<>> /\ b[1] = 123

FrameByte == [ping |-> 9, pong |-> 10, ack |-> 12, data |-> 13, open |-> 15]

Marshal(f) ==
  LET high == IF f.ack THEN 128 ELSE 0
      head == <<FrameByte[f.type]>> \o Word(f.stream)
  IN CASE f.type \in {"ping", "pong"} -> <<FrameByte[f.type]>>
       [] f.type = "data" ->
            head \o Word(Len(f.payload) + 2)
              \o <<0, f.ackID % 256, ((f.ackID \div 256) % 128) + high>>
              \o f.payload
       [] f.type = "ack" -> head \o Word(2) \o <<0>> \o Word(f.ackID)
       [] f.type = "open" ->
            head \o Word(Len(f.payload)) \o <<0>> \o f.payload

Frame(type, stream, payload, ack, ackID) ==
  [type |-> type, stream |-> stream, payload |-> payload, ack |-> ack,
   ackID |-> ackID]

(* Unmarshal: the frame and what is left.  The sums of lengths are of 16   *)
(* bits: a length that makes them overflow is out of the slice's bounds,   *)
(* and the slice expression panics.                                        *)
Bad(why, rest) == [frame |-> Frame(why, 0, <<>>, FALSE, 0), rest |-> rest]
Good(frame, rest) == [frame |-> frame, rest |-> rest]

MutUnmarshalData(b) ==
  LET end == (8 + WordAt(b, 4)) % 65536
  IN IF Len(b) < 8 \/ Len(b) < end THEN Bad("too short", <<>>)
     ELSE Good(Frame("data", WordAt(b, 2), SubSeq(b, 9, end),
                     b[8] >= 128, WordAt(b, 7) % 32768), Rest(b, end))

UnmarshalData(b) ==
  LET length == (WordAt(b, 4) + 65534) % 65536
      end == (8 + length) % 65536
  IN IF Len(b) < 8 \/ Len(b) < end THEN Bad("too short", <<>>)
     ELSE IF end < 8 THEN Bad("panic", <<>>)
     ELSE Good(Frame("data", WordAt(b, 2), SubSeq(b, 9, end),
                     b[8] >= 128, WordAt(b, 7) % 32768), Rest(b, end))

UnmarshalAck(b) ==
  IF Len(b) < 8 \/ WordAt(b, 4) # 2 THEN Bad("too short", <<>>)
  ELSE Good(Frame("ack", WordAt(b, 2), <<>>, FALSE, WordAt(b, 7)), Rest(b, 8))

UnmarshalOpen(b) ==
  LET end == (6 + WordAt(b, 4)) % 65536
      payload == SubSeq(b, 7, end)
  IN IF Len(b) < 6 \/ Len(b) < end THEN Bad("too short", <<>>)
     ELSE IF end < 6 THEN Bad("panic", <<>>)
     ELSE IF ~IsJSON(payload) THEN Bad("not JSON", b)
     ELSE Good(Frame("open", WordAt(b, 2), payload, FALSE, 0), Rest(b, end))

CheckFrameType(b) ==
  CASE b[1] = FrameByte.ping -> Good(Frame("ping", 0, <<>>, FALSE, 0),
                                     Rest(b, 1))
    [] b[1] = FrameByte.pong -> Good(Frame("pong", 0, <<>>, FALSE, 0),
                                     Rest(b, 1))
    [] b[1] = FrameByte.ack -> UnmarshalAck(b)
    [] b[1] = FrameByte.data -> UnmarshalData(b)
    [] b[1] = FrameByte.open -> UnmarshalOpen(b)
    [] OTHER -> Bad("unsupported", <<>>)

(* The reader's loop over a message of at most n frames.                   *)
ReadFrames(b, n) ==
  FoldLeft(LAMBDA s, i :
             IF s.rest = <<>> THEN s
             ELSE LET r == CheckFrameType(s.rest)
                  IN [frames |-> Append(s.frames, r.frame), rest |-> r.rest],
           [frames |-> <<>>, rest |-> b], [i \in 1..n |-> i])

MarshalAll(frames) == FoldLeft(LAMBDA b, f : b \o Marshal(f), <<>>, frames)

-----------------------------------------------------------------------------
(* Properties.                                                             *)

(* A length is read back as it was written, up to the four bytes that are  *)
(* allowed, with what follows it; a greater one and one that was cut off   *)
(* are errors, never another length.                                       *)
VLQRoundTrip(v) ==
  LET b == EncodeVLQ(v)
  IN /\ DecodeVLQ(b \o <<200, 1>>) =
          IF v < 128 ^ 4 THEN Got(v, <<200, 1>>) ELSE NoValue
     /\ \A n \in 0..(Len(b) - 1) : ~DecodeVLQ(SubSeq(b, 1, n)).ok

(* The server reads of a packet what was put into it, as long as no string *)
(* with a length has more than 65535 bytes: the remaining length is that   *)
(* of the payload, and every field has its value; the string without a     *)
(* length at the end of a publish is all that is left.                     *)
PacketRoundTrip(fields, values, packet) ==
  LET header == ReadToStruct(Header, packet)
      format == [i \in 1..Len(fields) |->
                   IF fields[i] = String(0) THEN JSON ELSE fields[i]]
      read == ReadToStruct(format, header.rest)
  IN (\A i \in 1..Len(fields) :
        fields[i] = String(2) => Len(values[i]) < 65536) =>
       /\ header.ok /\ header.values[2] = Len(header.rest)
       /\ read.ok /\ read.values = values /\ read.rest = <<>>

(* The topic, the data and the identifier of a message are read, whatever  *)
(* its other flags, if it has QoS 0 or if it has QoS 1 and its topic has 8 *)
(* characters, as LS_RESP has; and of no other message: one with QoS 1 on  *)
(* a longer or shorter topic, or with QoS 2, is always misread.            *)
PublishIsRead(p, topic, id, json, read) ==
  /\ Decompress(Compress(p)) = [p EXCEPT !.QOSLevel = @ % 4] @@ [ok |-> TRUE]
  /\ p.QOSLevel = 0 \/ (p.QOSLevel = 1 /\ Len(topic) = 8)
       <=> /\ read.ok /\ read.type = PUBLISH /\ read.values = <<topic, json>>
           /\ read.identifier = IF p.QOSLevel > 0 THEN id ELSE 0

(* Frames in one websocket message are separated and read as they were     *)
(* sent; a message that ends within a frame gives no wrong frame.          *)
FramesSplit(frames, bytes) ==
  /\ ReadFrames(bytes, Len(frames)) = [frames |-> frames, rest |-> <<>>]
  /\ \A n \in 0..(Len(bytes) - 1) :
       LET cut == ReadFrames(SubSeq(bytes, 1, n), Len(frames)).frames
       IN \A i \in 1..Len(cut) :
            cut[i] = frames[i] \/ cut[i].type = "too short"
=============================================================================
