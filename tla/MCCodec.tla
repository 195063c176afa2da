------------------------------ MODULE MCCodec -------------------------------
(***************************************************************************)
(* Calls of the functions of Byter and Lightspeed.                         *)
(***************************************************************************)
EXTENDS MCCalls

BT == INSTANCE Byter
LS == INSTANCE Lightspeed

-----------------------------------------------------------------------------
(* Lengths around every power of 128; packets with strings of every length *)
(* at which a byte is added to a length.                                   *)

Lengths == UNION {{128 ^ k - 1, 128 ^ k, 128 ^ k + 1} : k \in 0..4}
             \cup {300, 2 ^ 30}

Text(n) == [i \in 1..n |-> i % 256]
Texts == {Text(n) : n \in {0, 1, 127, 128, 255, 256, 300}}
BigTexts == {Text(n) : n \in {65535, 65536}}

Packets ==
  {[fields |-> BT!ConnectPayload, byte |-> BT!CONNECT * 16,
    values |-> <<Text(4), 3, f, 10, Text(6), t>>]
     : f \in {BT!CreateConnectFlagByte([Username |-> u, Password |-> p,
                Retain |-> FALSE, QoS |-> q, CleanSession |-> TRUE])
                : u \in BOOLEAN, p \in BOOLEAN, q \in 0..3},
       t \in Texts}
  \cup {[fields |-> BT!ConnectPayload, byte |-> BT!CONNECT * 16,
         values |-> <<Text(4), 3, 130, 10, Text(6), t>>] : t \in BigTexts}
  \cup {[fields |-> BT!SubscribePayload, byte |-> BT!SubscribeByte,
         values |-> <<id, t, q>>]
          : id \in {0, 1, 255, 256, 65535}, t \in Texts, q \in 0..2}
  \cup {[fields |-> BT!PublishPayload, byte |-> BT!PUBLISH * 16 + 2,
         values |-> <<t, id, j>>]
          : id \in {1, 256, 65535}, t \in {Text(7), Text(16)},
            j \in Texts \ {Text(0)}}
  \cup {[fields |-> BT!PublishPayload, byte |-> BT!PUBLISH * 16 + 2,
         values |-> <<Text(7), 1, Text(65536)>>]}

Published ==
  [p : [DUP : 0..1, QOSLevel : 0..2, RetainFlag : 0..1],
   topic : {Text(n) : n \in {7, 8, 16}}, id : {1, 256, 65535},
   json : {<<123, 125>>, Text(130)}]

(* DGW frames, with and without a payload and with two bytes of an ID.     *)
Payload == {<<>>, <<7>>, Text(300)}
DGWFrames ==
  {BT!Frame(t, 0, <<>>, FALSE, 0) : t \in {"ping", "pong"}}
  \cup {BT!Frame("data", s, p, a, id)
          : s \in {1, 258}, p \in Payload, a \in BOOLEAN, id \in {0, 300}}
  \cup {BT!Frame("ack", 1, <<>>, FALSE, id) : id \in {0, 300}}
  \cup {BT!Frame("open", 1, <<123>> \o p, FALSE, 0) : p \in Payload}

-----------------------------------------------------------------------------
(* Steps: calls of four procedures, one without Unrecognized, with up to   *)
(* three arguments of every type, some from references, after stores and   *)
(* under conditions.                                                       *)

Step(op, args, key, val) ==
  [op |-> op, args |-> args, key |-> key, val |-> val]
Do(op, args) == Step(op, args, "", LS!Nil)
Lit(t, v) == Step("literal", <<>>, "", LS!Value(t, v))
I64(n) == Step("I64_FROM_STRING", <<>>, "", LS!Value("int64", n))
Load(key) == Step("LOAD", <<>>, key, LS!Nil)

F(kind, index) == [kind |-> kind, indexes |-> <<index>>, condition |-> 0]
Procs ==
  [plain |-> [name |-> "plain", hasUnrecognized |-> TRUE,
              fields |-> <<F("int64", 0), F("string", 1), F("bool", 2)>>],
   sparse |-> [name |-> "sparse", hasUnrecognized |-> TRUE,
               fields |-> <<F("any", 2), F("int64", 1), F("int", 2)>>],
   choice |-> [name |-> "choice", hasUnrecognized |-> TRUE,
               fields |-> <<F("bool", 0),
                            [kind |-> "int64", indexes |-> <<1, 2>>,
                             condition |-> 1]>>],
   strict |-> [name |-> "strict", hasUnrecognized |-> FALSE,
               fields |-> <<F("string", 1), F("int64", 0)>>]]

Simple == {I64(7), Lit("string", "s"), Lit("bool", TRUE), Lit("bool", FALSE),
           Lit("float64", 5), Load("a"), Load("b"), Do("UNDEFINED", <<>>),
           Step("I64_FROM_STRING", <<>>, "", LS!Nil),
           Step("I64_FROM_STRING", <<>>, "", LS!Value("string", "x"))}
Args == Simple \cup
  {Do("I64_ADD", <<I64(1), Load("a")>>), Do("I64_EQUAL", <<I64(1), I64(1)>>),
   Do("NOT", <<I64(3)>>), Do("NATIVE_OP_ARRAY_GET_SIZE", <<Load("c")>>),
   Do("NATIVE_OP_MAP_CREATE", <<>>), Do("NATIVE_OP_CURRENT_TIME", <<>>),
   Step("TO_BLOB", <<>>, "", LS!Value("[]byte", 3))}

Prologue ==
  <<Step("STORE", <<I64(1)>>, "a", LS!Nil),
    Step("STORE", <<Do("NATIVE_OP_ARRAY_APPEND",
                       <<Do("NATIVE_OP_ARRAY_CREATE", <<>>), I64(1)>>)>>,
         "c", LS!Nil),
    Step("STORE", <<Do("NATIVE_OP_MAP_CREATE", <<>>)>>, "m", LS!Nil),
    Do("NATIVE_OP_MAP_SET", <<Load("m"), Lit("string", "k"), I64(1)>>)>>

Program(proc, args, cond) ==
  LET call == Step("CALL_STORED_PROCEDURE", args, proc, LS!Nil)
      other == Step("CALL_STORED_PROCEDURE", <<I64(1)>>, "plain", LS!Nil)
  IN Do("BLOCK", Prologue \o
       <<Do("IF", <<cond, call, other>>),
         Step("STORE_ARRAY", <<Do("BLOCK", <<call>>)>>, "b",
              LS!Value("int64", 1)), call>>)

Programs ==
  {Program(p, a, I64(n)) : p \in DOMAIN Procs \cup {"unknown"},
                           a \in Upto(Args, 2), n \in {0, 1}}
  \cup {Program(p, a, c) : p \in DOMAIN Procs, a \in [1..3 -> Simple],
                           c \in {Do("I64_EQUAL", <<I64(1), I64(1)>>)}}

-----------------------------------------------------------------------------
CodecInputs ==
  \/ fn = "EncodeVLQ" /\ in \in Lengths
  \/ fn = "Write" /\ in \in Packets
  \/ fn = "Read" /\ in \in Published
  \/ fn = "Marshal" /\ in \in Upto(DGWFrames, 2)
  \/ fn = "Decode" /\ in \in Programs

CallEncodeVLQ == Call("EncodeVLQ") /\ out' = BT!EncodeVLQ(in)
CallWrite ==
  /\ Call("Write")
  /\ out' = BT!Write(in.byte, BT!WriteFromStruct(in.fields, in.values))

(* A message as the server sends it.                                       *)
CallRead ==
  /\ Call("Read")
  /\ LET payload ==
           BT!WriteFromStruct(<<BT!String(2)>>, <<in.topic>>)
             \o (IF in.p.QOSLevel > 0 THEN BT!writeInteger(in.id, 2, "big")
                 ELSE <<>>) \o in.json
     IN out' = BT!Read(BT!Write(BT!Compress(in.p), payload))
CallMarshal == Call("Marshal") /\ out' = BT!MarshalAll(in)
CallDecode ==
  /\ Call("Decode")
  /\ out' = LS!Decode(in, LS!NewLightSpeedDecoder, Procs).s.rows

CodecNext ==
  \/ CallEncodeVLQ \/ CallWrite \/ CallRead \/ CallMarshal \/ CallDecode

-----------------------------------------------------------------------------
(* The properties of the functions, of every call.                         *)

(* What one side encodes the other decodes: lengths, packets and published *)
(* messages are read as they were written, at every boundary of their      *)
(* lengths; the frames of a message are separated as they were put         *)
(* together; and no argument of a stored procedure is lost but by rows     *)
(* that have no place for what is unrecognized.                            *)
CodecsInvert ==
  /\ After("EncodeVLQ") => BT!VLQRoundTrip(in)
  /\ After("Write") => BT!PacketRoundTrip(in.fields, in.values, out)
  /\ After("Read") => BT!PublishIsRead(in.p, in.topic, in.id, in.json, out)
  /\ After("Marshal") => BT!FramesSplit(in, out)
  /\ After("Decode") => LS!ArgumentsKept(out)
=============================================================================
