------------------------------- MODULE Codec --------------------------------
(***************************************************************************)
(* Messages as bytes (encoder.go): a structure is written field by field,  *)
(* most significant byte first, and read by the same list of fields.       *)
(* Reflection finds that list in the Go type; here it is a "layout", a     *)
(* sequence of fields <<name, kind>>.  A message is a record with the      *)
(* fields of its layout.                                                   *)
(***************************************************************************)
EXTENDS Naturals, Sequences, TLC, SequencesExt

uint8(name)  == <<name, "uint8">>
uint16(name) == <<name, "uint16">>
uint32(name) == <<name, "uint32">>
uint64(name) == <<name, "uint64">>
string(name) == <<name, "string">>     \* as long as the number before it
Data         == <<"Data", "data">>     \* a []byte: the rest of the message
Keys         == <<"Keys", "keys">>     \* `repeat:"true"`, to the end

Header == <<uint8("MessageType"), uint8("More")>>

initMessageV2 == Header \o
    <<uint16("ProtocolVersion"), uint32("MaxMessageSize"),
      uint8("CreationMode"), uint64("Offset"),
      uint8("DocIDLength"), string("DocID"), Data>>
initMessage == Header \o
    <<uint16("ProtocolVersion"), uint32("MaxMessageSize"),
      uint8("CreationMode"), uint32("Generation"), uint64("Offset"),
      uint32("DocIDLength"), string("DocID"), Data>>
appendMessageV2 == Header \o <<uint64("Offset"), Data>>
appendMessage == Header \o <<uint32("Generation"), uint64("Offset"), Data>>
setKeyMessage == Header \o
    <<uint16("RequestID"), uint8("Lifetime"),
      uint32("OldVersion"), uint32("NewVersion"),
      uint32("NameLength"), string("Name"),
      uint32("ValueLength"), string("Value")>>
\* Never decoded: no number says how long the description is.
errorMessage == Header \o <<uint16("ErrorCode"), string("Description")>>
ackNackMessage == Header \o <<uint16("Ack"), uint64("Offset")>>
setKeyAckNackMessage == Header \o <<uint16("Ack"), uint16("RequestID")>>
keyInformationMessage == Header \o <<Keys>>
keyInformation ==
    <<uint32("Version"), uint32("NameLength"), string("Name"),
      uint32("ValueLength"), string("Value")>>
broadcastMessage == Header \o <<uint32("DataLength"), Data>>

\* 0 for what is no number.
sizeof(kind) ==
    CASE kind = "uint8" -> 1  [] kind = "uint16" -> 2
      [] kind = "uint32" -> 4 [] kind = "uint64" -> 8
      [] OTHER -> 0

(***************************************************************************)
(* Writing                                                                 *)
(***************************************************************************)

\* v >> (8 * n)
Shifted(v, n) == FoldLeft(LAMBDA w, i : w \div 256, v, [i \in 1..n |-> i])

writeUint(m, v, size) == m \o [i \in 1..size |-> Shifted(v, size - i) % 256]

WriteField(m, field, v) ==
    IF sizeof(field[2]) = 0 THEN m \o v ELSE writeUint(m, v, sizeof(field[2]))

\* A field that is a number, a string or bytes.
EncodeFlat(m, layout, s) ==
    FoldLeft(LAMBDA n, field : WriteField(n, field, s[field[1]]), m, layout)

encode(layout, s) ==
    IF Keys \in Range(layout)
    THEN FoldLeft(LAMBDA m, key : EncodeFlat(m, keyInformation, key),
                  EncodeFlat(<<>>, Header, s), s.Keys)
    ELSE EncodeFlat(<<>>, layout, s)

(***************************************************************************)
(* Reading.  A decoder is at a position of the message, remembers the      *)
(* number it has read last, and has filled in some fields; or it has       *)
(* failed with "message too short".                                        *)
(***************************************************************************)
Decoder(pos) == [pos |-> pos, value |-> 0, fields |-> <<>>, err |-> "nil"]
TooShort(d) == [d EXCEPT !.err = "message too short"]
Fill(d, name, v, pos) ==
    [d EXCEPT !.pos = pos, !.fields = (name :> v) @@ d.fields]

readUint(m, at, size) ==
    FoldLeft(LAMBDA ret, byte : ret * 256 + byte, 0,
             SubSeq(m, at + 1, at + size))

\* One pass of the loop of _decode for a field that is no list of structures.
DecodeField(m, d, field) ==
    LET size == IF field[2] = "string" THEN d.value ELSE sizeof(field[2])
        value == readUint(m, d.pos, size)
    IN CASE d.err # "nil" -> d
         [] d.err = "nil" /\ d.pos + size > Len(m) -> TooShort(d)
         [] OTHER ->
            CASE field[2] = "string" ->
                 Fill(d, field[1], SubSeq(m, d.pos + 1, d.pos + size),
                      d.pos + size)
              [] field[2] = "data" ->
                 Fill(d, "Data", SubSeq(m, d.pos + 1, Len(m)), Len(m))
              [] OTHER ->
                 [Fill(d, field[1], value, d.pos + size) EXCEPT !.value = value]

DecodeFlat(m, layout, pos) ==
    FoldLeft(LAMBDA d, field : DecodeField(m, d, field), Decoder(pos), layout)

\* Mutant: without the tag, as many keys as the number before them says (More).
DecodeCounted(m, pos) == Fill(Decoder(pos), "Keys", <<>>, pos)

\* Keys to the end of the message; the first that fails ends it.
DecodeKeys(m, pos) ==
    LET from[at \in Nat] ==
            IF at >= Len(m) THEN Fill(Decoder(at), "Keys", <<>>, at)
            ELSE LET key == DecodeFlat(m, keyInformation, at) IN
                 IF key.err # "nil" THEN key
                 ELSE LET rest == from[key.pos] IN
                      IF rest.err # "nil" THEN rest
                      ELSE Fill(rest, "Keys",
                                <<key.fields>> \o rest.fields.Keys, rest.pos)
    IN from[pos]

\* The record that is read, or the error.
Result(d) == IF d.err = "nil" THEN d.fields ELSE [err |-> d.err]

decode(layout, m) ==
    IF Keys \in Range(layout)
    THEN LET header == DecodeFlat(m, Header, 0)
             keys == DecodeKeys(m, header.pos)
         IN IF header.err # "nil" \/ keys.err # "nil"
            THEN [err |-> "message too short"]
            ELSE keys.fields @@ header.fields
    ELSE Result(DecodeFlat(m, layout, 0))

(***************************************************************************)
(* The server reads both versions of two messages (client.go).             *)
(***************************************************************************)

\* Version 2 has no Generation: it stays 0.
AsV3(s) == IF "err" \in DOMAIN s THEN s ELSE ("Generation" :> 0) @@ s

decodeInitMessage(m) ==
    IF Len(m) > 4 /\ m[1] = 1 /\ m[3] = 0 /\ m[4] = 2
    THEN AsV3(decode(initMessageV2, m))
    ELSE decode(initMessage, m)

decodeAppendMessage(m) ==
    IF m[1] = 2 THEN AsV3(decode(appendMessageV2, m))
    ELSE decode(appendMessage, m)
=============================================================================
