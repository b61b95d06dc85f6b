----------------------------- MODULE MCFraming ------------------------------
(***************************************************************************)
(* What client.enqueue and sendMessage do to a message and readMessage and *)
(* decode undo: structures are encoded (Codec), cut into frames, joined    *)
(* (Framing) and decoded.  Small messages for TLC, with lengths around     *)
(* those of one and two frames and numbers of several bytes.               *)
(***************************************************************************)
EXTENDS Framing, Codec

Bytes(n) == [i \in 1..n |-> i]
Number == 66051     \* 0x010203

Message_(type, fields) == ("MessageType" :> type) @@ ("More" :> 0) @@ fields

Init2 == Message_(1, [ProtocolVersion |-> 2, MaxMessageSize |-> 12,
                      CreationMode |-> 1, Offset |-> Number,
                      DocIDLength |-> 3, DocID |-> Bytes(3), Data |-> Bytes(1)])
Init3 == ("Generation" :> 1) @@ [Init2 EXCEPT !.ProtocolVersion = 3]
Append2(n) == Message_(2, [Offset |-> n * Number, Data |-> Bytes(n)])
Append3(n) == ("Generation" :> 0) @@ [Append2(n) EXCEPT !.MessageType = 5]
SetKey == Message_(3, [RequestID |-> 258, Lifetime |-> 1, OldVersion |-> 0,
                       NewVersion |-> 1, NameLength |-> 2, Name |-> Bytes(2),
                       ValueLength |-> 0, Value |-> <<>>])
Broadcast == Message_(4, [DataLength |-> 4, Data |-> Bytes(4)])
Error == Message_(128, [ErrorCode |-> 3, Description |-> Bytes(8)])
Ack == Message_(129, [Ack |-> 1, Offset |-> Number])
Key(n) == [Version |-> n, NameLength |-> 1, Name |-> <<n>>,
           ValueLength |-> n, Value |-> Bytes(n)]
KeyInformation(n) == Message_(130, [Keys |-> [i \in 1..n |-> Key(i)]])
KeyAck == Message_(131, [Ack |-> 1, RequestID |-> 258])

\* <<layout, structure>>
Sent == {<<initMessageV2, Init2>>, <<initMessage, Init3>>,
         <<setKeyMessage, SetKey>>, <<broadcastMessage, Broadcast>>,
         <<ackNackMessage, Ack>>, <<setKeyAckNackMessage, KeyAck>>,
         <<errorMessage, Error>>, <<appendMessage, Append3(0)>>}
        \cup {<<appendMessageV2, Append2(n)>> : n \in {2, 3, 12, 13}}
        \cup {<<keyInformationMessage, KeyInformation(n)>> : n \in {0, 2}}

Messages == {encode(s[1], s[2]) : s \in Sent}

\* How the server, or an endpoint, reads a message of its type.
Decoded(m) ==
    CASE m[1] = 1        -> decodeInitMessage(m)
      [] m[1] \in {2, 5} -> decodeAppendMessage(m)
      [] m[1] = 3        -> decode(setKeyMessage, m)
      [] m[1] = 4        -> decode(broadcastMessage, m)
      [] m[1] = 129      -> decode(ackNackMessage, m)
      [] m[1] = 130      -> decode(keyInformationMessage, m)
      [] m[1] = 131      -> decode(setKeyAckNackMessage, m)

\* A structure as version 3 has it: what both versions are decoded into.
Newest(s) == IF s[1] \in {initMessageV2, appendMessageV2}
             THEN ("Generation" :> 0) @@ s[2] ELSE s[2]

Meaning == [m \in Messages |->
               Newest(CHOOSE s \in Sent : encode(s[1], s[2]) = m)]

\* What arrives, cut and joined, is decoded into what was encoded: no field
\* moves into its neighbour, a repeated one ends with the message, and the two
\* protocol versions mean the same (encoder.go:133-245, client.go:369-407).
\* Errors are only displayed.
DecodedAsSent ==
    \A i \in 1..Len(joined) : joined[i][1] # 128 =>
        [Decoded(joined[i]) EXCEPT !.More = 0] = Meaning[given[i]]
=============================================================================
