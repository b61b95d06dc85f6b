---------------------------- MODULE FramingProofs ----------------------------
(***************************************************************************)
(* Proofs about Framing, for messages of any length, any size of a frame   *)
(* of 3 bytes or more and any number of messages: type correctness,        *)
(* NeverPanics, FramesFit, and that cutting and joining implement Outbox.  *)
(*                                                                         *)
(* The argument is about places in the messages given: there is one where  *)
(* the sender is, one where the reader is, and the frames under way lead   *)
(* from the reader's to the sender's.                                      *)
(***************************************************************************)
EXTENDS Framing, SequenceTheorems, TLAPS

Bytes == Seq(Nat)
FrameType == [continues: {"no", "yes"}, more: {0, 1}, body: Bytes]

TypeOK ==
    /\ given \in Seq(Message)
    /\ rest \in Bytes
    /\ begun \in {"no", "yes"}
    /\ wire \in Seq(FrameType)
    /\ buffer \in Bytes
    /\ joined \in Seq(Bytes)

\* The place behind the first "from" bytes of a message.
Place == [msg: Nat, from: Nat]
At(msg, from) == [msg |-> msg, from |-> from]

\* The bytes of s are those of m from its place p on, but for the flag.
Copies(s, m, from) ==
    /\ from + Len(s) <= Len(m)
    /\ \A k \in 1..Len(s) : from + k # 2 => s[k] = m[from + k]

\* Where the sender is, and what it has left.
Writing == IF rest = <<>> THEN At(Len(given) + 1, 0)
           ELSE At(Len(given), Len(given[Len(given)]) - Len(rest))
RestOK ==
    rest # <<>> =>
        /\ Len(given) >= 1
        /\ Len(rest) <= Len(given[Len(given)])
        /\ Copies(rest, given[Len(given)], Len(given[Len(given)]) - Len(rest))
        /\ begun = "no" <=> Len(rest) = Len(given[Len(given)])

\* Where the reader is, and what it has of that message.
Reading == At(Len(joined) + 1, Len(buffer))
BufferOK ==
    buffer # <<>> =>
        /\ Len(joined) < Len(given)
        /\ Copies(buffer, given[Len(joined) + 1], 0)

\* Frame f leads from place p to place q.
Leads(f, p, q) ==
    /\ p.msg \in 1..Len(given)
    /\ Len(f.body) >= 1
    /\ Copies(f.body, given[p.msg], p.from)
    /\ f.continues = (IF p.from = 0 THEN "no" ELSE "yes")
    /\ f.more = (IF p.from + Len(f.body) < Len(given[p.msg]) THEN 1 ELSE 0)
    /\ q = IF f.more = 1 THEN At(p.msg, p.from + Len(f.body)) ELSE At(p.msg + 1, 0)

Path(at) ==
    /\ at \in Seq(Place)
    /\ Len(at) = Len(wire) + 1
    /\ at[1] = Reading
    /\ at[Len(at)] = Writing
    /\ \A i \in 1..Len(wire) : Leads(wire[i], at[i], at[i + 1])

\* What was joined is what was given.
JoinedOK ==
    /\ Len(joined) <= Len(given)
    /\ \A i \in 1..Len(joined) : /\ Len(joined[i]) = Len(given[i])
                                 /\ Copies(joined[i], given[i], 0)

Inv == /\ TypeOK
       /\ FramesFit
       /\ RestOK
       /\ BufferOK
       /\ JoinedOK
       /\ \E at \in Seq(Place) : Path(at)

-----------------------------------------------------------------------------
(***************************************************************************)
(* What the operators do.                                                  *)
(***************************************************************************)
LEMMA MessageBytes ==
    ASSUME NEW m \in Message
    PROVE  m \in Bytes /\ Len(m) >= 2 /\ m[2] = 0 /\ m # <<>>
BY MessageAssumption DEF Bytes

LEMMA EmptyBytes == ASSUME NEW s \in Bytes PROVE s = <<>> <=> Len(s) = 0
BY DEF Bytes

LEMMA UptoBytes ==
    ASSUME NEW s \in Bytes, NEW n \in 0..Len(s)
    PROVE  /\ Upto(s, n) \in Bytes /\ Len(Upto(s, n)) = n
           /\ \A k \in 1..n : Upto(s, n)[k] = s[k]
BY SubSeqProperties DEF Upto, Bytes

LEMMA BeyondBytes ==
    ASSUME NEW s \in Bytes, NEW n \in 0..Len(s)
    PROVE  /\ Beyond(s, n) \in Bytes /\ Len(Beyond(s, n)) = Len(s) - n
           /\ \A k \in 1..(Len(s) - n) : Beyond(s, n)[k] = s[n + k]
BY SubSeqProperties DEF Beyond, Bytes

\* A copy of the next bytes behind a copy of the first is a copy of both.
LEMMA CopiesConcat ==
    ASSUME NEW s \in Bytes, NEW t \in Bytes, NEW m \in Bytes,
           Copies(s, m, 0), Copies(t, m, Len(s))
    PROVE  s \o t \in Bytes /\ Len(s \o t) = Len(s) + Len(t) /\ Copies(s \o t, m, 0)
<1>1. /\ s \o t \in Bytes
      /\ Len(s \o t) = Len(s) + Len(t)
      /\ \A k \in 1..Len(s) : (s \o t)[k] = s[k]
      /\ \A k \in 1..Len(t) : (s \o t)[Len(s) + k] = t[k]
  BY ConcatProperties DEF Bytes
<1>2. Len(s) \in Nat /\ Len(t) \in Nat
  BY DEF Bytes
<1>3. ASSUME NEW k \in 1..Len(s \o t), k # 2 PROVE (s \o t)[k] = m[k]
  <2>1. CASE k \in 1..Len(s)
    BY <1>1, <1>3, <2>1 DEF Copies
  <2>2. CASE k \notin 1..Len(s)
    <3>1. PICK j \in 1..Len(t) : k = Len(s) + j
      <4>1. k - Len(s) \in 1..Len(t) /\ k = Len(s) + (k - Len(s))
        BY <1>1, <1>2, <2>2
      <4> QED BY <4>1
    <3> QED BY <1>1, <1>3, <3>1 DEF Copies
  <2> QED BY <2>1, <2>2
<1> QED BY <1>1, <1>2, <1>3 DEF Copies

\* With the flag reset, a copy of all of a message is the message.
LEMMA UnflaggedCopy ==
    ASSUME NEW s \in Bytes, NEW m \in Message, Len(s) = Len(m), Copies(s, m, 0)
    PROVE  Unflagged(s) = m
<1>1. m \in Bytes /\ Len(m) \in Nat /\ Len(m) >= 2 /\ m[2] = 0
  BY MessageBytes DEF Bytes
<1>2. DOMAIN s = 1..Len(m) /\ DOMAIN m = 1..Len(m) /\ 2 \in 1..Len(m)
  BY <1>1 DEF Bytes
<1>3. \A k \in 1..Len(m) : Unflagged(s)[k] = m[k]
  BY <1>1, <1>2 DEF Unflagged, Copies
<1>4. Unflagged(s) = [k \in 1..Len(m) |-> Unflagged(s)[k]]
  BY <1>2 DEF Unflagged
<1>5. m = [k \in 1..Len(m) |-> m[k]]
  BY <1>1 DEF Bytes
<1> QED BY <1>3, <1>4, <1>5

\* More messages given do not move a frame.
LEMMA LeadsKept ==
    ASSUME given \in Seq(Message), NEW m \in Message, given' = Append(given, m),
           NEW f, NEW p \in Place, NEW q, Leads(f, p, q)
    PROVE  Leads(f, p, q)'
<1>1. p.msg \in 1..Len(given) /\ Len(given) \in Nat
  BY DEF Leads
<1>2. /\ p.msg \in 1..Len(given')
      /\ given'[p.msg] = given[p.msg]
  BY <1>1, AppendProperties
<1> QED BY <1>2 DEF Leads, Copies, At


-----------------------------------------------------------------------------
(***************************************************************************)
(* The steps.                                                              *)
(***************************************************************************)
LEMMA InvInit == Init => Inv
<1> SUFFICES ASSUME Init PROVE Inv
  OBVIOUS
<1>1. given = <<>> /\ rest = <<>> /\ wire = <<>> /\ buffer = <<>> /\ joined = <<>>
  BY DEF Init
<1>2. TypeOK
  BY <1>1 DEF Init, TypeOK, Bytes
<1>3. FramesFit /\ RestOK /\ BufferOK /\ JoinedOK
  BY <1>1 DEF FramesFit, RestOK, BufferOK, JoinedOK
<1>4. Path(<<At(1, 0)>>) /\ <<At(1, 0)>> \in Seq(Place)
  BY <1>1 DEF Path, Place, At, Reading, Writing
<1> QED BY <1>2, <1>3, <1>4 DEF Inv

LEMMA BeginStep ==
    ASSUME Inv, NEW m \in Message, Begin(m) PROVE Inv'
<1> USE DEF Inv
<1>1. /\ rest = <<>> /\ rest' = m /\ begun' = "no"
      /\ given' = Append(given, m)
      /\ UNCHANGED <<wire, buffer, joined>>
  BY DEF Begin
<1>2. /\ given' \in Seq(Message) /\ Len(given') = Len(given) + 1
      /\ given'[Len(given) + 1] = m
      /\ \A i \in 1..Len(given) : given'[i] = given[i]
      /\ Len(given) \in Nat
  BY <1>1, AppendProperties DEF TypeOK
<1>3. m \in Bytes /\ m # <<>> /\ Len(m) \in Nat
  BY MessageBytes DEF Bytes
<1>4. TypeOK'
  BY <1>1, <1>2, <1>3 DEF TypeOK
<1>5. FramesFit'
  BY <1>1 DEF FramesFit
<1>6. RestOK'
  BY <1>1, <1>2, <1>3 DEF RestOK, Copies
<1>7. BufferOK'
  <2>1. Len(joined) \in Nat
    BY DEF TypeOK
  <2> QED BY <1>1, <1>2, <2>1 DEF BufferOK
<1>8. JoinedOK'
  BY <1>1, <1>2 DEF JoinedOK, TypeOK
<1>9. ASSUME NEW at \in Seq(Place), Path(at) PROVE Path(at)'
  <2>1. Reading' = Reading
    BY <1>1 DEF Reading
  <2>2. Writing' = Writing
    BY <1>1, <1>2, <1>3 DEF Writing
  <2>3. ASSUME NEW i \in 1..Len(wire) PROVE Leads(wire[i], at[i], at[i + 1])'
    <3>1. Leads(wire[i], at[i], at[i + 1])
      BY <1>9 DEF Path
    <3>2. at[i] \in Place
      BY <1>9 DEF Path, TypeOK
    <3>3. \A f, q : Leads(f, at[i], q) => Leads(f, at[i], q)'
      BY <1>1, <3>2, LeadsKept DEF TypeOK
    <3> QED BY <1>1, <3>1, <3>3
  <2> QED BY <1>1, <1>9, <2>1, <2>2, <2>3 DEF Path
<1> QED BY <1>4, <1>5, <1>6, <1>7, <1>8, <1>9

\* Both kinds of frame: n bytes of what is left are sent.
LEMMA SendStep ==
    ASSUME Inv, rest # <<>>, NEW n \in 1..Len(rest), NEW f \in FrameType,
           f.continues = (IF begun = "no" THEN "no" ELSE "yes"),
           f.more = (IF Len(rest) > n THEN 1 ELSE 0),
           Len(f.body) = n,
           \A k \in 1..n : (begun = "no" /\ k = 2) \/ f.body[k] = rest[k],
           n + (IF f.continues = "yes" THEN 2 ELSE 0) <= MaxSize,
           wire' = Append(wire, f), rest' = Beyond(rest, n), begun' = "yes",
           UNCHANGED <<given, buffer, joined>>
    PROVE  Inv'
<1> USE DEF Inv
<1> DEFINE L == Len(given)
           m == given[L]
           from == Len(m) - Len(rest)
<1>1. /\ L \in Nat /\ L >= 1 /\ m \in Bytes /\ Len(m) \in Nat
      /\ Len(rest) \in Nat /\ Len(rest) <= Len(m)
      /\ begun = "no" <=> from = 0
      /\ Copies(rest, m, from) /\ from \in Nat
      /\ from = Len(m) - Len(rest)
      /\ Writing = At(L, from)
  <2>1. L \in Nat /\ L >= 1 /\ m \in Message /\ rest \in Bytes
    BY DEF RestOK, TypeOK
  <2>2. m \in Bytes /\ Len(m) \in Nat /\ Len(rest) \in Nat
    BY <2>1, MessageBytes DEF Bytes
  <2>3. Len(rest) <= Len(m) /\ Copies(rest, m, from)
    BY DEF RestOK
  <2>4. begun = "no" <=> from = 0
    BY <2>2 DEF RestOK
  <2>5. Writing = At(L, from)
    BY DEF Writing
  <2> QED BY <2>1, <2>2, <2>3, <2>4, <2>5
<1> HIDE DEF from, m, L
<1>q. PICK q : q = IF f.more = 1 THEN At(L, from + n) ELSE At(L + 1, 0)
  OBVIOUS
<1>2. /\ wire' \in Seq(FrameType) /\ Len(wire') = Len(wire) + 1
      /\ wire'[Len(wire) + 1] = f
      /\ \A i \in 1..Len(wire) : wire'[i] = wire[i]
      /\ Len(wire) \in Nat
  BY AppendProperties DEF TypeOK
<1>3. /\ rest' \in Bytes /\ Len(rest') = Len(rest) - n
      /\ \A k \in 1..Len(rest') : rest'[k] = rest[n + k]
      /\ rest' = <<>> <=> Len(rest) = n
  <2>1. rest \in Bytes /\ n \in 0..Len(rest)
    BY <1>1 DEF TypeOK
  <2>2. /\ rest' \in Bytes /\ Len(rest') = Len(rest) - n
        /\ \A k \in 1..(Len(rest) - n) : rest'[k] = rest[n + k]
    BY <2>1, BeyondBytes
  <2>3. rest' = <<>> <=> Len(rest') = 0
    BY <2>2, EmptyBytes
  <2> QED BY <1>1, <2>2, <2>3
<1>4. TypeOK'
  BY <1>2, <1>3 DEF TypeOK
<1>5. FramesFit'
  <2>1. \A i \in 1..Len(wire') : i \in 1..Len(wire) \/ i = Len(wire) + 1
    BY <1>2
  <2> QED BY <1>2, <2>1 DEF FramesFit
<1>6. RestOK'
  <2>1. ASSUME NEW k \in 1..Len(rest'), from + n + k # 2
        PROVE  rest'[k] = m[from + n + k]
    <3>1. n + k \in 1..Len(rest) /\ from + (n + k) # 2 /\ from + (n + k) = from + n + k
      BY <1>1, <1>3, <2>1
    <3> QED BY <1>1, <1>3, <3>1 DEF Copies
  <2>2. from + n = Len(m) - Len(rest') /\ Len(rest') < Len(m)
    BY <1>1, <1>3
  <2> QED BY <1>1, <1>3, <2>1, <2>2 DEF RestOK, Copies, from, m, L
<1>7. BufferOK' /\ JoinedOK'
  BY DEF BufferOK, JoinedOK
<1>8. Writing' = q /\ q \in Place
  <2>1. CASE Len(rest) = n
    BY <1>1, <1>3, <1>q, <2>1 DEF Writing, At, Place, L
  <2>2. CASE Len(rest) # n
    <3>1. Len(rest) > n /\ from + n = Len(m) - (Len(rest) - n)
      BY <1>1, <2>2
    <3> QED BY <1>1, <1>3, <1>q, <2>2, <3>1 DEF Writing, At, Place, L, m
  <2> QED BY <2>1, <2>2
<1>9. Leads(f, At(L, from), q)
  <2>1. f.more = IF from + n < Len(m) THEN 1 ELSE 0
    BY <1>1
  <2>2. Copies(f.body, m, from)
    <3>1. ASSUME NEW k \in 1..n, from + k # 2 PROVE f.body[k] = m[from + k]
      <4>1. f.body[k] = rest[k]
        BY <1>1, <3>1
      <4>2. k \in 1..Len(rest)
        BY <1>1
      <4> QED BY <3>1, <4>1, <4>2, <1>1 DEF Copies
    <3>2. from + n <= Len(m)
      BY <1>1
    <3> QED BY <3>1, <3>2 DEF Copies
  <2>3. f.continues = IF from = 0 THEN "no" ELSE "yes"
    BY <1>1
  <2>4. L \in 1..Len(given) /\ n >= 1
    BY <1>1 DEF L
  <2> QED BY <1>q, <2>1, <2>2, <2>3, <2>4 DEF Leads, At, m, L
<1>10. \A g, p, r : Leads(g, p, r)' <=> Leads(g, p, r)
  BY DEF Leads
<1>11. ASSUME NEW at \in Seq(Place), Path(at)
       PROVE  \E at2 \in Seq(Place) : Path(at2)'
  <2>a. PICK at2 : at2 = Append(at, q)
    OBVIOUS
  <2>1. /\ at2 \in Seq(Place) /\ Len(at2) = Len(at) + 1
        /\ at2[Len(at) + 1] = q
        /\ \A i \in 1..Len(at) : at2[i] = at[i]
        /\ Len(at) \in Nat
    BY <1>8, <2>a, AppendProperties
  <2>2. Len(at) = Len(wire) + 1 /\ at[1] = Reading /\ at[Len(at)] = At(L, from)
    BY <1>1, <1>11 DEF Path
  <2>3. at2[1] = Reading' /\ at2[Len(at2)] = Writing' /\ Len(at2) = Len(wire') + 1
    BY <1>2, <1>8, <2>1, <2>2 DEF Reading
  <2>4. ASSUME NEW i \in 1..Len(wire') PROVE Leads(wire[i], at2[i], at2[i + 1])'
    <3>1. CASE i \in 1..Len(wire)
      <4>1. Leads(wire[i], at[i], at[i + 1])
        BY <1>11, <3>1 DEF Path
      <4>2. wire'[i] = wire[i] /\ at2[i] = at[i] /\ at2[i + 1] = at[i + 1]
        BY <1>2, <2>1, <2>2, <3>1
      <4> QED BY <1>10, <4>1, <4>2
    <3>2. CASE i = Len(wire) + 1
      <4>1. wire'[i] = f /\ at2[i] = At(L, from) /\ at2[i + 1] = q
        BY <1>2, <2>1, <2>2, <3>2
      <4> QED BY <1>9, <1>10, <4>1
    <3> QED BY <1>2, <3>1, <3>2
  <2>5. at2 \in Seq(Place) /\ Path(at2)'
    BY <2>1, <2>3, <2>4 DEF Path
  <2> QED BY <2>5
<1> QED BY <1>4, <1>5, <1>6, <1>7, <1>11


LEMMA SendFirstStep == ASSUME Inv, SendFirst PROVE Inv'
<1> DEFINE n == Least(MaxSize, Len(rest))
           flagged == [rest EXCEPT ![2] = More(MaxSize)]
           f == Frame("no", More(MaxSize), Upto(flagged, n))
<1>1. /\ rest # <<>> /\ begun = "no"
      /\ wire' = Append(wire, f) /\ rest' = Beyond(rest, n) /\ begun' = "yes"
      /\ UNCHANGED <<given, buffer, joined>>
  BY DEF SendFirst
<1>2. rest \in Bytes /\ Len(rest) \in Nat /\ Len(rest) # 0
  BY <1>1, EmptyBytes DEF Inv, TypeOK, Bytes
<1>3. n \in 1..Len(rest) /\ n <= MaxSize /\ (Len(rest) > n <=> Len(rest) > MaxSize)
  BY <1>2, SizeAssumption DEF Least
<1>4. /\ flagged \in Bytes /\ Len(flagged) = Len(rest)
      /\ \A k \in 1..Len(rest) : k = 2 \/ flagged[k] = rest[k]
  <2>1. More(MaxSize) \in Nat
    BY DEF More
  <2>2. 2 \in 1..Len(rest)
    <3>1. Len(given) >= 1 /\ Len(rest) = Len(given[Len(given)])
      BY <1>1 DEF Inv, RestOK
    <3>2. given[Len(given)] \in Message
      BY <3>1 DEF Inv, TypeOK
    <3> QED BY <1>2, <3>1, <3>2, MessageBytes
  <2> QED BY <1>2, <2>1, <2>2, ExceptSeq DEF Bytes
<1> HIDE DEF flagged, n
<1>5. /\ Upto(flagged, n) \in Bytes /\ Len(Upto(flagged, n)) = n
      /\ \A k \in 1..n : Upto(flagged, n)[k] = flagged[k]
  BY <1>3, <1>4, UptoBytes
<1>6. /\ f \in FrameType /\ f.continues = "no" /\ f.body = Upto(flagged, n)
      /\ f.more = IF Len(rest) > n THEN 1 ELSE 0
  BY <1>3, <1>5 DEF Frame, FrameType, More
<1> HIDE DEF f
<1>7. \A k \in 1..n : (begun = "no" /\ k = 2) \/ f.body[k] = rest[k]
  BY <1>1, <1>2, <1>3, <1>4, <1>5, <1>6
<1>8. Len(f.body) = n /\ n + (IF f.continues = "yes" THEN 2 ELSE 0) <= MaxSize
  BY <1>2, <1>3, <1>5, <1>6
<1> QED BY <1>1, <1>3, <1>6, <1>7, <1>8, SendStep

LEMMA SendNextStep == ASSUME Inv, SendNext PROVE Inv'
<1> DEFINE n == Least(Room, Len(rest))
           f == Frame("yes", More(Room), Upto(rest, n))
<1>1. /\ rest # <<>> /\ begun = "yes"
      /\ wire' = Append(wire, f) /\ rest' = Beyond(rest, n) /\ begun' = "yes"
      /\ UNCHANGED <<given, buffer, joined>>
  BY DEF SendNext
<1>2. rest \in Bytes /\ Len(rest) \in Nat /\ Len(rest) # 0
  BY <1>1, EmptyBytes DEF Inv, TypeOK, Bytes
<1>3. n \in 1..Len(rest) /\ n + 2 <= MaxSize /\ (Len(rest) > n <=> Len(rest) > Room)
  BY <1>2, SizeAssumption DEF Least, Room
<1> HIDE DEF n
<1>4. /\ Upto(rest, n) \in Bytes /\ Len(Upto(rest, n)) = n
      /\ \A k \in 1..n : Upto(rest, n)[k] = rest[k]
  BY <1>2, <1>3, UptoBytes
<1>5. /\ f \in FrameType /\ f.continues = "yes" /\ f.body = Upto(rest, n)
      /\ f.more = IF Len(rest) > n THEN 1 ELSE 0
  BY <1>3, <1>4 DEF Frame, FrameType, More
<1> HIDE DEF f
<1>6. \A k \in 1..n : (begun = "no" /\ k = 2) \/ f.body[k] = rest[k]
  BY <1>4, <1>5
<1>7. Len(f.body) = n /\ n + (IF f.continues = "yes" THEN 2 ELSE 0) <= MaxSize
  BY <1>3, <1>4, <1>5
<1> QED BY <1>1, <1>3, <1>5, <1>6, <1>7, SendStep

\* What the reader has and what the first frame brings.
LEMMA FirstFrame ==
    ASSUME Inv, wire # <<>>, NEW at \in Seq(Place), Path(at),
           NEW f, f = Head(wire), NEW m, m = given[Len(joined) + 1]
    PROVE  /\ f \in FrameType /\ Len(joined) \in Nat /\ Len(joined) + 1 \in 1..Len(given)
           /\ m \in Message /\ Len(m) \in Nat
           /\ Leads(f, Reading, at[2])
           /\ f.continues = "no" <=> buffer = <<>>
           /\ Len(f.body) >= 1
           /\ buffer \o f.body \in Bytes
           /\ Len(buffer \o f.body) = Len(buffer) + Len(f.body)
           /\ Copies(buffer \o f.body, m, 0)
           /\ f.more = (IF Len(buffer) + Len(f.body) < Len(m) THEN 1 ELSE 0)
           /\ Len(buffer) + Len(f.body) <= Len(m)
<1> USE DEF Inv
<1>1. wire \in Seq(FrameType) /\ Len(wire) \in Nat /\ 1 \in 1..Len(wire)
  BY DEF TypeOK
<1>2. f = wire[1] /\ f \in FrameType
  BY <1>1
<1>3. Leads(f, Reading, at[2])
  <2>1. \A i \in 1..Len(wire) : Leads(wire[i], at[i], at[i + 1])
    BY DEF Path
  <2>2. Leads(wire[1], at[1], at[1 + 1])
    BY <1>1, <2>1
  <2> QED BY <1>2, <2>2 DEF Path
<1>4. /\ Len(joined) \in Nat /\ Len(buffer) \in Nat /\ buffer \in Bytes
      /\ Reading.msg = Len(joined) + 1 /\ Reading.from = Len(buffer)
  BY DEF TypeOK, Bytes, Reading, At
<1>5. /\ Len(joined) + 1 \in 1..Len(given)
      /\ Len(f.body) >= 1
      /\ Copies(f.body, m, Len(buffer))
      /\ f.continues = (IF Len(buffer) = 0 THEN "no" ELSE "yes")
      /\ f.more = (IF Len(buffer) + Len(f.body) < Len(m) THEN 1 ELSE 0)
  BY <1>3, <1>4 DEF Leads
<1>6. m \in Message /\ m \in Bytes /\ Len(m) \in Nat
  <2>1. m \in Message
    BY <1>5 DEF TypeOK
  <2> QED BY <2>1, MessageBytes DEF Bytes
<1>7. Copies(buffer, m, 0)
  <2>1. CASE buffer = <<>>
    BY <1>6, <2>1 DEF Copies
  <2>2. CASE buffer # <<>>
    BY <2>2 DEF BufferOK
  <2> QED BY <2>1, <2>2
<1>8. f.body \in Bytes
  BY <1>2 DEF FrameType
<1>9. /\ buffer \o f.body \in Bytes
      /\ Len(buffer \o f.body) = Len(buffer) + Len(f.body)
      /\ Copies(buffer \o f.body, m, 0)
  BY <1>4, <1>5, <1>6, <1>7, <1>8, CopiesConcat
<1>10. Len(buffer) + Len(f.body) <= Len(m)
  BY <1>5 DEF Copies
<1>11. f.continues = "no" <=> buffer = <<>>
  BY <1>4, <1>5, EmptyBytes
<1> QED BY <1>2, <1>3, <1>4, <1>5, <1>6, <1>9, <1>10, <1>11


LEMMA JoinStep == ASSUME Inv, Join PROVE Inv'
<1>1. PICK at \in Seq(Place) : Path(at)
  BY DEF Inv
<1>2. PICK f, m, whole : /\ f = Head(wire)
                         /\ m = given[Len(joined) + 1]
                         /\ whole = buffer \o f.body
  OBVIOUS
<1>3. /\ wire # <<>> /\ wire' = Tail(wire)
      /\ UNCHANGED <<given, rest, begun>>
      /\ \/ f.more = 1 /\ buffer' = whole /\ UNCHANGED joined
         \/ f.more # 1 /\ buffer' = <<>> /\ joined' = Append(joined, whole)
  BY <1>2 DEF Join, Body
<1>4. /\ f \in FrameType /\ Len(joined) \in Nat /\ Len(joined) + 1 \in 1..Len(given)
      /\ m \in Message /\ Len(m) \in Nat
      /\ Leads(f, Reading, at[2])
      /\ Len(f.body) >= 1
      /\ whole \in Bytes
      /\ Len(whole) = Len(buffer) + Len(f.body)
      /\ Copies(whole, m, 0)
      /\ f.more = (IF Len(whole) < Len(m) THEN 1 ELSE 0)
      /\ Len(whole) <= Len(m)
  <2>1. Len(whole) = Len(buffer) + Len(f.body)
    BY <1>1, <1>2, <1>3, FirstFrame
  <2> QED BY <1>1, <1>2, <1>3, <2>1, FirstFrame
<1>5. /\ wire \in Seq(FrameType) /\ wire' \in Seq(FrameType)
      /\ Len(wire) \in Nat \ {0} /\ Len(wire') = Len(wire) - 1
      /\ \A i \in 1..Len(wire') : wire'[i] = wire[i + 1]
  <2>1. wire \in Seq(FrameType)
    BY DEF Inv, TypeOK
  <2> QED BY <1>3, <2>1, HeadTailProperties
<1>6. FramesFit' /\ RestOK'
  <2>1. \A i \in 1..Len(wire') : i + 1 \in 1..Len(wire)
    BY <1>5
  <2>2. FramesFit'
    BY <1>5, <2>1 DEF Inv, FramesFit
  <2> QED BY <1>3, <2>2 DEF Inv, RestOK
<1>7. TypeOK'
  <2>1. joined \in Seq(Bytes) /\ Append(joined, whole) \in Seq(Bytes)
    BY <1>4, AppendProperties DEF Inv, TypeOK
  <2>2. <<>> \in Bytes
    BY DEF Bytes
  <2>3. joined' \in Seq(Bytes) /\ buffer' \in Bytes
    BY <1>3, <1>4, <2>1, <2>2
  <2> QED BY <1>3, <1>5, <2>3 DEF Inv, TypeOK
<1>8. BufferOK'
  <2>1. CASE buffer' = <<>>
    BY <2>1 DEF BufferOK
  <2>2. CASE buffer' = whole /\ UNCHANGED joined
    <3>1. Len(joined) < Len(given)
      BY <1>4
    <3> QED BY <1>2, <1>3, <1>4, <2>2, <3>1 DEF BufferOK
  <2> QED BY <1>3, <2>1, <2>2
<1>9. JoinedOK'
  <2>1. JoinedOK
    BY DEF Inv
  <2>2. CASE UNCHANGED joined
    BY <1>3, <2>1, <2>2 DEF JoinedOK
  <2>3. CASE f.more # 1 /\ joined' = Append(joined, whole)
    <3>1. Len(whole) = Len(m)
      BY <1>4, <2>3
    <3>2. /\ Len(joined') = Len(joined) + 1 /\ joined'[Len(joined) + 1] = whole
          /\ \A i \in 1..Len(joined) : joined'[i] = joined[i]
      BY <1>4, <2>3, AppendProperties DEF Inv, TypeOK
    <3>3. \A i \in 1..Len(joined') : i \in 1..Len(joined) \/ i = Len(joined) + 1
      BY <1>4, <3>2
    <3>4. Len(joined') <= Len(given')
      BY <1>3, <1>4, <3>2
    <3>5. ASSUME NEW i \in 1..Len(joined')
          PROVE  Len(joined'[i]) = Len(given[i]) /\ Copies(joined'[i], given[i], 0)
      <4>1. CASE i \in 1..Len(joined)
        BY <2>1, <3>2, <4>1 DEF JoinedOK
      <4>2. CASE i = Len(joined) + 1
        BY <1>2, <1>4, <3>1, <3>2, <4>2
      <4> QED BY <3>3, <4>1, <4>2
    <3> QED BY <1>3, <3>4, <3>5 DEF JoinedOK
  <2> QED BY <1>3, <2>2, <2>3
<1>10. at[2] = Reading'
  <2>1. Reading = At(Len(joined) + 1, Len(buffer)) /\ Len(buffer) \in Nat
    BY DEF Reading, Inv, TypeOK, Bytes
  <2>2. at[2] = IF f.more = 1 THEN At(Len(joined) + 1, Len(buffer) + Len(f.body))
                ELSE At(Len(joined) + 2, 0)
    BY <1>4, <2>1 DEF Leads, At
  <2>3. CASE f.more = 1
    BY <1>3, <1>4, <2>2, <2>3 DEF Reading
  <2>4. CASE f.more # 1
    <3>1. Len(joined') = Len(joined) + 1 /\ Len(buffer') = 0
      BY <1>3, <1>4, <2>4, AppendProperties DEF Inv, TypeOK
    <3>2. Reading' = At(Len(joined) + 2, 0)
      BY <1>4, <3>1 DEF Reading
    <3> QED BY <2>2, <2>4, <3>2
  <2> QED BY <2>3, <2>4
<1>11. PICK at2 : at2 = Tail(at)
  OBVIOUS
<1>12. /\ Len(at) = Len(wire) + 1 /\ at # <<>>
       /\ at2 \in Seq(Place) /\ Len(at2) = Len(at) - 1
       /\ \A i \in 1..Len(at2) : at2[i] = at[i + 1]
  <2>1. Len(at) = Len(wire) + 1 /\ at # <<>>
    BY <1>1, <1>5 DEF Path
  <2> QED BY <1>1, <1>11, <2>1, HeadTailProperties
<1>13. Path(at2)'
  <2>1. at2[1] = Reading' /\ Len(at2) = Len(wire') + 1
    BY <1>5, <1>10, <1>12
  <2>2. at2[Len(at2)] = Writing'
    <3>1. at2[Len(at2)] = at[Len(at)]
      BY <1>5, <1>12
    <3>2. Writing' = Writing
      BY <1>3 DEF Writing
    <3> QED BY <1>1, <3>1, <3>2 DEF Path
  <2>3. ASSUME NEW i \in 1..Len(wire') PROVE Leads(wire[i], at2[i], at2[i + 1])'
    <3>1. i + 1 \in 1..Len(wire) /\ wire'[i] = wire[i + 1]
      BY <1>5, <2>3
    <3>2. at2[i] = at[i + 1] /\ at2[i + 1] = at[i + 1 + 1]
      BY <1>5, <1>12, <2>3
    <3>3. Leads(wire[i + 1], at[i + 1], at[i + 1 + 1])
      BY <1>1, <3>1 DEF Path
    <3>4. \A g, p, q : Leads(g, p, q) => Leads(g, p, q)'
      BY <1>3 DEF Leads
    <3> QED BY <3>1, <3>2, <3>3, <3>4
  <2> QED BY <1>12, <2>1, <2>2, <2>3 DEF Path
<1> QED BY <1>6, <1>7, <1>8, <1>9, <1>12, <1>13 DEF Inv

LEMMA InvStep == Inv /\ [Next]_vars => Inv'
<1> SUFFICES ASSUME Inv, [Next]_vars PROVE Inv'
  OBVIOUS
<1>1. ASSUME UNCHANGED vars PROVE Inv'
  <2>1. /\ TypeOK' <=> TypeOK
        /\ FramesFit' <=> FramesFit
        /\ RestOK' <=> RestOK
        /\ BufferOK' <=> BufferOK
        /\ JoinedOK' <=> JoinedOK
    BY <1>1 DEF vars, TypeOK, FramesFit, RestOK, BufferOK, JoinedOK
  <2>2. \A at : Path(at)' <=> Path(at)
    BY <1>1 DEF vars, Path, Leads, Reading, Writing
  <2> QED BY <2>1, <2>2 DEF Inv
<1> QED
  BY <1>1, BeginStep, SendFirstStep, SendNextStep, JoinStep DEF Next, Finished

LEMMA InvHolds == Spec => []Inv
<1> QED BY InvInit, InvStep, PTL DEF Spec

-----------------------------------------------------------------------------
(***************************************************************************)
(* The theorems.                                                           *)
(***************************************************************************)

\* No frame is longer than the client asked for (client.go:54-55).
THEOREM FramesAlwaysFit == Spec => []FramesFit
<1>1. Inv => FramesFit
  BY DEF Inv
<1> QED BY <1>1, InvHolds, PTL

\* The reader never meets a frame it does not expect (client.go:209-211),
\* however long the messages and however many frames are under way.
THEOREM PanicsNever == Spec => []NeverPanics
<1>1. Inv => NeverPanics
  <2> SUFFICES ASSUME Inv, buffer # <<>>, wire # <<>>
               PROVE  Head(wire).continues = "yes"
    BY DEF NeverPanics
  <2>1. PICK at \in Seq(Place) : Path(at)
    BY DEF Inv
  <2>2. /\ Head(wire) \in FrameType
        /\ Head(wire).continues = "no" <=> buffer = <<>>
    BY <2>1, FirstFrame
  <2> QED BY <2>2 DEF FrameType
<1> QED BY <1>1, InvHolds, PTL


\* The messages joined, with the flag reset: what Outbox calls delivered.
Arrived(s) == [i \in 1..Len(s) |-> Unflagged(s[i])]

LEMMA ArrivedAppend ==
    ASSUME NEW s \in Seq(Bytes), NEW w \in Bytes
    PROVE  /\ Arrived(Append(s, w)) = Append(Arrived(s), Unflagged(w))
           /\ Len(Arrived(s)) = Len(s)
<1>1. /\ Append(s, w) \in Seq(Bytes) /\ Len(Append(s, w)) = Len(s) + 1
      /\ Append(s, w)[Len(s) + 1] = w
      /\ \A i \in 1..Len(s) : Append(s, w)[i] = s[i]
      /\ Len(s) \in Nat
  BY AppendProperties
<1>2. \A b \in Bytes : Unflagged(b) \in Bytes
  <2>1. ASSUME NEW b \in Bytes PROVE Unflagged(b) \in Bytes
    <3>1. CASE 2 \in 1..Len(b)
      BY <3>1, ExceptSeq DEF Unflagged, Bytes
    <3>2. CASE 2 \notin 1..Len(b)
      <4>1. Unflagged(b) = b
        BY <3>2 DEF Unflagged, Bytes
      <4> QED BY <4>1
    <3> QED BY <3>1, <3>2
  <2> QED BY <2>1
<1>3. Arrived(s) \in Seq(Bytes) /\ Len(Arrived(s)) = Len(s)
  BY <1>1, <1>2 DEF Arrived
<1>4. /\ Append(Arrived(s), Unflagged(w)) \in Seq(Bytes)
      /\ Len(Append(Arrived(s), Unflagged(w))) = Len(s) + 1
      /\ Append(Arrived(s), Unflagged(w))[Len(s) + 1] = Unflagged(w)
      /\ \A i \in 1..Len(s) : Append(Arrived(s), Unflagged(w))[i] = Arrived(s)[i]
  BY <1>2, <1>3, AppendProperties
<1>5. Arrived(Append(s, w)) \in Seq(Bytes) /\ Len(Arrived(Append(s, w))) = Len(s) + 1
  BY <1>1, <1>2 DEF Arrived
<1>6. ASSUME NEW i \in 1..(Len(s) + 1)
      PROVE  Arrived(Append(s, w))[i] = Append(Arrived(s), Unflagged(w))[i]
  <2>1. Arrived(Append(s, w))[i] = Unflagged(Append(s, w)[i])
    BY <1>1 DEF Arrived
  <2>2. CASE i \in 1..Len(s)
    <3>1. Arrived(s)[i] = Unflagged(s[i])
      BY <2>2 DEF Arrived
    <3>2. Append(s, w)[i] = s[i]
      BY <1>1, <2>2
    <3> QED BY <1>4, <2>1, <2>2, <3>1, <3>2
  <2>3. CASE i = Len(s) + 1
    <3>1. Append(s, w)[i] = w
      BY <1>1, <2>3
    <3>2. Append(Arrived(s), Unflagged(w))[i] = Unflagged(w)
      BY <1>4, <2>3
    <3> QED BY <2>1, <3>1, <3>2
  <2>4. i \in 1..Len(s) \/ i = Len(s) + 1
    BY <1>1
  <2> QED BY <2>2, <2>3, <2>4
<1>7. Arrived(Append(s, w)) = Append(Arrived(s), Unflagged(w))
  BY <1>4, <1>5, <1>6, SeqEqual
<1> QED BY <1>3, <1>7

\* Every step is a step of Outbox, or none: a call of sendMessage gives it a
\* message, the last frame of a message delivers it.
LEMMA OutboxStep ==
    ASSUME Inv, [Next]_vars PROVE [Box!Next]_Box!outbox
<1>1. CASE UNCHANGED <<given, joined>>
  BY <1>1 DEF Box!outbox
<1>2. ASSUME NEW m \in Message, Begin(m) PROVE Box!Next
  BY <1>2 DEF Begin, Box!Next, Box!Accept
<1>3. CASE Join
  <2>1. PICK at \in Seq(Place) : Path(at)
    BY DEF Inv
  <2>2. PICK f, m, whole : /\ f = Head(wire)
                           /\ m = given[Len(joined) + 1]
                           /\ whole = buffer \o f.body
    OBVIOUS
  <2>3. CASE UNCHANGED joined
    BY <1>1, <1>3, <2>3 DEF Join
  <2>4. CASE f.more # 1 /\ joined' = Append(joined, whole)
    <3>1. /\ Len(joined) \in Nat /\ Len(joined) + 1 \in 1..Len(given)
          /\ m \in Message /\ whole \in Bytes /\ Copies(whole, m, 0)
      BY <1>3, <2>1, <2>2, FirstFrame DEF Join
    <3>2. Len(whole) = Len(m)
      <4>1. /\ f.more = (IF Len(buffer) + Len(f.body) < Len(m) THEN 1 ELSE 0)
            /\ Len(buffer) + Len(f.body) <= Len(m) /\ Len(m) \in Nat
            /\ Len(whole) = Len(buffer) + Len(f.body)
        BY <1>3, <2>1, <2>2, FirstFrame DEF Join
      <4>2. Len(whole) \in Nat
        BY <3>1 DEF Bytes
      <4> QED BY <2>4, <4>1, <4>2
    <3>3. Unflagged(whole) = m
      BY <3>1, <3>2, UnflaggedCopy
    <3>4. /\ Arrived(joined') = Append(Arrived(joined), m)
          /\ Len(Arrived(joined)) = Len(joined)
      BY <2>4, <3>1, <3>3, ArrivedAppend DEF Inv, TypeOK
    <3>5. /\ Len(Arrived(joined)) < Len(given)
          /\ Arrived(joined)' = Append(Arrived(joined), given[Len(Arrived(joined)) + 1])
          /\ UNCHANGED given
      BY <1>3, <2>2, <3>1, <3>4 DEF Join, Arrived
    <3> QED BY <3>5 DEF Box!Next, Box!Deliver, Arrived
  <2> QED BY <1>3, <2>2, <2>3, <2>4 DEF Join, Body
<1>4. ASSUME SendFirst \/ SendNext \/ Finished \/ UNCHANGED vars
      PROVE  UNCHANGED <<given, joined>>
  BY <1>4 DEF SendFirst, SendNext, Finished, vars
<1> QED BY <1>1, <1>2, <1>3, <1>4 DEF Next

\* Cutting and joining are a FIFO of whole messages (client.go:189-262): every
\* message of any length arrives as it was sent but for the flag, in order.
THEOREM ImplementsOutbox == Spec => IsOutbox
<1>1. Init => Box!Init
  BY DEF Init, Box!Init
<1>2. Inv /\ [Next]_vars => [Box!Next]_Box!outbox
  BY OutboxStep
<1> QED BY <1>1, <1>2, InvHolds, PTL DEF Spec, IsOutbox, Box!Spec

=============================================================================
