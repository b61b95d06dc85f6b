------------------------------ MODULE Framing -------------------------------
(***************************************************************************)
(* How a message gets across a websocket that limits the size of a frame:  *)
(* sendMessage (client.go) cuts it into frames, readMessage joins them.    *)
(*                                                                         *)
(* A message is a sequence of bytes, the first two being its type and the  *)
(* More flag.  A frame has the type and the flag in front: those of the    *)
(* message in its first frame, two bytes of its own in the frames that     *)
(* continue it.  The websocket itself keeps frames whole and in order.     *)
(***************************************************************************)
EXTENDS Naturals, Sequences

CONSTANTS
    Message,     \* the messages that are sent
    MaxSize,     \* client.maxSize
    MaxMessages  \* bound: messages in a run

\* Every message is encoded with More = 0 (encoder.go).
ASSUME MessageAssumption ==
    Message \subseteq {m \in Seq(Nat) : Len(m) >= 2 /\ m[2] = 0}
ASSUME SizeAssumption == MaxSize \in Nat /\ MaxSize >= 3
ASSUME BoundAssumption == MaxMessages \in Nat

VARIABLES
    given,      \* messages handed to sendMessage so far
    rest,       \* data: what is left of the message being sent
    begun,      \* whether its first frame is sent: "no" or "yes"
    wire,       \* frames under way
    buffer,     \* what readMessage has joined so far
    joined      \* messages that readMessage returned

vars == <<given, rest, begun, wire, buffer, joined>>

Least(a, b) == IF a <= b THEN a ELSE b
Upto(s, n) == SubSeq(s, 1, n)
Beyond(s, n) == SubSeq(s, n + 1, Len(s))

\* Mutant: a frame that continues a message is as long as the first.
RoomForAll == MaxSize

\* What of a message fits behind the two bytes of a frame that continues it.
Room == MaxSize - 2

\* p[0] = 0xff, p[1] and the rest of the frame.
Frame(continues, more, body) ==
    [continues |-> continues, more |-> more, body |-> body]

Init ==
    /\ given = <<>>
    /\ rest = <<>>
    /\ begun = "no"
    /\ wire = <<>>
    /\ buffer = <<>>
    /\ joined = <<>>

\* sendMessage is called; the writeThread makes one call at a time.
Begin(m) ==
    /\ rest = <<>>
    /\ Len(given) < MaxMessages
    /\ given' = Append(given, m)
    /\ rest' = m
    /\ begun' = "no"
    /\ UNCHANGED <<wire, buffer, joined>>

\* Mutant: the flag is that of a message that is as long as a frame.
MoreOrFull(n) == IF Len(rest) >= n THEN 1 ELSE 0

\* data[1] of the first frame, and more of the others.
More(n) == IF Len(rest) > n THEN 1 ELSE 0

\* The flag is written into the message itself.
SendFirst ==
    /\ rest # <<>>
    /\ begun = "no"
    /\ LET flagged == [rest EXCEPT ![2] = More(MaxSize)] IN
       wire' = Append(wire, Frame("no", More(MaxSize),
                                  Upto(flagged, Least(MaxSize, Len(rest)))))
    /\ rest' = Beyond(rest, Least(MaxSize, Len(rest)))
    /\ begun' = "yes"
    /\ UNCHANGED <<given, buffer, joined>>

SendNext ==
    /\ rest # <<>>
    /\ begun = "yes"
    /\ wire' = Append(wire, Frame("yes", More(Room),
                                  Upto(rest, Least(Room, Len(rest)))))
    /\ rest' = Beyond(rest, Least(Room, Len(rest)))
    /\ UNCHANGED <<given, begun, buffer, joined>>

\* Mutant: what is in front of a frame that continues a message is kept.
WholeFrame(f) == IF f.continues = "yes" THEN <<255, 0>> \o f.body ELSE f.body

\* What readMessage takes from a frame: p, or p[2:].
Body(f) == f.body

\* A frame arrives: the first of a message, or one that continues it.  (Any
\* other makes readMessage panic.)
Join ==
    /\ wire # <<>>
    /\ buffer = <<>> \/ Head(wire).continues = "yes"
    /\ wire' = Tail(wire)
    /\ LET whole == buffer \o Body(Head(wire)) IN
       IF Head(wire).more = 1
       THEN buffer' = whole /\ UNCHANGED joined
       ELSE buffer' = <<>> /\ joined' = Append(joined, whole)
    /\ UNCHANGED <<given, rest, begun>>

Finished == /\ Len(given) = MaxMessages /\ rest = <<>>
            /\ wire = <<>>
            /\ UNCHANGED vars

Next == \/ \E m \in Message : Begin(m)
        \/ SendFirst \/ SendNext \/ Join \/ Finished

Spec == Init /\ [][Next]_vars

-----------------------------------------------------------------------------
(***************************************************************************)
(* Properties                                                              *)
(***************************************************************************)

\* The reader never meets a frame it does not expect (client.go:209-211): the
\* flags of the frames say where one message ends and the next begins.
NeverPanics == buffer # <<>> /\ wire # <<>> => Head(wire).continues = "yes"

\* No frame is longer than the client asked for (client.go:54-55), the two
\* bytes in front of a frame that continues a message included.
FramesFit ==
    \A i \in 1..Len(wire) :
        Len(wire[i].body) + (IF wire[i].continues = "yes" THEN 2 ELSE 0) <= MaxSize

\* Cutting and joining are a FIFO of whole messages (client.go:189-262): every
\* message arrives as it was sent but for the flag, in order.
Unflagged(m) == [m EXCEPT ![2] = 0]
Box == INSTANCE Outbox WITH
           Msg <- Message, open <- "open",
           delivered <- [i \in 1..Len(joined) |-> Unflagged(joined[i])]
IsOutbox == Box!Spec
=============================================================================
