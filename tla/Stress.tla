------------------------------- MODULE Stress -------------------------------
(***************************************************************************)
(* The stress test (stresstest.go) against the server (Collab): teachers   *)
(* append to the document as fast as their answers allow, students read.   *)
(* Every client is on one connection of its own; what it has sent and not  *)
(* read yet, in both directions, is on that connection in order.           *)
(*                                                                         *)
(* A teacher is two goroutines.  Its reader follows the document by the    *)
(* messages; its writer sends at the offset the reader has set, when the   *)
(* reader has seen, since the last send, a sign that it may: gotAck.       *)
(***************************************************************************)
EXTENDS Collab, FiniteSetsExt

CONSTANTS
    TeacherSets,   \* clients that may run teacherClient, the others studentClient
    MaxAtDeletion  \* bound: append requests if the document is deleted

VARIABLES
    teachers,   \* the clients that run teacherClient; the others are students
    at,         \* where each client is
    read,       \* messages of its stream that it has read
    offset,     \* offset of each teacher
    gotAck,     \* the teachers that may send
    sent,       \* offsets of its append messages that the server has not read
    abort       \* args.abort

clientVars == <<teachers, at, read, offset, gotAck, sent, abort>>
allVars == <<vars, clientVars>>

StressInit ==
    /\ Init
    /\ teachers \in TeacherSets
    /\ at = [c \in Client |-> "first"]
    /\ read = [c \in Client |-> 0]
    /\ offset = [c \in Client |-> 0]
    /\ gotAck = {}
    /\ sent = [c \in Client |-> <<>>]
    /\ abort = FALSE

(***************************************************************************)
(* Clients                                                                 *)
(***************************************************************************)
Unread(c) == read[c] < Len(stream[c])
Msg(c) == stream[c][read[c] + 1]
Left(c) == pc[c] \in {"remove", "gone"}
Over(c) == at[c] = "ended"

\* A client ends, its connection is closed, and what it knew is forgotten.
Close(C) ==
    /\ at' = [c \in Client |-> IF c \in C THEN "ended" ELSE at[c]]
    /\ read' = [c \in Client |-> IF c \in C THEN 0 ELSE read[c]]
    /\ offset' = [c \in Client |-> IF c \in C THEN 0 ELSE offset[c]]
    /\ gotAck' = gotAck \ C

\* log.Panic in clients C: everything shall abort.
Panic(C) ==
    /\ Close(C)
    /\ abort' = TRUE
    /\ UNCHANGED <<vars, teachers, sent>>

\* Client c has read a message, and knows now.  Its loop ends when abort is set,
\* but only after a message.
ReadOn(c, newOffset, newGotAck) ==
    /\ \/ abort /\ Close({c})
       \/ /\ ~abort
          /\ at' = [at EXCEPT ![c] = "run"]
          /\ read' = [read EXCEPT ![c] = @ + 1]
          /\ offset' = [offset EXCEPT ![c] = newOffset]
          /\ gotAck' = newGotAck
    /\ UNCHANGED <<vars, teachers, sent, abort>>

\* Append messages that all clients have sent, at most MaxRequests.
Sends == MapThenSumSet(LAMBDA c : requests[c] + Len(sent[c]), Client)
UsedUp == Sends >= IF deletion = "none" THEN MaxRequests ELSE MaxAtDeletion

Waits(c) == at[c] \in {"first", "run"} /\ Unread(c)

\* Mutant: an ACK tells the offset only.
GrantedLater(c) == gotAck

\* gotAck = true
Granted(c) == gotAck \cup {c}

\* An append: what the document has grown to, and leave to send.
ReadAppend(c) ==
    /\ Waits(c)
    /\ Msg(c).type = "append"
    /\ ReadOn(c, End(Msg(c)), IF c \in teachers THEN gotAck \cup {c} ELSE gotAck)

ReadAck(c) ==
    /\ Waits(c)
    /\ at[c] = "run" /\ c \in teachers
    /\ Msg(c).type = "ack"
    /\ ReadOn(c, Msg(c).offset, Granted(c))

\* "continue to wait for Append before sending."
ReadNack(c) ==
    /\ Waits(c)
    /\ at[c] = "run" /\ c \in teachers
    /\ Msg(c).type \in {"nack", "denied"}
    /\ ReadOn(c, offset[c], gotAck)

\* A message of another type, or the end of the connection, which may take
\* messages with it.
ReadFails(c) ==
    /\ \/ Waits(c) /\ Msg(c).type = "error"
       \/ at[c] \in {"first", "run"} /\ Left(c)
    /\ Panic({c})

Read(c) == ReadAppend(c) \/ ReadAck(c) \/ ReadNack(c) \/ ReadFails(c)

MaySend(c) == /\ c \in teachers \cap gotAck
              /\ at[c] = "run"
              /\ ~abort

\* The writer of a teacher sends at the offset, and then waits.
Send(c) ==
    /\ MaySend(c)
    /\ ~UsedUp
    /\ sent' = [sent EXCEPT ![c] = Append(@, offset[c])]
    /\ gotAck' = gotAck \ {c}
    /\ UNCHANGED <<vars, teachers, at, read, offset, abort>>

\* Nobody recovers the panic of a writer whose connection is gone: it ends the
\* process with all its clients.
SendFails(c) ==
    /\ MaySend(c)
    /\ Left(c)
    /\ Panic(Client)

(***************************************************************************)
(* The server, for clients that speak like this, with a database that does *)
(* not fail and nobody who changes permissions                             *)
(***************************************************************************)

\* The init message gives POSSIBLY_CREATE, offset 0 and no data.
Join(c) ==
    /\ \/ GetToken(c)
       \/ OpenDocument(c)
       \/ CreateDocument(c) /\ doc' = <<>>
    /\ UNCHANGED clientVars

\* The next append message of the client.
Arrive(c) ==
    /\ sent[c] # <<>>
    /\ Receive(c)
    /\ req'[c].offset = Head(sent[c])
    /\ req'[c].sent # <<>>
    /\ sent' = [sent EXCEPT ![c] = Tail(@)]
    /\ UNCHANGED <<teachers, at, read, offset, gotAck, abort>>

Serve(c) ==
    /\ \/ AddClient(c) \/ AppendDocument(c) \/ Reply(c)
       \/ MarkEnd(c) \/ HubAppend(c)
       \/ Disconnect(c) \/ RemoveClient(c)
    /\ UNCHANGED clientVars

Elsewhere ==
    /\ \/ Hub \/ DeleteDocument
       \/ SignalDocumentDeleted /\ Sends <= MaxAtDeletion
    /\ UNCHANGED clientVars

\* Nothing more happens: requests are used up, or readers wait for a message
\* although abort is set.
Stopped ==
    /\ \A c \in Client : Over(c) \/ (at[c] = "run" /\ ~Unread(c))
    /\ HubIdle
    /\ UNCHANGED allVars

StressNext ==
    \/ \E c \in Client :
          \/ Read(c) \/ Send(c) \/ SendFails(c)
          \/ Join(c) \/ Arrive(c) \/ Serve(c)
    \/ Elsewhere
    \/ Stopped

(***************************************************************************)
(* Fairness.  That of the server, and: messages arrive in both directions  *)
(* and are read, a writer that may send does.                              *)
(***************************************************************************)
StressFairness ==
    \A c \in Client :
        /\ WF_allVars(Join(c) \/ Arrive(c))
        /\ WF_allVars(Read(c))
        /\ WF_allVars(Send(c))

StressSpec ==
    /\ StressInit /\ [][StressNext]_allVars
    /\ Fairness /\ StressFairness

-----------------------------------------------------------------------------
(***************************************************************************)
(* Properties                                                              *)
(***************************************************************************)

\* A teacher goes on: only the bound on requests keeps it from sending.
GoesOn(c) == MaySend(c) /\ UsedUp

\* "The test continues forever" (stresstest.go:114): whatever order changes,
\* ACKs and NACKs reach the teachers in, and although a change may never be
\* sent to some of them, they do not all wait for one another's changes.
TestGoesOn == <>(abort \/ \E c \in Client : GoesOn(c))
=============================================================================
