------------------------------- MODULE Collab -------------------------------
(***************************************************************************)
(* One shared document and the clients that edit it: the path of a change  *)
(* from the reader goroutine of its author (client.go) through the         *)
(* DocumentDB to the hub goroutine (hub.go) and into the message streams   *)
(* of the other clients, together with joining, leaving, permission        *)
(* updates and deletion of the document, which race with that path.        *)
(*                                                                         *)
(* A unit of document data is <<author, n>>: data of the author's n-th     *)
(* request, n = 0 being the contents sent to create the document.  Every   *)
(* client stands for one connection of one user with one token.            *)
(*                                                                         *)
(* The hub goroutine runs one closure at a time and receives them from an  *)
(* unbuffered channel: handing a closure over is possible only while the   *)
(* hub is idle.  A closure that touches nothing a reader goroutine touches *)
(* runs in the step that hands it over; Append runs recipient by recipient.*)
(***************************************************************************)
EXTENDS Naturals, Sequences

CONSTANTS
    Client,         \* connections
    Sizes,          \* lengths of the data of one request
    MaxRequests,    \* bound: append requests per client
    InitialTokens,  \* permissions of the tokens a run may start from
    NewPermissions, \* permissions an updateUser request may set
    MaxUpdates,     \* bound: updateUser requests
    Deletable,      \* whether a deleteDocument request may come (one does)
    Cautious,       \* clients append only at an offset they were told
    MaxLength,      \* bound: positions liveness speaks of
    DbMayFail       \* whether a DocumentDB call may fail

Flag == {"r", "w"}
Change == Client \X Nat
Document == Seq(Change)

ASSUME SizesAssumption == Sizes \subseteq Nat
ASSUME BoundsAssumption == MaxRequests \in Nat /\ MaxUpdates \in Nat
                            /\ MaxLength \in Nat
ASSUME TokensAssumption == InitialTokens \subseteq [Client -> SUBSET Flag]
ASSUME PermissionsAssumption == NewPermissions \subseteq SUBSET Flag
ASSUME SwitchAssumption == {Deletable, Cautious, DbMayFail} \subseteq BOOLEAN

VARIABLES
    stored,     \* whether the DocumentDB has the document
    doc,        \* its contents
    token,      \* permissions of each client's token in the DocumentDB
    pc,         \* where each reader goroutine is
    writers,    \* the clients whose client.writePermission is set
    lastEnd,    \* client.lastEnd
    req,        \* the request a reader is working on
    stream,     \* every message ever appended to client.queued, in order
    registered, \* session.clients
    task,       \* the Append closure the hub is running
    notices,    \* updateUser requests between their DB call and the hub
    deletion,   \* progress of the deleteDocument request
    requests,   \* append requests each client has sent
    updates,    \* updateUser requests so far
    joinLen     \* history: length of the document when the hub added a client

vars == <<stored, doc, token, pc, writers, lastEnd, req, stream, registered,
          task, notices, deletion, requests, updates, joinLen>>

Stage == {"token", "document", "add", "ready", "store", "reply", "mark",
          "publish", "remove", "gone"}
MsgType == {"append", "ack", "nack", "denied", "error"}
Outcome == {"ok", "conflict", "missing"}


\* The data of client c's n-th request, when it is k units long.
Payload(c, n, k) == [i \in 1..k |-> <<c, n>>]

(***************************************************************************)
(* Messages.  An append carries its data; in an acknowledgement "offset"   *)
(* is the document length it reports and "data" is history: what the       *)
(* client had asked to append.                                             *)
(***************************************************************************)
Message == [type: MsgType, offset: Nat, data: Document]
Append_(offset, data) == [type |-> "append", offset |-> offset, data |-> data]
Answer(type, length, data) == [type |-> type, offset |-> length, data |-> data]
Error == [type |-> "error", offset |-> 0, data |-> <<>>]

\* Where a message says the document ends.
End(m) == IF m.type = "append" THEN m.offset + Len(m.data) ELSE m.offset

Request == [offset: Nat, sent: Document, data: Document, end: Nat,
            outcome: Outcome]
NoRequest == [offset |-> 0, sent |-> <<>>, data |-> <<>>, end |-> 0,
              outcome |-> "ok"]

Task == [offset: Nat, data: Document, todo: SUBSET Client,
         sending: SUBSET Client]
NoTask == [offset |-> 0, data |-> <<>>, todo |-> {}, sending |-> {}]

Exists == stored = "present"
HubIdle == task.todo = {} /\ task.sending = {}
Enqueue(c, m) == stream' = [stream EXCEPT ![c] = Append(@, m)]
SetWriter(c, flags) ==
    writers' = IF "w" \in flags THEN writers \cup {c} ELSE writers \ {c}
Goto(c, stage) == pc' = [pc EXCEPT ![c] = stage]

\* Offsets of append requests: those the client was told, or any others (one
\* beyond the end stands for all that do not match).
Told(c) == {End(stream[c][i]) : i \in {j \in 1..Len(stream[c]) :
                                stream[c][j].type # "error"}}
Offsets(c) == IF Cautious THEN Told(c) ELSE 0..(Len(doc) + 1)

(***************************************************************************)
(* Initial states                                                          *)
(***************************************************************************)
Init ==
    /\ stored = "absent"
    /\ doc = <<>>
    /\ token \in InitialTokens
    /\ pc = [c \in Client |-> "token"]
    /\ writers = {}
    /\ lastEnd = [c \in Client |-> 0]
    /\ req = [c \in Client |-> NoRequest]
    /\ stream = [c \in Client |-> <<>>]
    /\ registered = {}
    /\ task = NoTask
    /\ notices = {}
    /\ deletion = "none"
    /\ requests = [c \in Client |-> 0]
    /\ updates = 0
    /\ joinLen = [c \in Client |-> 0]

(***************************************************************************)
(* Joining: processInitMessage, then addClient                             *)
(***************************************************************************)

\* The token is looked up and lets the client in.
GetToken(c) ==
    /\ pc[c] = "token"
    /\ "r" \in token[c]
    /\ SetWriter(c, token[c])
    /\ Goto(c, "document")
    /\ UNCHANGED <<stored, doc, token, lastEnd, req, stream, registered, task,
                   notices, deletion, requests, updates, joinLen>>

\* The token gives no read permission, or the client asks for ALWAYS_CREATE
\* and may not write.  (The creation mode is the client's choice: whether it
\* is ALWAYS_CREATE matters only if the token does not say "w".)
RefuseToken(c) ==
    /\ pc[c] = "token"
    /\ token[c] # Flag
    /\ SetWriter(c, token[c])
    /\ Enqueue(c, Error)
    /\ Goto(c, "gone")
    /\ UNCHANGED <<stored, doc, token, lastEnd, req, registered, task, notices,
                   deletion, requests, updates, joinLen>>

\* Mutant: the snapshot loses its first unit.
DocFromNext(offset) == SubSeq(doc, offset + 2, Len(doc))

\* doc[offset:]
DocFrom(offset) == SubSeq(doc, offset + 1, Len(doc))

\* GetDocument finds the document (the mode is not ALWAYS_CREATE); the client
\* gets what follows the offset it says it has.
OpenDocument(c) ==
    /\ pc[c] = "document"
    /\ Exists
    /\ \E offset \in (IF Cautious THEN {0} ELSE 0..Len(doc)) :
          Enqueue(c, Append_(offset, DocFrom(offset)))
    /\ lastEnd' = [lastEnd EXCEPT ![c] = Len(doc)]
    /\ Goto(c, "add")
    /\ UNCHANGED <<stored, doc, token, writers, req, registered, task, notices,
                   deletion, requests, updates, joinLen>>

\* GetDocument creates it from the data of the init message.  A mode that
\* creates needs write permission: POSSIBLY_CREATE becomes NEVER_CREATE.
CreateDocument(c) ==
    /\ pc[c] = "document"
    /\ ~Exists
    /\ c \in writers
    /\ stored' = "present"
    /\ \E k \in Sizes :
          /\ doc' = Payload(c, 0, k)
          /\ Enqueue(c, Append_(k, <<>>))
          /\ lastEnd' = [lastEnd EXCEPT ![c] = k]
    /\ Goto(c, "add")
    /\ UNCHANGED <<token, writers, req, registered, task, notices, deletion,
                   requests, updates, joinLen>>

\* ALREADY_EXISTS, DOES_NOT_EXIST or INVALID_OFFSET, for a creation mode and
\* an offset of the client's choice, or a DocumentDB that fails.
RefuseDocument(c) ==
    /\ pc[c] = "document"
    /\ Enqueue(c, Error)
    /\ Goto(c, "gone")
    /\ UNCHANGED <<stored, doc, token, writers, lastEnd, req, registered, task,
                   notices, deletion, requests, updates, joinLen>>

AddClient(c) ==
    /\ pc[c] = "add"
    /\ HubIdle
    /\ registered' = registered \cup {c}
    /\ joinLen' = [joinLen EXCEPT ![c] = Len(doc)]
    /\ Goto(c, "ready")
    /\ UNCHANGED <<stored, doc, token, writers, lastEnd, req, stream, task,
                   notices, deletion, requests, updates>>

(***************************************************************************)
(* The reader goroutine of a registered client: processAppend              *)
(***************************************************************************)

\* A request arrives; without write permission its data is dropped but the
\* DocumentDB is asked all the same.
Receive(c) ==
    /\ pc[c] = "ready"
    /\ requests[c] < MaxRequests
    /\ requests' = [requests EXCEPT ![c] = @ + 1]
    /\ \E offset \in Offsets(c), k \in Sizes :
          LET sent == Payload(c, requests[c] + 1, k) IN
          req' = [req EXCEPT ![c] =
                     [NoRequest EXCEPT
                        !.offset = offset,
                        !.sent = sent,
                        !.data = IF c \in writers THEN sent ELSE <<>>]]
    /\ Goto(c, "store")
    /\ UNCHANGED <<stored, doc, token, writers, lastEnd, stream, registered,
                   task, notices, deletion, updates, joinLen>>

\* Mutant: a difference instead of the sum.
ShrunkLength(c) == Len(req[c].data) - Len(doc)

\* The new length that AppendDocument returns.
NewLength(c) == Len(doc) + Len(req[c].data)

\* DocumentDB.AppendDocument: compare the length and append, atomically.
AppendDocument(c) ==
    /\ pc[c] = "store"
    /\ \/ /\ Exists
          /\ req[c].offset = Len(doc)
          /\ doc' = doc \o req[c].data
          /\ req' = [req EXCEPT ![c].end = NewLength(c)]
       \/ /\ Exists
          /\ req[c].offset # Len(doc)
          /\ req' = [req EXCEPT ![c] = [@ EXCEPT !.end = Len(doc),
                                                 !.outcome = "conflict"]]
          /\ UNCHANGED doc
       \/ /\ ~Exists
          /\ req' = [req EXCEPT ![c].outcome = "missing"]
          /\ UNCHANGED doc
    /\ Goto(c, "reply")
    /\ UNCHANGED <<stored, token, writers, lastEnd, stream, registered, task,
                   notices, deletion, requests, updates, joinLen>>

\* Any other error is a panic: the connection ends.  The DocumentDB may have
\* stored the data before it failed.
AppendFails(c) ==
    /\ DbMayFail
    /\ pc[c] = "store"
    /\ \/ UNCHANGED doc
       \/ /\ Exists
          /\ req[c].offset = Len(doc)
          /\ doc' = doc \o req[c].data
    /\ Goto(c, "remove")
    /\ UNCHANGED <<stored, token, writers, lastEnd, req, stream, registered,
                   task, notices, deletion, requests, updates, joinLen>>

\* Mutant: a conflict is answered like success.
VerdictOfWriter(c) ==
    CASE req[c].outcome # "missing" /\ c \in writers  -> "ack"
      [] req[c].outcome # "missing" /\ c \notin writers -> "denied"
      [] req[c].outcome = "missing"                 -> "error"

\* The answer; client.writePermission is read again to choose it.
Verdict(c) ==
    CASE req[c].outcome = "ok" /\ c \in writers  -> "ack"
      [] req[c].outcome = "ok" /\ c \notin writers -> "denied"
      [] req[c].outcome = "conflict"           -> "nack"
      [] req[c].outcome = "missing"            -> "error"

Reply(c) ==
    /\ pc[c] = "reply"
    /\ Enqueue(c, Answer(Verdict(c), req[c].end, req[c].sent))
    /\ Goto(c, IF Verdict(c) = "ack" THEN "mark" ELSE "ready")
    /\ UNCHANGED <<stored, doc, token, writers, lastEnd, req, registered, task,
                   notices, deletion, requests, updates, joinLen>>

\* c.lastEnd = newLength, by the reader goroutine, without a lock.
MarkEnd(c) ==
    /\ pc[c] = "mark"
    /\ lastEnd' = [lastEnd EXCEPT ![c] = req[c].end]
    /\ Goto(c, "publish")
    /\ UNCHANGED <<stored, doc, token, writers, req, stream, registered, task,
                   notices, deletion, requests, updates, joinLen>>

\* hub.Append hands its closure to the hub and returns.
HubAppend(c) ==
    /\ pc[c] = "publish"
    /\ HubIdle
    /\ task' = [offset |-> req[c].offset, data |-> req[c].data,
                todo |-> registered \ {c}, sending |-> {}]
    /\ req' = [req EXCEPT ![c] = NoRequest]
    /\ Goto(c, "ready")
    /\ UNCHANGED <<stored, doc, token, writers, lastEnd, stream, registered,
                   notices, deletion, requests, updates, joinLen>>

\* The socket is gone, between two requests.
Disconnect(c) ==
    /\ pc[c] = "ready"
    /\ Goto(c, "remove")
    /\ UNCHANGED <<stored, doc, token, writers, lastEnd, req, stream,
                   registered, task, notices, deletion, requests, updates,
                   joinLen>>

RemoveClient(c) ==
    /\ pc[c] = "remove"
    /\ HubIdle
    /\ registered' = registered \ {c}
    /\ Goto(c, "gone")
    /\ UNCHANGED <<stored, doc, token, writers, lastEnd, req, stream, task,
                   notices, deletion, requests, updates, joinLen>>

(***************************************************************************)
(* The hub goroutine runs the closure of hub.Append: client.enqueueAppend  *)
(* for every client of the session but the author.                         *)
(***************************************************************************)

\* Mutants: the guard lets overlapping messages pass; it drops the message that
\* continues the last one.
StaleByEnd(d) == task.offset + Len(task.data) < lastEnd[d]
StaleOrNext(d) == task.offset <= lastEnd[d]

\* "if offset < c.lastEnd { return }"
Stale(d) == task.offset < lastEnd[d]

\* Mutant: the loop does not advance past a recipient it skips.
SkipNobody(d) ==
    /\ task.sending = {}
    /\ d \in task.todo
    /\ Stale(d)
    /\ UNCHANGED vars

SkipRecipient(d) ==
    /\ task.sending = {}
    /\ d \in task.todo
    /\ Stale(d)
    /\ task' = [task EXCEPT !.todo = @ \ {d}]
    /\ UNCHANGED <<stored, doc, token, pc, writers, lastEnd, req, stream,
                   registered, notices, deletion, requests, updates, joinLen>>

\* The check passes: d is next.
PickRecipient(d) ==
    /\ task.sending = {}
    /\ d \in task.todo
    /\ ~Stale(d)
    /\ task' = [task EXCEPT !.todo = @ \ {d}, !.sending = {d}]
    /\ UNCHANGED <<stored, doc, token, pc, writers, lastEnd, req, stream,
                   registered, notices, deletion, requests, updates, joinLen>>

\* Move c.lastEnd and queue the message.
SendToRecipient(d) ==
    /\ d \in task.sending
    /\ lastEnd' = [lastEnd EXCEPT ![d] = task.offset + Len(task.data)]
    /\ Enqueue(d, Append_(task.offset, task.data))
    /\ task' = [task EXCEPT !.sending = {}]
    /\ UNCHANGED <<stored, doc, token, pc, writers, req, registered, notices,
                   deletion, requests, updates, joinLen>>

(***************************************************************************)
(* Management requests                                                     *)
(***************************************************************************)

\* handleUpdateUser: the DocumentDB first ...
UpdateUser ==
    /\ updates < MaxUpdates
    /\ updates' = updates + 1
    /\ \E c \in Client, flags \in NewPermissions :
          /\ token' = [token EXCEPT ![c] = flags]
          /\ notices' = notices \cup {<<c, flags>>}
    /\ UNCHANGED <<stored, doc, pc, writers, lastEnd, req, stream, registered,
                   task, deletion, requests, joinLen>>

\* ... then hub.updatePermissions: notifyPermissionChange if the user is in
\* the session; a client that may not read any more also gets an error.
UpdatePermissions ==
    /\ HubIdle
    /\ \E c \in Client, flags \in SUBSET Flag :
          /\ <<c, flags>> \in notices
          /\ notices' = notices \ {<<c, flags>>}
          /\ \/ /\ c \notin registered
                /\ UNCHANGED <<writers, stream>>
             \/ /\ c \in registered
                /\ SetWriter(c, flags)
                /\ IF "r" \in flags THEN UNCHANGED stream ELSE Enqueue(c, Error)
    /\ UNCHANGED <<stored, doc, token, pc, lastEnd, req, registered, task,
                   deletion, requests, updates, joinLen>>

\* handleDeleteDocument: hub.signalDocumentDeleted first ...
SignalDocumentDeleted ==
    /\ Deletable
    /\ deletion = "none"
    /\ HubIdle
    /\ deletion' = "signalled"
    /\ stream' = [c \in Client |-> IF c \in registered
                                   THEN Append(stream[c], Error)
                                   ELSE stream[c]]
    /\ UNCHANGED <<stored, doc, token, pc, writers, lastEnd, req, registered,
                   task, notices, requests, updates, joinLen>>

\* ... then the DocumentDB.
DeleteDocument ==
    /\ deletion = "signalled"
    /\ deletion' = "done"
    /\ stored' = "absent"
    /\ doc' = <<>>
    /\ UNCHANGED <<token, pc, writers, lastEnd, req, stream, registered, task,
                   notices, requests, updates, joinLen>>

\* Every connection has ended and nothing is left to do.
Finished ==
    /\ \A c \in Client : pc[c] = "gone"
    /\ HubIdle
    /\ notices = {}
    /\ UNCHANGED vars

Reader(c) ==
    \/ GetToken(c) \/ RefuseToken(c)
    \/ OpenDocument(c) \/ CreateDocument(c) \/ RefuseDocument(c)
    \/ AddClient(c)
    \/ Receive(c) \/ AppendDocument(c) \/ AppendFails(c)
    \/ Reply(c) \/ MarkEnd(c) \/ HubAppend(c)
    \/ Disconnect(c) \/ RemoveClient(c)

Hub == \E d \in Client :
           SkipRecipient(d) \/ PickRecipient(d) \/ SendToRecipient(d)

Management ==
    UpdateUser \/ UpdatePermissions \/ SignalDocumentDeleted \/ DeleteDocument

Next == (\E c \in Client : Reader(c)) \/ Hub \/ Management \/ Finished

Spec == Init /\ [][Next]_vars

(***************************************************************************)
(* Fairness.  A reader that owes a step takes it: it never waits for the   *)
(* network once a request is in.  The hub goroutine runs its closure to    *)
(* the end.  Go serves the senders waiting on a channel first come, first  *)
(* served, so a hand-over that is possible again and again takes place.    *)
(* Nothing makes a client send, disconnect or a manager call.              *)
(***************************************************************************)
Fairness ==
    /\ \A c \in Client :
          /\ WF_vars(AppendDocument(c) \/ AppendFails(c) \/ Reply(c) \/ MarkEnd(c))
          /\ SF_vars(AddClient(c) \/ HubAppend(c) \/ RemoveClient(c))
    /\ WF_vars(Hub)
    /\ SF_vars(UpdatePermissions)
    /\ WF_vars(DeleteDocument)

-----------------------------------------------------------------------------
(***************************************************************************)
(* Properties                                                              *)
(***************************************************************************)

\* Every variable has its type (client.go:24-56, hub.go:20-28).
TypeOK ==
    /\ stored \in {"absent", "present"}
    /\ doc \in Document
    /\ token \in [Client -> SUBSET Flag]
    /\ pc \in [Client -> Stage]
    /\ writers \in SUBSET Client
    /\ lastEnd \in [Client -> Nat]
    /\ req \in [Client -> Request]
    /\ stream \in [Client -> Seq(Message)]
    /\ registered \in SUBSET Client
    /\ task \in Task
    /\ notices \in SUBSET (Client \X SUBSET Flag)
    /\ deletion \in {"none", "signalled", "done"}
    /\ requests \in [Client -> Nat]
    /\ updates \in Nat
    /\ joinLen \in [Client -> Nat]

\* The document has not been deleted: what follows is about one document, not
\* about a second one of the same name.
Undeleted == deletion # "done"

\* The document positions a message, a request or the hub's task is about.
Span(m) == (m.offset + 1)..(m.offset + Len(m.data))
AckedSpan(m) == (m.offset - Len(m.data) + 1)..m.offset

Messages(c, type) == {i \in 1..Len(stream[c]) : stream[c][i].type = type}

\* m carries what document d holds at the positions it claims.
Faithful(d, m) ==
    \A i \in 1..Len(m.data) :
        /\ m.offset + i <= Len(d)
        /\ m.data[i] = d[m.offset + i]

\* Whatever a client is sent is what the document holds at the offset the
\* message gives (client.go:502, hub.go:165-169): snapshots, changes and the
\* races between them never make two clients see different documents.
Fidelity ==
    Undeleted => \A c \in Client : \A i \in Messages(c, "append") :
                     Faithful(doc, stream[c][i])

\* No position of the document is sent to a client twice, although a change
\* stored before the client's snapshot may be published after it and
\* client.lastEnd, the guard against that, is written by two goroutines
\* (client.go:307, 582).
AtMostOnce ==
    Undeleted => \A c \in Client : \A i, j \in Messages(c, "append") :
        i # j => Span(stream[c][i]) \cap Span(stream[c][j]) = {}

\* What an ACK confirms is in the document, exactly where the ACK says
\* (client.go:578-581).
AckedIsStored ==
    Undeleted => \A c \in Client : \A i \in Messages(c, "ack") :
        LET m == stream[c][i] IN
        m.data = SubSeq(doc, m.offset - Len(m.data) + 1, m.offset)

\* Positions of the document that client c has had acknowledged.
Acked(c) == UNION {AckedSpan(stream[c][i]) : i \in Messages(c, "ack")}

\* Positions client d has received, sent itself, or said it already had.
Has(d) == UNION {Span(stream[d][i]) : i \in Messages(d, "append")}
          \cup Acked(d)
          \cup (IF stream[d] = <<>> THEN {} ELSE 1..stream[d][1].offset)

\* d has been told that the document reaches p.
ReachedBy(d, p) == \E i \in Messages(d, "append") \cup Messages(d, "ack") :
                       End(stream[d][i]) >= p

\* p is on its way to d: between the store and the hub, or in the hub.
Coming(d, p) ==
    \/ \E c \in Client \ {d} : /\ pc[c] \in {"reply", "mark", "publish"}
                               /\ p \in Span(req[c])
    \/ d \in task.todo \cup task.sending /\ p \in Span(task)

\* An acknowledged change is never forgotten on the way: each client that was
\* in the session when it was stored has been told of the document up to it,
\* or will be (client.go:581-583, hub.go:158-177).
NothingForgotten ==
    Undeleted => \A c \in Client, d \in registered : \A p \in Acked(c) :
        p > joinLen[d] => ReachedBy(d, p) \/ Coming(d, p)

\* An acknowledged change gets to every client that was in the session when it
\* was stored (client.go:583, README.md:3).
RegisteredGetAcked ==
    Undeleted => \A c \in Client, d \in registered : \A p \in Acked(c) :
        p > joinLen[d] => p \in Has(d) \/ Coming(d, p)

\* The same for every client in the session, whenever it joined: its snapshot
\* (client.go:477) and the hub's list (hub.go:61) leave no gap (README.md:3).
EveryoneGetsAcked ==
    Undeleted => \A c \in Client, d \in registered : \A p \in Acked(c) :
        p \in Has(d) \/ Coming(d, p)

\* Every acknowledged change eventually gets past the hub: each client that was
\* in the session is told of the document up to it, or leaves.
DeliveredEventually ==
    \A c \in Client : \A d \in Client \ {c}, p \in 1..MaxLength :
        (Undeleted /\ p \in Acked(c) /\ d \in registered /\ p > joinLen[d])
            ~> (~Undeleted \/ d \notin registered \/ ReachedBy(d, p))

\* A connection that ends leaves the session, however busy the hub is
\* (client.go:109, hub.go:90-118).
LeaversAreRemoved ==
    \A c \in Client : pc[c] = "remove" ~> c \notin registered
=============================================================================
