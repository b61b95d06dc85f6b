---------------------------- MODULE CollabProofs ----------------------------
(***************************************************************************)
(* Proofs about Collab, for any set of clients and any values of the       *)
(* bounds: type correctness and, for a document that is not deleted,       *)
(* Fidelity, AckedIsStored, NothingForgotten and AtMostOnce.               *)
(***************************************************************************)
EXTENDS Collab, SequenceTheorems, TLAPS

\* The data of a request is document data.
LEMMA PayloadType ==
    ASSUME NEW c \in Client, NEW n \in Nat, NEW k \in Nat
    PROVE  /\ Payload(c, n, k) \in Document
           /\ Len(Payload(c, n, k)) = k
BY DEF Payload, Document, Change

\* Appending to the document leaves what was there in place.
LEMMA ConcatType ==
    ASSUME NEW s \in Document, NEW t \in Document
    PROVE  /\ s \o t \in Document
           /\ Len(s \o t) = Len(s) + Len(t)
           /\ \A i \in 1..Len(s) : (s \o t)[i] = s[i]
           /\ \A i \in 1..Len(t) : (s \o t)[Len(s) + i] = t[i]
BY ConcatProperties DEF Document

\* Queueing a message keeps the streams well typed.
LEMMA EnqueueType ==
    ASSUME stream \in [Client -> Seq(Message)], NEW c \in Client,
           NEW m \in Message, Enqueue(c, m)
    PROVE  stream' \in [Client -> Seq(Message)]
BY DEF Enqueue

\* The messages the server builds are messages.
LEMMA MessageTypes ==
    /\ Error \in Message
    /\ \A n \in Nat, s \in Document : Append_(n, s) \in Message
    /\ \A n \in Nat, s \in Document, t \in MsgType : Answer(t, n, s) \in Message
BY DEF Error, Append_, Answer, Message, MsgType, Document

\* A reader goes to a stage there is.
LEMMA GotoType ==
    ASSUME pc \in [Client -> Stage], NEW c \in Client, NEW s \in Stage,
           Goto(c, s)
    PROVE  pc' \in [Client -> Stage]
BY DEF Goto

\* The empty request and the idle hub have their types.
LEMMA EmptyRecords == NoRequest \in Request /\ NoTask \in Task
BY DEF NoRequest, Request, Outcome, NoTask, Task, Document

\* An empty store without clients has its types.
LEMMA InitType == Init => TypeOK
<1> SUFFICES ASSUME Init PROVE TypeOK
  OBVIOUS
<1>1. doc \in Document
  BY DEF Init, Document
<1>2. token \in [Client -> SUBSET Flag]
  BY TokensAssumption DEF Init
<1>3. req \in [Client -> Request] /\ task \in Task
  BY EmptyRecords DEF Init
<1>4. stream \in [Client -> Seq(Message)]
  BY DEF Init
<1> QED
  BY <1>1, <1>2, <1>3, <1>4 DEF Init, TypeOK, Stage

\* Every step keeps the variables in their types.
LEMMA TypeStep == TypeOK /\ [Next]_vars => TypeOK'
<1> SUFFICES ASSUME TypeOK, [Next]_vars PROVE TypeOK'
  OBVIOUS
<1> USE DEF TypeOK
<1>a. {"token", "document", "add", "ready", "store", "reply", "mark",
       "publish", "remove", "gone"} \subseteq Stage
  BY DEF Stage
<1>1. ASSUME NEW c \in Client, GetToken(c) PROVE TypeOK'
  BY <1>1, <1>a, GotoType DEF GetToken, SetWriter
<1>2. ASSUME NEW c \in Client, RefuseToken(c) PROVE TypeOK'
  BY <1>2, <1>a, GotoType, EnqueueType, MessageTypes DEF RefuseToken, SetWriter
<1>3. ASSUME NEW c \in Client, OpenDocument(c) PROVE TypeOK'
  <2>1. PICK offset \in Nat : Enqueue(c, Append_(offset, DocFrom(offset)))
    BY <1>3 DEF OpenDocument, Document
  <2>2. DocFrom(offset) \in Document
    BY <2>1 DEF DocFrom, Document
  <2>3. stream' \in [Client -> Seq(Message)]
    BY <2>1, <2>2, EnqueueType, MessageTypes
  <2>4. Len(doc) \in Nat
    BY DEF Document
  <2> QED
    BY <1>3, <1>a, <2>3, <2>4, GotoType DEF OpenDocument
<1>4. ASSUME NEW c \in Client, CreateDocument(c) PROVE TypeOK'
  <2>1. PICK k \in Sizes : /\ doc' = Payload(c, 0, k)
                           /\ Enqueue(c, Append_(k, <<>>))
                           /\ lastEnd' = [lastEnd EXCEPT ![c] = k]
    BY <1>4 DEF CreateDocument
  <2>2. k \in Nat /\ <<>> \in Document
    BY <2>1, SizesAssumption DEF Document
  <2>3. doc' \in Document
    BY <2>1, <2>2, PayloadType
  <2>4. stream' \in [Client -> Seq(Message)]
    BY <2>1, <2>2, EnqueueType, MessageTypes
  <2> QED
    BY <1>4, <1>a, <2>1, <2>2, <2>3, <2>4, GotoType DEF CreateDocument
<1>5. ASSUME NEW c \in Client, RefuseDocument(c) PROVE TypeOK'
  BY <1>5, <1>a, GotoType, EnqueueType, MessageTypes DEF RefuseDocument
<1>6. ASSUME NEW c \in Client, AddClient(c) PROVE TypeOK'
  BY <1>6, <1>a, GotoType DEF AddClient, Document
<1>7. ASSUME NEW c \in Client, Receive(c) PROVE TypeOK'
  <2>1. PICK offset \in Offsets(c), k \in Sizes :
          LET sent == Payload(c, requests[c] + 1, k) IN
          req' = [req EXCEPT ![c] =
                     [NoRequest EXCEPT
                        !.offset = offset,
                        !.sent = sent,
                        !.data = IF c \in writers THEN sent ELSE <<>>]]
    BY <1>7 DEF Receive
  <2>2. offset \in Nat
    <3>1. ASSUME NEW m \in Message PROVE End(m) \in Nat
      BY DEF Message, End, Document
    <3>2. Told(c) \subseteq Nat
      BY <3>1 DEF Told
    <3> QED
      BY <3>2 DEF Offsets, Document
  <2>3. /\ Payload(c, requests[c] + 1, k) \in Document
        /\ <<>> \in Document
    BY PayloadType, SizesAssumption DEF Document
  <2>4. req' \in [Client -> Request]
    BY <2>1, <2>2, <2>3 DEF Request, NoRequest, Outcome
  <2> QED
    BY <1>7, <1>a, <2>4, GotoType DEF Receive
<1>8. ASSUME NEW c \in Client, AppendDocument(c) PROVE TypeOK'
  <2>1. req[c].data \in Document /\ NewLength(c) \in Nat /\ Len(doc) \in Nat
    BY DEF Request, Document, NewLength
  <2>2. doc' \in Document
    <3>1. doc' = doc \/ doc' = doc \o req[c].data
      BY <1>8 DEF AppendDocument
    <3>2. doc \o req[c].data \in Document
      BY <2>1, ConcatType
    <3> QED
      BY <3>1, <3>2
  <2>3. req' \in [Client -> Request]
    <3>1. \A r \in Request, n \in Nat, o \in Outcome :
             /\ [r EXCEPT !.end = n] \in Request
             /\ [r EXCEPT !.outcome = o] \in Request
             /\ [r EXCEPT !.end = n, !.outcome = o] \in Request
      BY DEF Request
    <3>2. PICK r \in Request : req' = [req EXCEPT ![c] = r]
      <4>1. \/ req' = [req EXCEPT ![c] = [req[c] EXCEPT !.end = NewLength(c)]]
            \/ req' = [req EXCEPT ![c] = [req[c] EXCEPT !.end = Len(doc),
                                                        !.outcome = "conflict"]]
            \/ req' = [req EXCEPT ![c] = [req[c] EXCEPT !.outcome = "missing"]]
        BY <1>8 DEF AppendDocument
      <4> QED
        BY <2>1, <3>1, <4>1 DEF Outcome
    <3> QED
      BY <3>2
  <2> QED
    BY <1>8, <1>a, <2>2, <2>3, GotoType DEF AppendDocument
<1>9. ASSUME NEW c \in Client, AppendFails(c) PROVE TypeOK'
  <2>1. req[c].data \in Document
    BY DEF Request
  <2>2. doc' \in Document
    <3>1. doc' = doc \/ doc' = doc \o req[c].data
      BY <1>9 DEF AppendFails
    <3>2. doc \o req[c].data \in Document
      BY <2>1, ConcatType
    <3> QED
      BY <3>1, <3>2
  <2> QED
    BY <1>9, <1>a, <2>2, GotoType DEF AppendFails
<1>10. ASSUME NEW c \in Client, Reply(c) PROVE TypeOK'
  <2>1. Verdict(c) \in MsgType
    BY DEF Verdict, MsgType, Request, Outcome
  <2>2. Answer(Verdict(c), req[c].end, req[c].sent) \in Message
    BY <2>1, MessageTypes DEF Request
  <2> QED
    BY <1>10, <1>a, <2>2, GotoType, EnqueueType DEF Reply
<1>11. ASSUME NEW c \in Client, MarkEnd(c) PROVE TypeOK'
  BY <1>11, <1>a, GotoType DEF MarkEnd, Request
<1>12. ASSUME NEW c \in Client, HubAppend(c) PROVE TypeOK'
  <2>1. req' \in [Client -> Request]
    BY <1>12, EmptyRecords DEF HubAppend
  <2>2. task' \in Task
    BY <1>12 DEF HubAppend, Task, Request
  <2> QED
    BY <1>12, <1>a, <2>1, <2>2, GotoType DEF HubAppend
<1>13. ASSUME NEW c \in Client, Disconnect(c) PROVE TypeOK'
  BY <1>13, <1>a, GotoType DEF Disconnect
<1>14. ASSUME NEW c \in Client, RemoveClient(c) PROVE TypeOK'
  BY <1>14, <1>a, GotoType DEF RemoveClient
<1>15. ASSUME NEW d \in Client, SkipRecipient(d) PROVE TypeOK'
  BY <1>15 DEF SkipRecipient, Task
<1>16. ASSUME NEW d \in Client, PickRecipient(d) PROVE TypeOK'
  BY <1>16 DEF PickRecipient, Task
<1>17. ASSUME NEW d \in Client, SendToRecipient(d) PROVE TypeOK'
  <2>1. task.offset + Len(task.data) \in Nat
    BY DEF Task, Document
  <2>2. Append_(task.offset, task.data) \in Message
    BY MessageTypes DEF Task
  <2>3. task' \in Task
    BY <1>17 DEF SendToRecipient, Task
  <2> QED
    BY <1>17, <2>1, <2>2, <2>3, EnqueueType DEF SendToRecipient
<1>18. ASSUME UpdateUser PROVE TypeOK'
  BY <1>18, PermissionsAssumption DEF UpdateUser
<1>19. ASSUME UpdatePermissions PROVE TypeOK'
  <2>1. PICK c \in Client, flags \in SUBSET Flag :
           /\ notices' = notices \ {<<c, flags>>}
           /\ \/ UNCHANGED <<writers, stream>>
              \/ /\ SetWriter(c, flags)
                 /\ UNCHANGED stream \/ Enqueue(c, Error)
    BY <1>19 DEF UpdatePermissions
  <2>2. stream' \in [Client -> Seq(Message)]
    BY <2>1, EnqueueType, MessageTypes
  <2>3. writers' \in SUBSET Client
    BY <2>1 DEF SetWriter
  <2> QED
    BY <1>19, <2>1, <2>2, <2>3 DEF UpdatePermissions
<1>20. ASSUME SignalDocumentDeleted PROVE TypeOK'
  <2>1. stream' \in [Client -> Seq(Message)]
    BY <1>20, MessageTypes DEF SignalDocumentDeleted
  <2> QED
    BY <1>20, <2>1 DEF SignalDocumentDeleted
<1>21. ASSUME DeleteDocument PROVE TypeOK'
  BY <1>21 DEF DeleteDocument, Document
<1>22. CASE UNCHANGED vars
  BY <1>22 DEF vars
<1> QED
  BY <1>1, <1>2, <1>3, <1>4, <1>5, <1>6, <1>7, <1>8, <1>9, <1>10, <1>11,
     <1>12, <1>13, <1>14, <1>15, <1>16, <1>17, <1>18, <1>19, <1>20, <1>21,
     <1>22
     DEF Next, Reader, Hub, Management, Finished

\* The state of the model stays in its types (client.go:24-56, hub.go:20-28),
\* for any number of clients and any bounds.
THEOREM TypeCorrect == Spec => []TypeOK
<1> QED
  BY InitType, TypeStep, PTL DEF Spec

-----------------------------------------------------------------------------
(***************************************************************************)
(* Fidelity.  It is not inductive: what the hub is sending, and what the   *)
(* readers are about to hand to it, must be faithful to the document too.  *)
(* The invariants are about the time before the document is deleted.       *)
(***************************************************************************)

\* Reader c has stored data that the hub has not been given yet.
InFlight(c) ==
    \/ pc[c] = "reply" /\ req[c].outcome = "ok"
    \/ pc[c] \in {"mark", "publish"}

DocInv == Undeleted /\ (~Exists => doc = <<>>)

\* What the append messages of all streams say.
StreamsFaithful == \A c \in Client : \A i \in Messages(c, "append") :
                       Faithful(doc, stream[c][i])

FaithInv ==
    /\ StreamsFaithful
    /\ Faithful(doc, task)
    /\ \A c \in Client : InFlight(c) =>
          /\ Faithful(doc, req[c])
          /\ req[c].end = req[c].offset + Len(req[c].data)

\* The document only gets longer.
Grows ==
    /\ Len(doc) <= Len(doc')
    /\ \A i \in 1..Len(doc) : doc'[i] = doc[i]

\* What AppendDocument appends at the document's end is faithful to the result.
LEMMA ConcatFaithful ==
    ASSUME NEW d \in Document, NEW m, m.offset = Len(d), m.data \in Document
    PROVE  Faithful(d \o m.data, m)
BY ConcatType DEF Faithful, Document

\* What was faithful to a document is faithful to a longer one.
LEMMA FaithfulGrows ==
    ASSUME doc \in Document, doc' \in Document, Grows, NEW m,
           m.offset \in Nat, m.data \in Document, Faithful(doc, m)
    PROVE  Faithful(doc', m)
<1> SUFFICES ASSUME NEW i \in 1..Len(m.data)
             PROVE  m.offset + i <= Len(doc') /\ m.data[i] = doc'[m.offset + i]
  BY DEF Faithful
<1>1. m.offset + i <= Len(doc) /\ m.data[i] = doc[m.offset + i]
  BY DEF Faithful
<1>2. m.offset + i \in 1..Len(doc)
  BY <1>1 DEF Document
<1> QED
  BY <1>1, <1>2 DEF Grows, Document

\* Until the document is deleted, no step shortens or changes it.
LEMMA GrowsStep ==
    ASSUME Undeleted', TypeOK, DocInv, [Next]_vars
    PROVE  Grows /\ DocInv'
<1>1. Len(doc) \in Nat
  BY DEF TypeOK, Document
<1>2. ASSUME UNCHANGED <<doc, stored>> PROVE Grows /\ DocInv'
  BY <1>1, <1>2 DEF Grows, DocInv, Exists
<1>3. ASSUME NEW c \in Client, CreateDocument(c) PROVE Grows /\ DocInv'
  <2>1. doc = <<>> /\ Exists'
    BY <1>3 DEF CreateDocument, DocInv, Exists
  <2>2. PICK k \in Sizes : doc' = Payload(c, 0, k)
    BY <1>3 DEF CreateDocument
  <2>3. Len(doc') \in Nat
    BY <2>2, SizesAssumption, PayloadType
  <2> QED
    BY <2>1, <2>3 DEF Grows, DocInv
<1>4. ASSUME NEW c \in Client, AppendDocument(c) \/ AppendFails(c)
      PROVE Grows /\ DocInv'
  <2>1. req[c].data \in Document /\ doc \in Document
    BY DEF TypeOK, Request
  <2>2. UNCHANGED stored
    BY <1>4 DEF AppendDocument, AppendFails
  <2>3. doc' = doc \/ (Exists /\ doc' = doc \o req[c].data)
    BY <1>4 DEF AppendDocument, AppendFails
  <2>4. CASE doc' = doc
    BY <1>2, <2>2, <2>4
  <2>5. CASE Exists /\ doc' = doc \o req[c].data
    <3>1. Grows
      BY <2>1, <2>5, ConcatType DEF Grows, Document
    <3> QED
      BY <2>2, <2>5, <3>1 DEF DocInv, Exists
  <2> QED
    BY <2>3, <2>4, <2>5
<1>5. ASSUME NEW c \in Client,
             \/ GetToken(c) \/ RefuseToken(c) \/ OpenDocument(c)
             \/ RefuseDocument(c) \/ AddClient(c) \/ Receive(c) \/ Reply(c)
             \/ MarkEnd(c) \/ HubAppend(c) \/ Disconnect(c) \/ RemoveClient(c)
             \/ SkipRecipient(c) \/ PickRecipient(c) \/ SendToRecipient(c)
      PROVE Grows /\ DocInv'
  BY <1>2, <1>5 DEF GetToken, RefuseToken, OpenDocument, RefuseDocument,
     AddClient, Receive, Reply, MarkEnd, HubAppend, Disconnect, RemoveClient,
     SkipRecipient, PickRecipient, SendToRecipient
<1>6. ASSUME UpdateUser \/ UpdatePermissions \/ SignalDocumentDeleted
      PROVE Grows /\ DocInv'
  BY <1>2, <1>6 DEF UpdateUser, UpdatePermissions, SignalDocumentDeleted
<1>7. ~DeleteDocument
  BY DEF DeleteDocument, Undeleted
<1>8. CASE UNCHANGED vars
  BY <1>2, <1>8 DEF vars
<1> QED
  BY <1>3, <1>4, <1>5, <1>6, <1>7, <1>8
     DEF Next, Reader, Hub, Management, Finished

\* What queueing a message does to the streams.
LEMMA EnqueueStep ==
    ASSUME TypeOK, NEW c \in Client, NEW m \in Message, Enqueue(c, m)
    PROVE  /\ \A d \in Client : d # c => stream'[d] = stream[d]
           /\ Len(stream'[c]) = Len(stream[c]) + 1
           /\ stream'[c][Len(stream[c]) + 1] = m
           /\ \A i \in 1..Len(stream[c]) : stream'[c][i] = stream[c][i]
<1>1. stream[c] \in Seq(Message)
  BY DEF TypeOK
<1>2. stream' = [stream EXCEPT ![c] = Append(stream[c], m)]
  BY DEF Enqueue
<1> QED
  BY <1>1, <1>2, AppendProperties DEF TypeOK

\* The streams stay faithful when every append message in them was there before
\* or is faithful to the new document.
LEMMA FidelityKept ==
    ASSUME TypeOK, TypeOK', StreamsFaithful, Grows,
           \A c \in Client : \A i \in 1..Len(stream'[c]) :
              stream'[c][i].type = "append" =>
                 \/ i \in 1..Len(stream[c]) /\ stream'[c][i] = stream[c][i]
                 \/ Faithful(doc', stream'[c][i])
    PROVE  StreamsFaithful'
<1> SUFFICES ASSUME NEW c \in Client, NEW i \in 1..Len(stream'[c]),
                    stream'[c][i].type = "append"
             PROVE  Faithful(doc', stream'[c][i])
  BY DEF StreamsFaithful, Messages
<1>1. CASE i \in 1..Len(stream[c]) /\ stream'[c][i] = stream[c][i]
  <2>1. Faithful(doc, stream[c][i])
    BY <1>1 DEF StreamsFaithful, Messages
  <2>2. stream[c][i] \in Message
    BY <1>1 DEF TypeOK
  <2> QED
    BY <1>1, <2>1, <2>2, FaithfulGrows DEF TypeOK, Message
<1> QED
  BY <1>1

\* A step that sends nothing keeps the streams faithful.
LEMMA FidelityQuiet ==
    ASSUME TypeOK, TypeOK', StreamsFaithful, Grows, UNCHANGED stream
    PROVE  StreamsFaithful'
BY FidelityKept

\* So does queueing one message that is faithful or no append.
LEMMA FidelityEnqueue ==
    ASSUME TypeOK, TypeOK', StreamsFaithful, Grows, NEW c \in Client,
           NEW m \in Message, Enqueue(c, m),
           m.type # "append" \/ Faithful(doc', m)
    PROVE  StreamsFaithful'
<1>1. /\ \A d \in Client : d # c => stream'[d] = stream[d]
      /\ Len(stream'[c]) = Len(stream[c]) + 1
      /\ stream'[c][Len(stream[c]) + 1] = m
      /\ \A i \in 1..Len(stream[c]) : stream'[c][i] = stream[c][i]
  BY EnqueueStep
<1>2. ASSUME NEW d \in Client, NEW i \in 1..Len(stream'[d]),
             stream'[d][i].type = "append"
      PROVE  \/ i \in 1..Len(stream[d]) /\ stream'[d][i] = stream[d][i]
             \/ Faithful(doc', stream'[d][i])
  <2>1. Len(stream[c]) \in Nat
    BY DEF TypeOK
  <2>2. d = c => i \in 1..Len(stream[c]) \/ i = Len(stream[c]) + 1
    BY <1>1, <2>1
  <2> QED
    BY <1>1, <1>2, <2>2
<1> QED
  BY <1>2, FidelityKept

\* The streams keep what they have and get no append message.
Quiet ==
    \A c \in Client :
        /\ Len(stream[c]) <= Len(stream'[c])
        /\ \A i \in 1..Len(stream[c]) : stream'[c][i] = stream[c][i]
        /\ \A i \in 1..Len(stream'[c]) :
              stream'[c][i].type = "append" => i \in 1..Len(stream[c])

\* hub.signalDocumentDeleted sends errors only (hub.go:69-82).
LEMMA QuietSignal ==
    ASSUME TypeOK, SignalDocumentDeleted
    PROVE  /\ Quiet
           /\ \A c \in Client : c \notin registered => stream'[c] = stream[c]
<1>1. ASSUME NEW c \in Client, c \notin registered
      PROVE  stream'[c] = stream[c]
  BY <1>1 DEF SignalDocumentDeleted
<1>2. ASSUME NEW c \in Client
      PROVE  /\ Len(stream[c]) <= Len(stream'[c])
             /\ \A i \in 1..Len(stream[c]) : stream'[c][i] = stream[c][i]
             /\ \A i \in 1..Len(stream'[c]) :
                   stream'[c][i].type = "append" => i \in 1..Len(stream[c])
  <2>1. stream[c] \in Seq(Message) /\ Len(stream[c]) \in Nat
    BY DEF TypeOK
  <2>2. CASE stream'[c] = stream[c]
    BY <2>1, <2>2
  <2>3. CASE stream'[c] = Append(stream[c], Error)
    <3>1. /\ Len(stream'[c]) = Len(stream[c]) + 1
          /\ stream'[c][Len(stream[c]) + 1] = Error
          /\ \A i \in 1..Len(stream[c]) : stream'[c][i] = stream[c][i]
      BY <2>1, <2>3, MessageTypes, AppendProperties
    <3>2. \A i \in 1..Len(stream'[c]) :
             i \in 1..Len(stream[c]) \/ i = Len(stream[c]) + 1
      BY <2>1, <3>1
    <3> QED
      BY <2>1, <3>1, <3>2 DEF Error
  <2> QED
    BY <2>2, <2>3 DEF SignalDocumentDeleted
<1> QED
  BY <1>1, <1>2 DEF Quiet

\* The requests and the task stay faithful when they, and the place of each
\* reader that holds one, do not change.
LEMMA TaskKept ==
    ASSUME TypeOK, TypeOK', FaithInv, Grows,
           task'.offset = task.offset, task'.data = task.data
    PROVE  Faithful(doc', task')
<1>1. Faithful(doc', task)
  BY FaithfulGrows DEF FaithInv, TypeOK, Task
<1> QED
  BY <1>1 DEF Faithful

\* The same for a request.
LEMMA RequestKept ==
    ASSUME TypeOK, TypeOK', FaithInv, Grows, NEW c \in Client,
           InFlight(c), req'[c] = req[c]
    PROVE  /\ Faithful(doc', req'[c])
           /\ req'[c].end = req'[c].offset + Len(req'[c].data)
<1>1. Faithful(doc', req[c])
  BY FaithfulGrows DEF FaithInv, TypeOK, Request
<1> QED
  BY <1>1 DEF FaithInv

\* Every step before the deletion keeps the invariant.
LEMMA FaithStep ==
    ASSUME Undeleted', TypeOK, TypeOK', DocInv, FaithInv, [Next]_vars
    PROVE  FaithInv'
<1> DEFINE RequestsOK ==
        \A c \in Client : InFlight(c)' =>
           /\ Faithful(doc', req'[c])
           /\ req'[c].end = req'[c].offset + Len(req'[c].data)
<1>g. Grows
  BY GrowsStep
<1>f. StreamsFaithful
  BY DEF FaithInv
<1>q. ASSUME StreamsFaithful', Faithful(doc', task'), RequestsOK PROVE FaithInv'
  BY <1>q DEF FaithInv
<1>t. ASSUME UNCHANGED task PROVE Faithful(doc', task')
  BY <1>g, <1>t, TaskKept
<1>r. ASSUME UNCHANGED req, \A c \in Client : InFlight(c)' => InFlight(c)
      PROVE  RequestsOK
  BY <1>g, <1>r, RequestKept
<1>s. ASSUME UNCHANGED stream PROVE StreamsFaithful'
  BY <1>f, <1>g, <1>s, FidelityQuiet
<1> HIDE DEF RequestsOK
<1>1. ASSUME NEW c \in Client,
             \/ GetToken(c) \/ AddClient(c) \/ AppendFails(c) \/ MarkEnd(c)
             \/ Disconnect(c) \/ RemoveClient(c)
      PROVE  FaithInv'
  <2>1. UNCHANGED <<task, req, stream>>
    BY <1>1 DEF GetToken, AddClient, AppendFails, MarkEnd, Disconnect,
       RemoveClient
  <2>2. \A d \in Client : InFlight(d)' => InFlight(d)
    BY <1>1 DEF GetToken, AddClient, AppendFails, MarkEnd, Disconnect,
       RemoveClient, InFlight, Goto, TypeOK
  <2> QED
    BY <2>1, <2>2, <1>q, <1>r, <1>s, <1>t
<1>2. ASSUME NEW c \in Client, RefuseToken(c) \/ RefuseDocument(c)
      PROVE  FaithInv'
  <2>1. UNCHANGED <<task, req>> /\ Enqueue(c, Error)
    BY <1>2 DEF RefuseToken, RefuseDocument
  <2>2. \A d \in Client : InFlight(d)' => InFlight(d)
    BY <1>2 DEF RefuseToken, RefuseDocument, InFlight, Goto, TypeOK
  <2>3. StreamsFaithful'
    BY <1>f, <1>g, <2>1, MessageTypes, FidelityEnqueue DEF Error
  <2> QED
    BY <2>1, <2>2, <2>3, <1>q, <1>r, <1>t
<1>3. ASSUME NEW c \in Client, OpenDocument(c) PROVE FaithInv'
  <2>1. UNCHANGED <<task, req, doc>>
    BY <1>3 DEF OpenDocument
  <2>2. \A d \in Client : InFlight(d)' => InFlight(d)
    BY <1>3 DEF OpenDocument, InFlight, Goto, TypeOK
  <2>3. PICK offset \in 0..Len(doc) : Enqueue(c, Append_(offset, DocFrom(offset)))
    BY <1>3 DEF OpenDocument, TypeOK, Document
  <2>4. /\ DocFrom(offset) \in Document
        /\ Len(DocFrom(offset)) = Len(doc) - offset
        /\ \A i \in 1..(Len(doc) - offset) : DocFrom(offset)[i] = doc[offset + i]
    <3>1. doc \in Seq(Change) /\ Len(doc) \in Nat
      BY DEF TypeOK, Document
    <3>2. offset + 1 \in 1..(Len(doc) + 1)
      BY <2>3, <3>1
    <3> QED
      BY <2>3, <3>1, <3>2, SubSeqProperties DEF DocFrom, Document
  <2>5. Faithful(doc', Append_(offset, DocFrom(offset)))
    <3>1. Len(doc) \in Nat
      BY DEF TypeOK, Document
    <3>2. \A i \in 1..(Len(doc) - offset) :
             offset + i <= Len(doc) /\ DocFrom(offset)[i] = doc[offset + i]
      BY <2>3, <2>4, <3>1
    <3> QED
      BY <2>1, <2>4, <3>2 DEF Faithful, Append_
  <2>6. Append_(offset, DocFrom(offset)) \in Message
    BY <2>3, <2>4, MessageTypes DEF TypeOK, Document
  <2>7. StreamsFaithful'
    BY <1>f, <1>g, <2>3, <2>5, <2>6, FidelityEnqueue
  <2> QED
    BY <2>1, <2>2, <2>7, <1>q, <1>r, <1>t
<1>4. ASSUME NEW c \in Client, CreateDocument(c) PROVE FaithInv'
  <2>1. UNCHANGED <<task, req>>
    BY <1>4 DEF CreateDocument
  <2>2. \A d \in Client : InFlight(d)' => InFlight(d)
    BY <1>4 DEF CreateDocument, InFlight, Goto, TypeOK
  <2>3. PICK k \in Sizes : Enqueue(c, Append_(k, <<>>))
    BY <1>4 DEF CreateDocument
  <2>4. Append_(k, <<>>) \in Message
    <3>1. k \in Nat /\ <<>> \in Document
      BY SizesAssumption DEF Document
    <3> QED
      BY <3>1, MessageTypes
  <2>5. Faithful(doc', Append_(k, <<>>))
    BY DEF Faithful, Append_
  <2>6. StreamsFaithful'
    BY <1>f, <1>g, <2>3, <2>4, <2>5, FidelityEnqueue
  <2> QED
    BY <2>1, <2>2, <2>6, <1>q, <1>r, <1>t
<1>5. ASSUME NEW c \in Client, Receive(c) PROVE FaithInv'
  <2>1. UNCHANGED <<task, stream>> /\ \A d \in Client \ {c} : req'[d] = req[d]
    BY <1>5 DEF Receive, TypeOK
  <2>2. \A d \in Client : InFlight(d)' => InFlight(d) /\ d # c
    BY <1>5 DEF Receive, InFlight, Goto, TypeOK
  <2>3. RequestsOK
    BY <2>1, <2>2, <1>g, RequestKept DEF RequestsOK
  <2> QED
    BY <2>1, <2>3, <1>q, <1>s, <1>t
<1>6. ASSUME NEW c \in Client, AppendDocument(c) PROVE FaithInv'
  <2>1. UNCHANGED <<task, stream>> /\ \A d \in Client \ {c} : req'[d] = req[d]
    BY <1>6 DEF AppendDocument, TypeOK
  <2>2. \A d \in Client \ {c} : InFlight(d)' => InFlight(d)
    BY <1>6 DEF AppendDocument, InFlight, Goto, TypeOK
  <2>3. ASSUME InFlight(c)'
        PROVE  /\ Faithful(doc', req'[c])
               /\ req'[c].end = req'[c].offset + Len(req'[c].data)
    <3>1. pc'[c] = "reply" /\ req'[c].outcome = "ok"
      BY <1>6, <2>3 DEF AppendDocument, InFlight, Goto, TypeOK
    <3>2. \/ req' = [req EXCEPT ![c] = [req[c] EXCEPT !.outcome = "missing"]]
          \/ req' = [req EXCEPT ![c] = [req[c] EXCEPT !.end = Len(doc),
                                                      !.outcome = "conflict"]]
          \/ /\ req' = [req EXCEPT ![c] = [req[c] EXCEPT !.end = NewLength(c)]]
             /\ doc' = doc \o req[c].data
             /\ req[c].offset = Len(doc)
      BY <1>6 DEF AppendDocument
    <3>3. req[c] \in Request /\ doc \in Document
      BY DEF TypeOK
    <3>4. /\ doc' = doc \o req[c].data
          /\ req[c].offset = Len(doc)
          /\ req'[c].offset = req[c].offset
          /\ req'[c].data = req[c].data
          /\ req'[c].end = NewLength(c)
      <4>1. \A r \in Request : req' = [req EXCEPT ![c] = r] => req'[c] = r
        BY DEF TypeOK
      <4>2. NewLength(c) \in Nat /\ Len(doc) \in Nat
        BY <3>3 DEF NewLength, Request, Document
      <4>3. /\ [req[c] EXCEPT !.outcome = "missing"] \in Request
            /\ [req[c] EXCEPT !.outcome = "missing"].outcome = "missing"
            /\ [req[c] EXCEPT !.end = Len(doc), !.outcome = "conflict"] \in Request
            /\ [req[c] EXCEPT !.end = Len(doc), !.outcome = "conflict"].outcome
                  = "conflict"
        BY <3>3, <4>2 DEF Request, Outcome
      <4>4. [req[c] EXCEPT !.end = NewLength(c)] \in Request
        BY <3>3, <4>2 DEF Request
      <4>5. /\ doc' = doc \o req[c].data
            /\ req[c].offset = Len(doc)
            /\ req'[c] = [req[c] EXCEPT !.end = NewLength(c)]
        BY <3>1, <3>2, <4>1, <4>3, <4>4
      <4> QED
        BY <3>3, <4>5 DEF Request
    <3>5. Faithful(doc \o req[c].data, req[c])
      BY <3>3, <3>4, ConcatFaithful DEF Request
    <3> QED
      BY <3>4, <3>5 DEF Faithful, NewLength
  <2>4. RequestsOK
    BY <2>1, <2>2, <2>3, <1>g, RequestKept DEF RequestsOK
  <2> QED
    BY <2>1, <2>4, <1>q, <1>s, <1>t
<1>7. ASSUME NEW c \in Client, Reply(c) PROVE FaithInv'
  <2>1. UNCHANGED <<task, req>>
        /\ Enqueue(c, Answer(Verdict(c), req[c].end, req[c].sent))
    BY <1>7 DEF Reply
  <2>2. Verdict(c) \in MsgType \ {"append"}
        /\ (Verdict(c) = "ack" => req[c].outcome = "ok")
    BY DEF Verdict, MsgType, TypeOK, Request, Outcome
  <2>3. \A d \in Client : InFlight(d)' => InFlight(d)
    BY <1>7, <2>2 DEF Reply, InFlight, Goto, TypeOK
  <2>4. Answer(Verdict(c), req[c].end, req[c].sent) \in Message
    BY <2>2, MessageTypes DEF TypeOK, Request
  <2>5. StreamsFaithful'
    BY <1>f, <1>g, <2>1, <2>2, <2>4, FidelityEnqueue DEF Answer
  <2> QED
    BY <2>1, <2>3, <2>5, <1>q, <1>r, <1>t
<1>8. ASSUME NEW c \in Client, HubAppend(c) PROVE FaithInv'
  <2>1. UNCHANGED <<stream, doc>> /\ \A d \in Client \ {c} : req'[d] = req[d]
    BY <1>8 DEF HubAppend, TypeOK
  <2>2. \A d \in Client : InFlight(d)' => InFlight(d) /\ d # c
    BY <1>8 DEF HubAppend, InFlight, Goto, TypeOK
  <2>3. RequestsOK
    BY <2>1, <2>2, <1>g, RequestKept DEF RequestsOK
  <2>4. Faithful(doc, req[c])
    BY <1>8 DEF HubAppend, FaithInv, InFlight
  <2>5. task'.offset = req[c].offset /\ task'.data = req[c].data
    BY <1>8 DEF HubAppend
  <2>6. Faithful(doc', task')
    BY <2>1, <2>4, <2>5 DEF Faithful
  <2> QED
    BY <2>1, <2>3, <2>6, <1>q, <1>s
<1>9. ASSUME NEW d \in Client, SkipRecipient(d) \/ PickRecipient(d)
      PROVE  FaithInv'
  <2>1. UNCHANGED <<stream, req, pc>>
    BY <1>9 DEF SkipRecipient, PickRecipient
  <2>2. task'.offset = task.offset /\ task'.data = task.data
    BY <1>9 DEF SkipRecipient, PickRecipient, TypeOK, Task
  <2>3. \A e \in Client : InFlight(e)' => InFlight(e)
    BY <2>1 DEF InFlight
  <2> QED
    BY <2>1, <2>2, <2>3, <1>g, <1>q, <1>r, <1>s, TaskKept
<1>10. ASSUME NEW d \in Client, SendToRecipient(d) PROVE FaithInv'
  <2>1. UNCHANGED <<req, pc, doc>>
        /\ Enqueue(d, Append_(task.offset, task.data))
    BY <1>10 DEF SendToRecipient
  <2>2. task'.offset = task.offset /\ task'.data = task.data
    BY <1>10 DEF SendToRecipient, TypeOK, Task
  <2>3. Faithful(doc', Append_(task.offset, task.data))
    BY <2>1 DEF FaithInv, Faithful, Append_
  <2>4. Append_(task.offset, task.data) \in Message
    BY MessageTypes DEF TypeOK, Task
  <2>5. StreamsFaithful'
    BY <1>f, <1>g, <2>1, <2>3, <2>4, FidelityEnqueue
  <2>6. \A e \in Client : InFlight(e)' => InFlight(e)
    BY <2>1 DEF InFlight
  <2> QED
    BY <2>1, <2>2, <2>5, <2>6, <1>g, <1>q, <1>r, TaskKept
<1>11. CASE UpdateUser \/ UNCHANGED vars
  <2>1. UNCHANGED <<stream, req, pc, task>>
    BY <1>11 DEF UpdateUser, vars
  <2>2. \A e \in Client : InFlight(e)' => InFlight(e)
    BY <2>1 DEF InFlight
  <2> QED
    BY <2>1, <2>2, <1>q, <1>r, <1>s, <1>t
<1>12. CASE UpdatePermissions
  <2>1. UNCHANGED <<req, pc, task>>
        /\ \E c \in Client : UNCHANGED stream \/ Enqueue(c, Error)
    BY <1>12 DEF UpdatePermissions
  <2>2. \A e \in Client : InFlight(e)' => InFlight(e)
    BY <2>1 DEF InFlight
  <2>3. StreamsFaithful'
    BY <1>f, <1>g, <1>s, <2>1, MessageTypes, FidelityEnqueue DEF Error
  <2> QED
    BY <2>1, <2>2, <2>3, <1>q, <1>r, <1>t
<1>13. CASE SignalDocumentDeleted
  <2>1. UNCHANGED <<req, pc, task>>
    BY <1>13 DEF SignalDocumentDeleted
  <2>2. \A e \in Client : InFlight(e)' => InFlight(e)
    BY <2>1 DEF InFlight
  <2>3. StreamsFaithful'
    BY <1>f, <1>g, <1>13, QuietSignal, FidelityKept DEF Quiet
  <2> QED
    BY <2>1, <2>2, <2>3, <1>q, <1>r, <1>t
<1>14. ~DeleteDocument
  BY DEF DeleteDocument, Undeleted
<1> QED
  BY <1>1, <1>2, <1>3, <1>4, <1>5, <1>6, <1>7, <1>8, <1>9, <1>10, <1>11,
     <1>12, <1>13, <1>14
     DEF Next, Reader, Hub, Management, Finished

\* The invariant holds of an empty store without clients.
LEMMA FaithInit == Init => DocInv /\ FaithInv
<1> SUFFICES ASSUME Init PROVE DocInv /\ FaithInv
  OBVIOUS
<1>1. DocInv
  BY DEF Init, DocInv, Exists, Undeleted
<1>2. StreamsFaithful
  BY DEF Init, StreamsFaithful, Messages
<1>3. Faithful(doc, task)
  BY DEF Init, Faithful, NoTask
<1> QED
  BY <1>1, <1>2, <1>3 DEF Init, FaithInv, InFlight

\* What is deleted stays deleted: there is one deleteDocument request.
LEMMA DeletedForGood ==
    ASSUME [Next]_vars, Undeleted' PROVE Undeleted
<1> SUFFICES ASSUME ~Undeleted PROVE UNCHANGED deletion
  BY DEF Undeleted
<1>1. ASSUME NEW c \in Client, Reader(c) PROVE UNCHANGED deletion
  BY <1>1 DEF Reader, GetToken, RefuseToken, OpenDocument, CreateDocument,
     RefuseDocument, AddClient, Receive, AppendDocument, AppendFails, Reply,
     MarkEnd, HubAppend, Disconnect, RemoveClient
<1>2. ASSUME Hub \/ Management PROVE UNCHANGED deletion
  BY <1>2 DEF Hub, SkipRecipient, PickRecipient, SendToRecipient, Management,
     UpdateUser, UpdatePermissions, SignalDocumentDeleted, DeleteDocument,
     Undeleted
<1>3. CASE UNCHANGED vars
  BY <1>3 DEF vars
<1> QED
  BY <1>1, <1>2, <1>3 DEF Next, Finished

\* Whatever a client is sent is what the document holds at the offset the
\* message gives (client.go:502, hub.go:165-169), for any number of clients,
\* requests of any size, permission updates and failures of the DocumentDB,
\* until the document is deleted.
THEOREM FidelityHolds == Spec => []Fidelity
<1> DEFINE Inv == TypeOK /\ (Undeleted => DocInv /\ FaithInv)
<1>1. Init => Inv
  BY InitType, FaithInit
<1>2. Inv /\ [Next]_vars => Inv'
  <2> SUFFICES ASSUME Inv, [Next]_vars PROVE Inv'
    OBVIOUS
  <2>1. TypeOK'
    BY TypeStep
  <2>2. ASSUME Undeleted' PROVE (DocInv /\ FaithInv)'
    BY <2>1, <2>2, DeletedForGood, GrowsStep, FaithStep
  <2> QED
    BY <2>1, <2>2
<1>3. Inv => Fidelity
  BY DEF FaithInv, StreamsFaithful, Fidelity
<1> QED
  BY <1>1, <1>2, <1>3, PTL DEF Spec

-----------------------------------------------------------------------------
(***************************************************************************)
(* Acknowledged changes.  Whether an ACK is true depends on what becomes   *)
(* of client.writePermission between the test that drops the data and the  *)
(* choice of the answer (client.go:572, 580): the theorems are about       *)
(* servers on which updateUser never gives "w".                            *)
(***************************************************************************)
NeverGranted == \A flags \in NewPermissions : "w" \notin flags

\* A writer's request asks for what it stores.
Asked ==
    /\ \A c \in Client, flags \in SUBSET Flag :
          <<c, flags>> \in notices => "w" \notin flags
    /\ \A c \in Client : pc[c] \in {"store", "reply"} /\ c \in writers =>
          req[c].data = req[c].sent

\* m carries what document d holds up to the position m gives.
Confirms(d, m) ==
    /\ Len(m.data) <= m.offset
    /\ \A i \in 1..Len(m.data) :
          /\ m.offset - Len(m.data) + i <= Len(d)
          /\ m.data[i] = d[m.offset - Len(m.data) + i]

AcksTrue == \A c \in Client : \A i \in Messages(c, "ack") :
                Confirms(doc, stream[c][i])

\* The streams keep what they have.
Extends == \A c \in Client :
              /\ Len(stream[c]) <= Len(stream'[c])
              /\ \A i \in 1..Len(stream[c]) : stream'[c][i] = stream[c][i]

\* Message i of c's stream is new.
New(c, i) == ~(i \in 1..Len(stream[c]) /\ stream'[c][i] = stream[c][i])

\* The types of the messages that tell a client how long the document is.
Telling == {"append", "ack"}

\* What queueing m does to the streams.
LEMMA EnqueueNew ==
    ASSUME TypeOK, NEW c \in Client, NEW m \in Message, Enqueue(c, m)
    PROVE  /\ Extends
           /\ \A d \in Client : \A i \in 1..Len(stream'[d]) :
                 New(d, i) => d = c /\ stream'[d][i] = m
           /\ Len(stream'[c]) = Len(stream[c]) + 1
           /\ stream'[c][Len(stream[c]) + 1] = m
<1>1. /\ \A d \in Client : d # c => stream'[d] = stream[d]
      /\ Len(stream'[c]) = Len(stream[c]) + 1
      /\ stream'[c][Len(stream[c]) + 1] = m
      /\ \A i \in 1..Len(stream[c]) : stream'[c][i] = stream[c][i]
  BY EnqueueStep
<1>2. \A d \in Client : Len(stream[d]) \in Nat
  BY DEF TypeOK
<1>3. Extends
  BY <1>1, <1>2 DEF Extends
<1>4. ASSUME NEW d \in Client, NEW i \in 1..Len(stream'[d]), New(d, i)
      PROVE  d = c /\ stream'[d][i] = m
  <2>1. d = c
    BY <1>1, <1>4 DEF New
  <2>2. i \in 1..Len(stream[c]) \/ i = Len(stream[c]) + 1
    BY <1>1, <1>2, <1>4, <2>1
  <2> QED BY <1>1, <1>4, <2>1, <2>2 DEF New
<1> QED BY <1>1, <1>3, <1>4

\* No step takes messages back; errors and refusals tell nothing.
LEMMA StreamsExtend ==
    ASSUME TypeOK, [Next]_vars
    PROVE  /\ Extends
           /\ \A c \in Client : \A i \in 1..Len(stream'[c]) :
                 New(c, i) /\ stream'[c][i].type \in Telling =>
                    OpenDocument(c) \/ CreateDocument(c) \/ Reply(c) \/ SendToRecipient(c)
<1> DEFINE Goal ==
        /\ Extends
        /\ \A c \in Client : \A i \in 1..Len(stream'[c]) :
              New(c, i) /\ stream'[c][i].type \in Telling =>
                 OpenDocument(c) \/ CreateDocument(c) \/ Reply(c) \/ SendToRecipient(c)
<1>1. ASSUME UNCHANGED stream PROVE Goal
  <2>1. \A c \in Client : stream[c] \in Seq(Message) /\ stream'[c] = stream[c]
    BY <1>1 DEF TypeOK
  <2> QED BY <2>1 DEF Extends, New
<1>2. ASSUME NEW c \in Client, Enqueue(c, Error) PROVE Goal
  <2>1. Error.type \notin Telling /\ Error \in Message
    BY MessageTypes DEF Error, Telling
  <2> QED BY <1>2, <2>1, EnqueueNew
<1>3. ASSUME NEW c \in Client, NEW m \in Message, Enqueue(c, m),
             OpenDocument(c) \/ CreateDocument(c) \/ Reply(c) \/ SendToRecipient(c)
      PROVE  Goal
  BY <1>3, EnqueueNew
<1>4. ASSUME SignalDocumentDeleted PROVE Goal
  <2>1. Extends
    BY <1>4, QuietSignal DEF Quiet, Extends
  <2>2. ASSUME NEW c \in Client, NEW i \in 1..Len(stream'[c]), New(c, i)
        PROVE  stream'[c][i].type \notin Telling
    <3>1. stream[c] \in Seq(Message) /\ Len(stream[c]) \in Nat
      BY DEF TypeOK
    <3>2. stream'[c] = Append(stream[c], Error)
      BY <1>4, <2>2, <3>1 DEF SignalDocumentDeleted, New
    <3>3. stream'[c][i] = Error
      BY <2>2, <3>1, <3>2, MessageTypes, AppendProperties DEF New
    <3> QED BY <3>3 DEF Error, Telling
  <2> QED BY <2>1, <2>2
<1> HIDE DEF Goal
<1>5. ASSUME NEW c \in Client, OpenDocument(c) PROVE Goal
  <2>1. PICK offset \in Nat : Enqueue(c, Append_(offset, DocFrom(offset)))
    BY <1>5 DEF OpenDocument, TypeOK, Document
  <2>2. DocFrom(offset) \in Document
    BY <2>1 DEF DocFrom, Document, TypeOK
  <2> QED BY <1>3, <1>5, <2>1, <2>2, MessageTypes
<1>6. ASSUME NEW c \in Client, CreateDocument(c) PROVE Goal
  <2>1. PICK k \in Sizes : Enqueue(c, Append_(k, <<>>))
    BY <1>6 DEF CreateDocument
  <2>2. k \in Nat /\ <<>> \in Document
    BY SizesAssumption DEF Document
  <2> QED BY <1>3, <1>6, <2>1, <2>2, MessageTypes
<1>7. ASSUME NEW c \in Client, Reply(c) PROVE Goal
  <2>1. Verdict(c) \in MsgType
    BY DEF Verdict, MsgType, Request, Outcome, TypeOK
  <2>2. Answer(Verdict(c), req[c].end, req[c].sent) \in Message
    BY <2>1, MessageTypes DEF Request, TypeOK
  <2> QED BY <1>3, <1>7, <2>2 DEF Reply
<1>8. ASSUME NEW c \in Client, SendToRecipient(c) PROVE Goal
  <2>1. Append_(task.offset, task.data) \in Message
    BY MessageTypes DEF Task, TypeOK
  <2> QED BY <1>3, <1>8, <2>1 DEF SendToRecipient
<1>9. ASSUME NEW c \in Client,
             \/ RefuseToken(c) \/ RefuseDocument(c)
      PROVE  Goal
  BY <1>2, <1>9 DEF RefuseToken, RefuseDocument
<1>10. ASSUME NEW c \in Client,
             \/ GetToken(c) \/ AddClient(c) \/ Receive(c) \/ AppendDocument(c)
             \/ AppendFails(c) \/ MarkEnd(c) \/ HubAppend(c) \/ Disconnect(c)
             \/ RemoveClient(c) \/ SkipRecipient(c) \/ PickRecipient(c)
      PROVE  Goal
  BY <1>1, <1>10 DEF GetToken, AddClient, Receive, AppendDocument, AppendFails,
     MarkEnd, HubAppend, Disconnect, RemoveClient, SkipRecipient, PickRecipient
<1>11. ASSUME UpdateUser \/ DeleteDocument \/ UNCHANGED vars PROVE Goal
  BY <1>1, <1>11 DEF UpdateUser, DeleteDocument, vars
<1>12. ASSUME UpdatePermissions PROVE Goal
  <2>1. \E c \in Client : UNCHANGED stream \/ Enqueue(c, Error)
    BY <1>12 DEF UpdatePermissions
  <2> QED BY <1>1, <1>2, <2>1
<1>13. Goal
  BY <1>4, <1>5, <1>6, <1>7, <1>8, <1>9, <1>10, <1>11, <1>12
     DEF Next, Reader, Hub, Management, Finished
<1> QED BY <1>13 DEF Goal

LEMMA AskedInit == NeverGranted /\ Init => Asked /\ AcksTrue
BY DEF Init, Asked, AcksTrue, Messages

\* No step makes a writer of a client with a request.
LEMMA WritersStep ==
    ASSUME TypeOK, Asked, [Next]_vars, NEW c \in Client,
           c \in writers', c \notin writers
    PROVE  GetToken(c) \/ RefuseToken(c)
<1>1. ASSUME NEW d \in Client, GetToken(d) \/ RefuseToken(d)
      PROVE  GetToken(c) \/ RefuseToken(c)
  BY <1>1 DEF GetToken, RefuseToken, SetWriter
<1>2. ~UpdatePermissions
  BY DEF UpdatePermissions, SetWriter, Asked
<1>3. ASSUME NEW d \in Client,
             \/ OpenDocument(d) \/ CreateDocument(d) \/ RefuseDocument(d)
             \/ AddClient(d) \/ Receive(d) \/ AppendDocument(d) \/ AppendFails(d)
             \/ Reply(d) \/ MarkEnd(d) \/ HubAppend(d) \/ Disconnect(d)
             \/ RemoveClient(d) \/ SkipRecipient(d) \/ PickRecipient(d)
             \/ SendToRecipient(d)
      PROVE  FALSE
  BY <1>3 DEF OpenDocument, CreateDocument, RefuseDocument, AddClient, Receive,
     AppendDocument, AppendFails, Reply, MarkEnd, HubAppend, Disconnect,
     RemoveClient, SkipRecipient, PickRecipient, SendToRecipient
<1>4. ~(UpdateUser \/ SignalDocumentDeleted \/ DeleteDocument \/ UNCHANGED vars)
  BY DEF UpdateUser, SignalDocumentDeleted, DeleteDocument, vars
<1> QED
  BY <1>1, <1>2, <1>3, <1>4 DEF Next, Reader, Hub, Management, Finished

\* Only Receive makes a request, and only AppendDocument takes it to the answer.
LEMMA RequestStep ==
    ASSUME TypeOK, [Next]_vars, NEW c \in Client, pc'[c] \in {"store", "reply"}
    PROVE  \/ Receive(c)
           \/ pc[c] = "store" /\ AppendDocument(c)
           \/ pc'[c] = pc[c] /\ req'[c] = req[c] /\ ~GetToken(c) /\ ~RefuseToken(c)
<1>1. ASSUME NEW d \in Client,
             \/ GetToken(d) \/ RefuseToken(d) \/ OpenDocument(d) \/ CreateDocument(d)
             \/ RefuseDocument(d) \/ AddClient(d) \/ AppendFails(d)
             \/ Reply(d) \/ MarkEnd(d) \/ HubAppend(d) \/ Disconnect(d)
             \/ RemoveClient(d)
      PROVE  d # c /\ pc'[c] = pc[c] /\ req'[c] = req[c]
  <2>1. \E s \in Stage \ {"store", "reply"} : pc' = [pc EXCEPT ![d] = s]
    BY <1>1 DEF GetToken, RefuseToken, OpenDocument, CreateDocument, RefuseDocument,
       AddClient, AppendFails, Reply, MarkEnd, HubAppend, Disconnect,
       RemoveClient, Goto, Stage
  <2>2. d # c /\ pc'[c] = pc[c]
    BY <2>1 DEF TypeOK
  <2>3. UNCHANGED req \/ req' = [req EXCEPT ![d] = NoRequest]
    BY <1>1 DEF GetToken, RefuseToken, OpenDocument, CreateDocument, RefuseDocument,
       AddClient, AppendFails, Reply, MarkEnd, HubAppend, Disconnect,
       RemoveClient
  <2> QED BY <2>2, <2>3 DEF TypeOK
<1>2. ASSUME NEW d \in Client, Receive(d) \/ AppendDocument(d), d # c
      PROVE  pc'[c] = pc[c] /\ req'[c] = req[c]
  BY <1>2 DEF Receive, AppendDocument, Goto, TypeOK
<1>3. AppendDocument(c) => pc[c] = "store"
  BY DEF AppendDocument
<1>4. ASSUME NEW d \in Client,
             SkipRecipient(d) \/ PickRecipient(d) \/ SendToRecipient(d)
      PROVE  UNCHANGED <<pc, req>>
  BY <1>4 DEF SkipRecipient, PickRecipient, SendToRecipient
<1>5. ASSUME Management \/ UNCHANGED vars PROVE UNCHANGED <<pc, req>>
  BY <1>5 DEF Management, UpdateUser, UpdatePermissions, SignalDocumentDeleted,
     DeleteDocument, vars
<1>6. pc'[c] = pc[c] => ~GetToken(c) /\ ~RefuseToken(c)
  BY DEF GetToken, RefuseToken
<1> QED
  BY <1>1, <1>2, <1>3, <1>4, <1>5, <1>6 DEF Next, Reader, Hub, Finished

LEMMA AskedStep ==
    ASSUME NeverGranted, TypeOK, Asked, [Next]_vars
    PROVE  Asked'
<1>1. ASSUME NEW c \in Client, NEW flags \in SUBSET Flag, <<c, flags>> \in notices'
      PROVE  "w" \notin flags
  <2>1. <<c, flags>> \in notices \/ flags \in NewPermissions
    <3>1. CASE UpdateUser
      BY <1>1, <3>1 DEF UpdateUser
    <3>2. CASE ~UpdateUser
      <4>1. ASSUME NEW d \in Client, Reader(d) PROVE UNCHANGED notices
        BY <4>1 DEF Reader, GetToken, RefuseToken, OpenDocument, CreateDocument,
           RefuseDocument, AddClient, Receive, AppendDocument, AppendFails, Reply,
           MarkEnd, HubAppend, Disconnect, RemoveClient
      <4>2. ASSUME Hub \/ SignalDocumentDeleted \/ DeleteDocument \/ UNCHANGED vars
            PROVE  UNCHANGED notices
        BY <4>2 DEF Hub, SkipRecipient, PickRecipient, SendToRecipient,
           SignalDocumentDeleted, DeleteDocument, vars
      <4>3. UpdatePermissions => notices' \subseteq notices
        BY DEF UpdatePermissions
      <4> QED
        BY <1>1, <3>2, <4>1, <4>2, <4>3 DEF Next, Management, Finished
    <3> QED BY <3>1, <3>2
  <2> QED BY <2>1 DEF Asked, NeverGranted
<1>2. ASSUME NEW c \in Client, pc'[c] \in {"store", "reply"}, c \in writers'
      PROVE  req'[c].data = req'[c].sent
  <2>1. CASE Receive(c)
    <3>1. c \in writers
      BY <1>2, <2>1 DEF Receive
    <3>2. PICK offset, sent :
             req' = [req EXCEPT ![c] = [NoRequest EXCEPT !.offset = offset,
                                                         !.sent = sent,
                                                         !.data = sent]]
      BY <2>1, <3>1 DEF Receive
    <3> DEFINE r == [NoRequest EXCEPT !.offset = offset, !.sent = sent,
                                      !.data = sent]
    <3>3. r.data = sent /\ r.sent = sent
      BY DEF NoRequest
    <3>4. req' = [req EXCEPT ![c] = r]
      BY <3>2
    <3> HIDE DEF r
    <3>5. req'[c] = r
      BY <3>4 DEF TypeOK
    <3> QED BY <3>3, <3>5
  <2>2. CASE pc[c] = "store" /\ AppendDocument(c)
    <3>1. c \in writers
      BY <1>2, <2>2 DEF AppendDocument
    <3>2. req[c].data = req[c].sent
      BY <2>2, <3>1 DEF Asked
    <3> DEFINE failed == [req[c] EXCEPT !.end = Len(doc), !.outcome = "conflict"]
    <3>3. req[c] \in Request /\ DOMAIN req = Client
      BY DEF TypeOK
    <3>4. CASE req' = [req EXCEPT ![c].end = NewLength(c)]
      BY <3>2, <3>3, <3>4 DEF Request
    <3>5. CASE req' = [req EXCEPT ![c].outcome = "missing"]
      BY <3>2, <3>3, <3>5 DEF Request
    <3>6. CASE req' = [req EXCEPT ![c] = failed]
      <4>1. failed.data = req[c].data /\ failed.sent = req[c].sent
        BY <3>3 DEF Request
      <4> HIDE DEF failed
      <4> QED BY <3>2, <3>3, <3>6, <4>1
    <3> QED BY <2>2, <3>4, <3>5, <3>6 DEF AppendDocument
  <2>3. CASE pc'[c] = pc[c] /\ req'[c] = req[c] /\ ~GetToken(c) /\ ~RefuseToken(c)
    BY <1>2, <2>3, WritersStep DEF Asked
  <2> QED BY <1>2, <2>1, <2>2, <2>3, RequestStep
<1> QED BY <1>1, <1>2 DEF Asked

\* What was confirmed stays in the document.
LEMMA ConfirmsGrows ==
    ASSUME doc \in Document, doc' \in Document, Grows, NEW m \in Message,
           Confirms(doc, m)
    PROVE  Confirms(doc', m)
<1>1. m.offset \in Nat /\ Len(m.data) \in Nat /\ Len(doc) \in Nat /\ Len(doc') \in Nat
  BY DEF Message, Document
<1>2. ASSUME NEW i \in 1..Len(m.data)
      PROVE  /\ m.offset - Len(m.data) + i <= Len(doc')
             /\ m.data[i] = doc'[m.offset - Len(m.data) + i]
  <2>1. /\ m.offset - Len(m.data) + i <= Len(doc)
        /\ m.data[i] = doc[m.offset - Len(m.data) + i]
        /\ Len(m.data) <= m.offset
    BY DEF Confirms
  <2>2. m.offset - Len(m.data) + i \in 1..Len(doc)
    BY <1>1, <2>1
  <2> QED BY <1>1, <2>1, <2>2 DEF Grows
<1> QED BY <1>2 DEF Confirms

\* What Reply confirms is the request, which is in the document.
LEMMA ReplyConfirms ==
    ASSUME TypeOK, FaithInv, Asked, NEW c \in Client, Reply(c), Verdict(c) = "ack"
    PROVE  /\ InFlight(c) /\ req[c].sent = req[c].data
           /\ req[c].end = req[c].offset + Len(req[c].data)
           /\ Confirms(doc, Answer("ack", req[c].end, req[c].sent))
<1>1. pc[c] = "reply" /\ req[c].outcome = "ok" /\ c \in writers
  BY DEF Reply, Verdict, TypeOK, Request, Outcome
<1>2. /\ req[c].sent = req[c].data /\ InFlight(c)
      /\ Faithful(doc, req[c])
      /\ req[c].end = req[c].offset + Len(req[c].data)
  BY <1>1 DEF Asked, FaithInv, InFlight
<1>3. req[c].offset \in Nat /\ Len(req[c].data) \in Nat
  BY DEF TypeOK, Request, Document
<1>4. /\ req[c].end - Len(req[c].data) = req[c].offset
      /\ Len(req[c].data) <= req[c].end
  BY <1>2, <1>3
<1> QED BY <1>2, <1>4 DEF Confirms, Faithful, Answer

\* A new ACK is the answer to a request that was stored.
LEMMA NewAcks ==
    ASSUME TypeOK, [Next]_vars, NEW c \in Client, NEW i \in 1..Len(stream'[c]),
           New(c, i), stream'[c][i].type = "ack"
    PROVE  /\ Reply(c) /\ Verdict(c) = "ack"
           /\ stream'[c][i] = Answer("ack", req[c].end, req[c].sent)
<1>1. OpenDocument(c) \/ CreateDocument(c) \/ Reply(c) \/ SendToRecipient(c)
  BY StreamsExtend DEF Telling
<1>2. CASE Reply(c)
  <2>1. Verdict(c) \in MsgType
    BY DEF Verdict, MsgType, Request, Outcome, TypeOK
  <2>2. Answer(Verdict(c), req[c].end, req[c].sent) \in Message
    BY <2>1, MessageTypes DEF Request, TypeOK
  <2>3. stream'[c][i] = Answer(Verdict(c), req[c].end, req[c].sent)
    BY <1>2, <2>2, EnqueueNew DEF Reply
  <2>4. Verdict(c) = "ack"
    BY <2>3 DEF Answer
  <2> QED BY <1>2, <2>3, <2>4
<1>3. ASSUME NEW offset \in Nat, NEW data \in Document,
             Enqueue(c, Append_(offset, data))
      PROVE  FALSE
  <2>1. stream'[c][i] = Append_(offset, data)
    BY <1>3, MessageTypes, EnqueueNew
  <2> QED BY <2>1 DEF Append_
<1>4. ~OpenDocument(c)
  <2>1. \A offset \in Nat : DocFrom(offset) \in Document
    BY DEF DocFrom, Document, TypeOK
  <2>2. OpenDocument(c) =>
          \E offset \in Nat : Enqueue(c, Append_(offset, DocFrom(offset)))
    BY DEF OpenDocument, TypeOK, Document
  <2> QED BY <1>3, <2>1, <2>2
<1>5. ~CreateDocument(c)
  <2>1. CreateDocument(c) => \E k \in Nat : Enqueue(c, Append_(k, <<>>))
    BY SizesAssumption DEF CreateDocument
  <2>2. <<>> \in Document
    BY DEF Document
  <2> QED BY <1>3, <2>1, <2>2
<1>6. ~SendToRecipient(c)
  BY <1>3 DEF SendToRecipient, TypeOK, Task
<1> QED BY <1>1, <1>2, <1>4, <1>5, <1>6

LEMMA AcksStep ==
    ASSUME Undeleted', NeverGranted, TypeOK, TypeOK', DocInv, FaithInv, Asked,
           AcksTrue, [Next]_vars
    PROVE  AcksTrue'
<1> SUFFICES ASSUME NEW c \in Client, NEW i \in 1..Len(stream'[c]),
                    stream'[c][i].type = "ack"
             PROVE  Confirms(doc', stream'[c][i])
  BY DEF AcksTrue, Messages
<1>1. Grows /\ doc \in Document /\ doc' \in Document
  BY GrowsStep DEF TypeOK
<1>2. CASE ~New(c, i)
  <2>1. i \in 1..Len(stream[c]) /\ stream'[c][i] = stream[c][i]
    BY <1>2 DEF New
  <2>2. Confirms(doc, stream[c][i]) /\ stream[c][i] \in Message
    BY <2>1 DEF AcksTrue, Messages, TypeOK
  <2>3. Confirms(doc', stream[c][i])
    BY <1>1, <2>2, ConfirmsGrows
  <2> QED BY <2>1, <2>3
<1>3. CASE New(c, i)
  <2>1. /\ Reply(c) /\ Verdict(c) = "ack"
        /\ stream'[c][i] = Answer("ack", req[c].end, req[c].sent)
    BY <1>3, NewAcks
  <2>2. Confirms(doc, Answer("ack", req[c].end, req[c].sent))
    BY <2>1, ReplyConfirms
  <2>3. UNCHANGED doc
    BY <2>1 DEF Reply
  <2> QED BY <2>1, <2>2, <2>3
<1> QED BY <1>2, <1>3

\* In terms of the property: the data of an ACK is a piece of the document.
LEMMA ConfirmedIsPiece ==
    ASSUME TypeOK, NEW m \in Message, Confirms(doc, m)
    PROVE  m.data = SubSeq(doc, m.offset - Len(m.data) + 1, m.offset)
<1> DEFINE piece == SubSeq(doc, m.offset - Len(m.data) + 1, m.offset)
<1>1. m.offset \in Nat /\ Len(m.data) \in Nat /\ m.data \in Seq(Change)
      /\ Len(m.data) <= m.offset /\ doc \in Seq(Change)
  BY DEF Message, Document, TypeOK, Confirms
<1>2. \A i \in 1..Len(m.data) :
         /\ m.offset - Len(m.data) + i <= Len(doc)
         /\ m.data[i] = doc[m.offset - Len(m.data) + i]
  BY DEF Confirms
<1> DEFINE from == m.offset - Len(m.data) + 1
<1>3. /\ from \in Int /\ m.offset - from + 1 = Len(m.data)
      /\ \A i \in 1..Len(m.data) : from + i - 1 = m.offset - Len(m.data) + i
      /\ Len(m.data) = IF from <= m.offset THEN m.offset - from + 1 ELSE 0
  BY <1>1
<1>4. \A p \in from..m.offset : doc[p] \in Change
  <2> SUFFICES ASSUME NEW p \in from..m.offset PROVE doc[p] \in Change
    OBVIOUS
  <2> DEFINE i == p - from + 1
  <2>1. i \in 1..Len(m.data) /\ p = m.offset - Len(m.data) + i
    BY <1>1
  <2>2. p \in 1..Len(doc)
    BY <1>1, <1>2, <2>1
  <2> QED BY <1>1, <2>2
<1>5. piece = SubSeq(doc, from, m.offset)
  OBVIOUS
<1> HIDE DEF from, piece
<1>6. /\ SubSeq(doc, from, m.offset) \in Seq(Change)
      /\ Len(SubSeq(doc, from, m.offset)) =
             IF from <= m.offset THEN m.offset - from + 1 ELSE 0
      /\ \A i \in 1..(m.offset - from + 1) :
             SubSeq(doc, from, m.offset)[i] = doc[from + i - 1]
  <2>1. m.offset \in Int
    BY <1>1
  <2> QED BY <1>3, <1>4, <2>1, SubSeqProperties
<1>7. /\ piece \in Seq(Change) /\ Len(piece) = Len(m.data)
      /\ \A i \in 1..Len(m.data) : piece[i] = doc[from + i - 1]
  BY <1>3, <1>5, <1>6
<1>8. \A i \in 1..Len(m.data) : m.data[i] = piece[i]
  BY <1>2, <1>3, <1>7
<1>9. m.data = piece
  BY <1>1, <1>7, <1>8, SeqEqual
<1> QED BY <1>9 DEF piece

\* What an ACK confirms is in the document, exactly where the ACK says
\* (client.go:578-581), for any number of clients, requests of any size,
\* failures of the DocumentDB and permissions taken away at any moment, until
\* the document is deleted.
THEOREM AckedAreStored ==
    ASSUME NeverGranted PROVE Spec => []AckedIsStored
<1> DEFINE Inv == TypeOK /\ (Undeleted => DocInv /\ FaithInv /\ Asked /\ AcksTrue)
<1>1. Init => Inv
  BY InitType, FaithInit, AskedInit
<1>2. Inv /\ [Next]_vars => Inv'
  <2> SUFFICES ASSUME Inv, [Next]_vars PROVE Inv'
    OBVIOUS
  <2>1. TypeOK'
    BY TypeStep
  <2>2. ASSUME Undeleted' PROVE (DocInv /\ FaithInv /\ Asked /\ AcksTrue)'
    BY <2>1, <2>2, DeletedForGood, GrowsStep, FaithStep, AskedStep, AcksStep
  <2> QED
    BY <2>1, <2>2
<1>3. Inv => AckedIsStored
  <2> SUFFICES ASSUME Inv, Undeleted, NEW c \in Client, NEW i \in Messages(c, "ack")
               PROVE  stream[c][i].data
                        = SubSeq(doc, stream[c][i].offset - Len(stream[c][i].data) + 1,
                                 stream[c][i].offset)
    BY DEF AckedIsStored
  <2>1. Confirms(doc, stream[c][i])
    BY DEF AcksTrue
  <2>2. stream[c][i] \in Message
    BY DEF Messages, TypeOK
  <2> QED
    BY <2>1, <2>2, ConfirmedIsPiece
<1> QED
  BY <1>1, <1>2, <1>3, PTL DEF Spec

-----------------------------------------------------------------------------
(***************************************************************************)
(* NothingForgotten.  The hub skips a recipient whose lastEnd is beyond    *)
(* the offset of what it sends: it loses nothing only because lastEnd is   *)
(* the end of a message the recipient was sent, and because no message     *)
(* ends inside the data of a request.                                      *)
(***************************************************************************)

\* A client was told that the document ends at n.
IsTold(n) == \E c \in Client : \E i \in Messages(c, "append") \cup Messages(c, "ack") :
                 n = End(stream[c][i])

\* A request in flight, or the hub's task, is about the positions after a up to b.
IsBlock(a, b) ==
    \/ \E c \in Client : /\ InFlight(c)
                         /\ a = req[c].offset
                         /\ b = req[c].offset + Len(req[c].data)
    \/ a = task.offset /\ b = task.offset + Len(task.data)

IsEnd(n) == IsTold(n) \/ \E a \in Nat : IsBlock(a, n)

\* All ends are within the document, and none is inside a block.
Undivided == \A n \in Nat : IsEnd(n) =>
                 /\ n <= Len(doc)
                 /\ \A a, b \in Nat : IsBlock(a, b) => n <= a \/ b <= n

\* A client has been told of what its lastEnd says, or will say.
LastTold == \A c \in Client, n \in Nat \ {0} :
                \/ lastEnd[c] = n
                \/ pc[c] = "mark" /\ req[c].end = n
                => ReachedBy(c, n)

\* Position p is in a change that was acknowledged and is on its way to d.
Underway(d, p) ==
    \/ \E b \in Client \ {d} : /\ pc[b] \in {"mark", "publish"}
                               /\ p \in Span(req[b])
    \/ d \in task.todo \cup task.sending /\ p \in Span(task)

\* The hub sends to one recipient at a time.
OneSending == \A d, e \in task.sending : d = e

\* What has been acknowledged has reached a client of the session or is on its way.
Announced ==
    \A c \in Client, d \in registered : \A i \in Messages(c, "ack") :
        \A p \in AckedSpan(stream[c][i]) :
            p > joinLen[d] => ReachedBy(d, p) \/ Underway(d, p)

\* A message tells its reader of every position up to its end.
LEMMA ReachedEnd ==
    ASSUME NEW c \in Client, NEW i \in 1..Len(stream[c]), stream[c][i].type \in Telling,
           NEW p, p <= End(stream[c][i])
    PROVE  ReachedBy(c, p)
BY DEF ReachedBy, Messages, Telling

LEMMA ReachedKept ==
    ASSUME TypeOK, Extends, NEW d \in Client, NEW p, ReachedBy(d, p)
    PROVE  ReachedBy(d, p)'
<1>1. PICK i \in 1..Len(stream[d]) : /\ stream[d][i].type \in Telling
                                     /\ End(stream[d][i]) >= p
  BY DEF ReachedBy, Messages, Telling
<1>2. i \in 1..Len(stream'[d]) /\ stream'[d][i] = stream[d][i]
  <2>1. Len(stream[d]) \in Nat /\ Len(stream[d]) <= Len(stream'[d])
    BY DEF TypeOK, Extends
  <2> QED BY <2>1 DEF Extends
<1> QED BY <1>1, <1>2 DEF ReachedBy, Messages, Telling, End

LEMMA ReachedEnqueue ==
    ASSUME TypeOK, NEW c \in Client, NEW m \in Message, m.type \in Telling,
           Enqueue(c, m), NEW p, p <= End(m)
    PROVE  ReachedBy(c, p)'
<1>1. /\ Len(stream'[c]) = Len(stream[c]) + 1
      /\ stream'[c][Len(stream[c]) + 1] = m
  BY EnqueueNew
<1>2. Len(stream[c]) + 1 \in 1..Len(stream'[c])
  BY <1>1 DEF TypeOK
<1> QED BY <1>1, <1>2 DEF ReachedBy, Messages, Telling, End

\* Ends and blocks are positions.
LEMMA EndTypes ==
    ASSUME TypeOK
    PROVE  /\ \A m \in Message : End(m) \in Nat
           /\ \A r \in Request : /\ r.offset \in Nat /\ r.end \in Nat
                                 /\ r.offset + Len(r.data) \in Nat
           /\ task.offset \in Nat /\ task.offset + Len(task.data) \in Nat
           /\ Len(doc) \in Nat
<1>1. ASSUME NEW m \in Message PROVE End(m) \in Nat
  BY DEF Message, End, Document
<1>2. ASSUME NEW r \in Request
      PROVE  r.offset \in Nat /\ r.end \in Nat /\ r.offset + Len(r.data) \in Nat
  BY DEF Request, Document
<1>3. /\ task.offset \in Nat /\ task.offset + Len(task.data) \in Nat
      /\ Len(doc) \in Nat
  BY DEF TypeOK, Task, Document
<1> QED BY <1>1, <1>2, <1>3

\* The snapshot reaches to the end of the document.
LEMMA SnapshotEnd ==
    ASSUME TypeOK, NEW offset \in 0..Len(doc)
    PROVE  /\ Append_(offset, DocFrom(offset)) \in Message
           /\ End(Append_(offset, DocFrom(offset))) = Len(doc)
<1>1. doc \in Seq(Change) /\ Len(doc) \in Nat /\ offset \in Nat
  BY DEF TypeOK, Document
<1>2. DocFrom(offset) \in Seq(Change) /\ Len(DocFrom(offset)) = Len(doc) - offset
  BY <1>1, SubSeqProperties DEF DocFrom
<1>3. Append_(offset, DocFrom(offset)) \in Message
  BY <1>1, <1>2, MessageTypes DEF Document
<1>4. End(Append_(offset, DocFrom(offset))) = offset + (Len(doc) - offset)
  BY <1>2 DEF End, Append_
<1> QED BY <1>1, <1>3, <1>4

\* A new message ends where the document ends or where a block does.
LEMMA NewEnds ==
    ASSUME TypeOK, FaithInv, Asked, [Next]_vars, NEW c \in Client,
           NEW i \in 1..Len(stream'[c]), New(c, i), stream'[c][i].type \in Telling
    PROVE  IsEnd(End(stream'[c][i])) \/ End(stream'[c][i]) = Len(doc')
<1>1. CASE OpenDocument(c)
  <2>1. PICK offset \in 0..Len(doc) : Enqueue(c, Append_(offset, DocFrom(offset)))
    BY <1>1 DEF OpenDocument, TypeOK, Document
  <2>2. stream'[c][i] = Append_(offset, DocFrom(offset))
    BY <2>1, SnapshotEnd, EnqueueNew
  <2>3. doc' = doc
    BY <1>1 DEF OpenDocument
  <2> QED BY <2>2, <2>3, SnapshotEnd
<1>2. CASE CreateDocument(c)
  <2>1. PICK k \in Sizes : doc' = Payload(c, 0, k) /\ Enqueue(c, Append_(k, <<>>))
    BY <1>2 DEF CreateDocument
  <2>2. k \in Nat /\ <<>> \in Document
    BY SizesAssumption DEF Document
  <2>3. stream'[c][i] = Append_(k, <<>>)
    BY <2>1, <2>2, MessageTypes, EnqueueNew
  <2>4. End(Append_(k, <<>>)) = k
    BY <2>2 DEF End, Append_
  <2>5. Len(doc') = k
    BY <2>1, <2>2, PayloadType
  <2> QED BY <2>3, <2>4, <2>5
<1>3. CASE Reply(c)
  <2>1. Verdict(c) \in MsgType
    BY DEF Verdict, MsgType, Request, Outcome, TypeOK
  <2>2. Answer(Verdict(c), req[c].end, req[c].sent) \in Message
    BY <2>1, MessageTypes DEF Request, TypeOK
  <2>3. stream'[c][i] = Answer(Verdict(c), req[c].end, req[c].sent)
    BY <1>3, <2>2, EnqueueNew DEF Reply
  <2>4. Verdict(c) = "ack"
    BY <2>3 DEF Answer, Telling, Verdict, TypeOK, Request, Outcome
  <2>5. InFlight(c) /\ req[c].end = req[c].offset + Len(req[c].data)
    BY <1>3, <2>4, ReplyConfirms
  <2>6. req[c].offset \in Nat
    BY DEF TypeOK, Request
  <2>7. IsBlock(req[c].offset, req[c].end)
    BY <2>5 DEF IsBlock
  <2>8. End(stream'[c][i]) = req[c].end
    BY <2>3, <2>4 DEF End, Answer
  <2> QED BY <2>6, <2>7, <2>8 DEF IsEnd
<1>4. CASE SendToRecipient(c)
  <2>1. Append_(task.offset, task.data) \in Message
    BY MessageTypes DEF Task, TypeOK
  <2>2. stream'[c][i] = Append_(task.offset, task.data)
    BY <1>4, <2>1, EnqueueNew DEF SendToRecipient
  <2>3. End(stream'[c][i]) = task.offset + Len(task.data)
    BY <2>2 DEF End, Append_
  <2>4. IsBlock(task.offset, task.offset + Len(task.data)) /\ task.offset \in Nat
    BY DEF IsBlock, TypeOK, Task
  <2> QED BY <2>3, <2>4 DEF IsEnd
<1> QED BY <1>1, <1>2, <1>3, <1>4, StreamsExtend

LEMMA ToldStep ==
    ASSUME TypeOK, FaithInv, Asked, [Next]_vars, NEW n, IsTold(n)'
    PROVE  IsEnd(n) \/ n = Len(doc')
<1>1. PICK c \in Client : \E i \in 1..Len(stream'[c]) :
         stream'[c][i].type \in Telling /\ n = End(stream'[c][i])
  BY DEF IsTold, Messages, Telling, End
<1>2. PICK i \in 1..Len(stream'[c]) :
         stream'[c][i].type \in Telling /\ n = End(stream'[c][i])
  BY <1>1
<1>3. CASE New(c, i)
  BY <1>2, <1>3, NewEnds
<1>4. CASE ~New(c, i)
  BY <1>2, <1>4 DEF New, IsEnd, IsTold, Messages, Telling
<1> QED BY <1>3, <1>4

\* A new block is what the step appended to the document.
LEMMA BlocksStep ==
    ASSUME Undeleted', TypeOK, TypeOK', FaithInv', [Next]_vars, NEW a, NEW b,
           IsBlock(a, b)'
    PROVE  IsBlock(a, b) \/ (a = Len(doc) /\ b = Len(doc'))
<1>1. ASSUME \A c \in Client : InFlight(c)' => InFlight(c) /\ req'[c] = req[c],
             task'.offset = task.offset, task'.data = task.data
      PROVE  IsBlock(a, b)
  BY <1>1 DEF IsBlock
<1>2. ASSUME NEW c \in Client, AppendDocument(c)
      PROVE  IsBlock(a, b) \/ (a = Len(doc) /\ b = Len(doc'))
  <2>1. UNCHANGED task /\ \A d \in Client \ {c} : req'[d] = req[d]
    BY <1>2 DEF AppendDocument, TypeOK
  <2>2. \A d \in Client \ {c} : InFlight(d)' => InFlight(d)
    BY <1>2 DEF AppendDocument, InFlight, Goto, TypeOK
  <2>3. ASSUME InFlight(c)'
        PROVE  /\ req'[c].offset = Len(doc)
               /\ req'[c].offset + Len(req'[c].data) = Len(doc')
    <3>1. doc' = doc \o req[c].data /\ req[c].offset = Len(doc)
          /\ req' = [req EXCEPT ![c].end = NewLength(c)]
      <4> DEFINE failed == [req[c] EXCEPT !.end = Len(doc), !.outcome = "conflict"]
      <4>1. pc'[c] = "reply" /\ req'[c].outcome = "ok"
        BY <1>2, <2>3 DEF AppendDocument, InFlight, Goto, TypeOK
      <4>2. req' # [req EXCEPT ![c].outcome = "missing"]
        BY <4>1 DEF TypeOK, Request
      <4>3. req' # [req EXCEPT ![c] = failed]
        <5>1. failed.outcome = "conflict"
          BY DEF TypeOK, Request
        <5> HIDE DEF failed
        <5> QED BY <4>1, <5>1 DEF TypeOK
      <4> QED BY <1>2, <4>2, <4>3 DEF AppendDocument
    <3>2. req'[c].offset = req[c].offset /\ req'[c].data = req[c].data
      BY <3>1 DEF TypeOK, Request
    <3>3. req[c].data \in Document /\ doc \in Document
      BY DEF TypeOK, Request
    <3>4. Len(doc') = Len(doc) + Len(req[c].data)
      BY <3>1, <3>3, ConcatType
    <3> QED BY <3>1, <3>2, <3>4
  <2> QED BY <2>1, <2>2, <2>3 DEF IsBlock
<1>3. ASSUME NEW c \in Client, HubAppend(c) PROVE IsBlock(a, b)
  <2>1. \A d \in Client : InFlight(d)' => InFlight(d) /\ req'[d] = req[d]
    BY <1>3 DEF HubAppend, InFlight, Goto, TypeOK
  <2>2. /\ task'.offset = req[c].offset /\ task'.data = req[c].data
        /\ InFlight(c)
    BY <1>3 DEF HubAppend, InFlight
  <2> QED BY <2>1, <2>2 DEF IsBlock
<1>4. ASSUME NEW c \in Client, Receive(c) PROVE IsBlock(a, b)
  <2>1. \A d \in Client : InFlight(d)' => InFlight(d) /\ req'[d] = req[d]
    BY <1>4 DEF Receive, InFlight, Goto, TypeOK
  <2>2. UNCHANGED task
    BY <1>4 DEF Receive
  <2> QED BY <1>1, <2>1, <2>2
<1>5. ASSUME NEW c \in Client, Reply(c) PROVE IsBlock(a, b)
  <2>1. Verdict(c) = "ack" => req[c].outcome = "ok"
    BY DEF Verdict, TypeOK, Request, Outcome
  <2>2. \A d \in Client : InFlight(d)' => InFlight(d) /\ req'[d] = req[d]
    BY <1>5, <2>1 DEF Reply, InFlight, Goto, TypeOK
  <2>3. UNCHANGED task
    BY <1>5 DEF Reply
  <2> QED BY <1>1, <2>2, <2>3
<1>6. ASSUME NEW c \in Client,
             \/ GetToken(c) \/ RefuseToken(c) \/ OpenDocument(c) \/ CreateDocument(c)
             \/ RefuseDocument(c) \/ AddClient(c) \/ AppendFails(c) \/ MarkEnd(c)
             \/ Disconnect(c) \/ RemoveClient(c)
      PROVE  IsBlock(a, b)
  <2>1. UNCHANGED <<task, req>>
    BY <1>6 DEF GetToken, RefuseToken, OpenDocument, CreateDocument, RefuseDocument,
       AddClient, AppendFails, MarkEnd, Disconnect, RemoveClient
  <2>2. \A d \in Client : InFlight(d)' => InFlight(d)
    BY <1>6 DEF GetToken, RefuseToken, OpenDocument, CreateDocument, RefuseDocument,
       AddClient, AppendFails, MarkEnd, Disconnect, RemoveClient, InFlight, Goto, TypeOK
  <2> QED BY <1>1, <2>1, <2>2
<1>7. ASSUME NEW d \in Client,
             SkipRecipient(d) \/ PickRecipient(d) \/ SendToRecipient(d)
      PROVE  IsBlock(a, b)
  <2>1. UNCHANGED <<pc, req>>
    BY <1>7 DEF SkipRecipient, PickRecipient, SendToRecipient
  <2>2. task'.offset = task.offset /\ task'.data = task.data
    BY <1>7 DEF SkipRecipient, PickRecipient, SendToRecipient, TypeOK, Task
  <2> QED BY <1>1, <2>1, <2>2 DEF InFlight
<1>8. ASSUME Management \/ UNCHANGED vars PROVE IsBlock(a, b)
  <2>1. UNCHANGED <<pc, req, task>>
    BY <1>8 DEF Management, UpdateUser, UpdatePermissions, SignalDocumentDeleted,
       DeleteDocument, vars
  <2> QED BY <1>1, <2>1 DEF InFlight
<1> QED
  BY <1>2, <1>3, <1>4, <1>5, <1>6, <1>7, <1>8 DEF Next, Reader, Hub, Finished

LEMMA UndividedStep ==
    ASSUME Undeleted', TypeOK, TypeOK', DocInv, FaithInv, Asked, Undivided, [Next]_vars
    PROVE  Undivided'
<1>1. Grows /\ FaithInv' /\ Len(doc) \in Nat /\ Len(doc') \in Nat
  BY GrowsStep, FaithStep DEF TypeOK, Document
<1>2. ASSUME NEW n \in Nat, IsEnd(n)' PROVE IsEnd(n) \/ n = Len(doc')
  <2>1. CASE IsTold(n)'
    BY <2>1, ToldStep
  <2>2. CASE ~IsTold(n)'
    <3>1. PICK a \in Nat : IsBlock(a, n)'
      BY <1>2, <2>2 DEF IsEnd
    <3>2. IsBlock(a, n) \/ (a = Len(doc) /\ n = Len(doc'))
      BY <1>1, <3>1, BlocksStep
    <3> QED BY <3>2 DEF IsEnd
  <2> QED BY <2>1, <2>2
<1>3. ASSUME NEW n \in Nat, IsEnd(n)'
      PROVE  /\ n <= Len(doc')
             /\ \A a, b \in Nat : IsBlock(a, b)' => n <= a \/ b <= n
  <2>1. CASE n = Len(doc')
    <3>1. ASSUME NEW a \in Nat, NEW b \in Nat, IsBlock(a, b)' PROVE b <= n
      <4>1. IsBlock(a, b) => b <= Len(doc)
        BY DEF Undivided, IsEnd
      <4>2. IsBlock(a, b) \/ (a = Len(doc) /\ b = Len(doc'))
        BY <1>1, <3>1, BlocksStep
      <4> QED BY <1>1, <2>1, <4>1, <4>2 DEF Grows
    <3> QED BY <2>1, <3>1
  <2>2. CASE IsEnd(n)
    <3>1. n <= Len(doc) /\ \A a, b \in Nat : IsBlock(a, b) => n <= a \/ b <= n
      BY <2>2 DEF Undivided
    <3>2. ASSUME NEW a \in Nat, NEW b \in Nat, IsBlock(a, b)' PROVE n <= a \/ b <= n
      BY <1>1, <3>1, <3>2, BlocksStep
    <3> QED BY <1>1, <3>1, <3>2 DEF Grows
  <2> QED BY <1>2, <1>3, <2>1, <2>2
<1> QED BY <1>3 DEF Undivided

LEMMA LastToldStep ==
    ASSUME TypeOK, LastTold, [Next]_vars
    PROVE  LastTold'
<1> SUFFICES ASSUME NEW c \in Client, NEW n \in Nat \ {0},
                    lastEnd'[c] = n \/ (pc'[c] = "mark" /\ req'[c].end = n)
             PROVE  ReachedBy(c, n)'
  BY DEF LastTold
<1>1. ASSUME lastEnd[c] = n \/ (pc[c] = "mark" /\ req[c].end = n) PROVE ReachedBy(c, n)'
  <2>1. ReachedBy(c, n)
    BY <1>1 DEF LastTold
  <2> QED BY <2>1, ReachedKept, StreamsExtend
<1>2. CASE OpenDocument(c)
  <2>1. PICK offset \in 0..Len(doc) : Enqueue(c, Append_(offset, DocFrom(offset)))
    BY <1>2 DEF OpenDocument, TypeOK, Document
  <2>2. n = Len(doc)
    BY <1>2 DEF OpenDocument, Goto, TypeOK
  <2>3. n <= End(Append_(offset, DocFrom(offset)))
    BY <2>1, <2>2, SnapshotEnd
  <2>4. Append_(offset, DocFrom(offset)).type \in Telling
    BY DEF Append_, Telling
  <2> QED BY <2>1, <2>3, <2>4, SnapshotEnd, ReachedEnqueue
<1>3. CASE CreateDocument(c)
  <2>1. PICK k \in Sizes : /\ Enqueue(c, Append_(k, <<>>))
                           /\ lastEnd' = [lastEnd EXCEPT ![c] = k]
    BY <1>3 DEF CreateDocument
  <2>2. n = k
    BY <1>3, <2>1 DEF CreateDocument, Goto, TypeOK
  <2>3. Append_(k, <<>>) \in Message /\ Append_(k, <<>>).type \in Telling
    <3>1. k \in Nat /\ <<>> \in Document
      BY SizesAssumption DEF Document
    <3> QED BY <3>1, MessageTypes DEF Append_, Telling
  <2>4. n <= End(Append_(k, <<>>))
    BY <2>2 DEF End, Append_
  <2> QED BY <2>1, <2>3, <2>4, ReachedEnqueue
<1>4. CASE Reply(c)
  <2> DEFINE m == Answer(Verdict(c), req[c].end, req[c].sent)
  <2>1. CASE Verdict(c) = "ack"
    <3>1. m \in Message /\ m.type \in Telling /\ End(m) = req[c].end
      <4>1. Verdict(c) \in MsgType
        BY <2>1 DEF MsgType
      <4> QED BY <2>1, <4>1, MessageTypes DEF Answer, Telling, End, TypeOK, Request
    <3>2. Enqueue(c, m) /\ UNCHANGED <<req, lastEnd>>
      BY <1>4 DEF Reply
    <3> HIDE DEF m
    <3>3. CASE req[c].end = n
      BY <3>1, <3>2, <3>3, ReachedEnqueue
    <3> QED BY <1>1, <3>2, <3>3
  <2>2. CASE Verdict(c) # "ack"
    <3>1. pc'[c] # "mark" /\ UNCHANGED lastEnd
      BY <1>4, <2>2 DEF Reply, Goto, TypeOK
    <3> QED BY <1>1, <3>1
  <2> QED BY <2>1, <2>2
<1>5. CASE SendToRecipient(c)
  <2>1. Append_(task.offset, task.data) \in Message
    BY MessageTypes DEF Task, TypeOK
  <2>2. /\ Append_(task.offset, task.data).type \in Telling
        /\ End(Append_(task.offset, task.data)) = task.offset + Len(task.data)
    BY DEF Append_, Telling, End
  <2>3. CASE n = task.offset + Len(task.data)
    BY <1>5, <2>1, <2>2, <2>3, ReachedEnqueue DEF SendToRecipient
  <2>4. CASE n # task.offset + Len(task.data)
    <3>1. lastEnd'[c] # n /\ UNCHANGED <<pc, req>>
      BY <1>5, <2>4 DEF SendToRecipient, TypeOK
    <3> QED BY <1>1, <3>1
  <2> QED BY <2>3, <2>4
<1>6. CASE MarkEnd(c)
  <2>1. lastEnd'[c] = req[c].end /\ pc[c] = "mark" /\ pc'[c] # "mark"
    BY <1>6 DEF MarkEnd, Goto, TypeOK
  <2> QED BY <1>1, <2>1
<1>7. ASSUME NEW d \in Client, d # c,
             \/ OpenDocument(d) \/ CreateDocument(d) \/ Reply(d)
             \/ SendToRecipient(d) \/ MarkEnd(d)
      PROVE  ReachedBy(c, n)'
  <2>1. pc'[c] = pc[c] /\ lastEnd'[c] = lastEnd[c] /\ UNCHANGED req
    BY <1>7 DEF OpenDocument, CreateDocument, Reply, SendToRecipient, MarkEnd, Goto, TypeOK
  <2> QED BY <1>1, <2>1
<1>8. ASSUME NEW d \in Client,
             \/ GetToken(d) \/ RefuseToken(d) \/ RefuseDocument(d) \/ AddClient(d)
             \/ Receive(d) \/ AppendDocument(d) \/ AppendFails(d) \/ HubAppend(d)
             \/ Disconnect(d) \/ RemoveClient(d)
      PROVE  ReachedBy(c, n)'
  <2>1. UNCHANGED lastEnd
    BY <1>8 DEF GetToken, RefuseToken, RefuseDocument, AddClient, Receive,
       AppendDocument, AppendFails, HubAppend, Disconnect, RemoveClient
  <2>2. \E s \in Stage \ {"mark"} : pc' = [pc EXCEPT ![d] = s]
    BY <1>8 DEF GetToken, RefuseToken, RefuseDocument, AddClient, Receive,
       AppendDocument, AppendFails, HubAppend, Disconnect, RemoveClient, Goto, Stage
  <2>3. pc'[c] = "mark" => c # d /\ pc[c] = "mark"
    BY <2>2 DEF TypeOK
  <2>4. c # d => req'[c] = req[c]
    BY <1>8 DEF GetToken, RefuseToken, RefuseDocument, AddClient, Receive,
       AppendDocument, AppendFails, HubAppend, Disconnect, RemoveClient, TypeOK
  <2> QED BY <1>1, <2>1, <2>3, <2>4
<1>9. ASSUME NEW d \in Client, SkipRecipient(d) \/ PickRecipient(d)
      PROVE  ReachedBy(c, n)'
  BY <1>1, <1>9 DEF SkipRecipient, PickRecipient
<1>10. ASSUME Management \/ UNCHANGED vars PROVE ReachedBy(c, n)'
  <2>1. UNCHANGED <<pc, req, lastEnd>>
    BY <1>10 DEF Management, UpdateUser, UpdatePermissions, SignalDocumentDeleted,
       DeleteDocument, vars
  <2> QED BY <1>1, <2>1
<1> QED
  BY <1>2, <1>3, <1>4, <1>5, <1>6, <1>7, <1>8, <1>9, <1>10
     DEF Next, Reader, Hub, Finished

\* Only the hub's own steps, and what it is handed, change its task.
LEMMA TaskStep ==
    ASSUME [Next]_vars
    PROVE  \/ UNCHANGED task
           \/ \E e \in Client : \/ HubAppend(e) \/ SkipRecipient(e)
                                \/ PickRecipient(e) \/ SendToRecipient(e)
<1>1. ASSUME NEW e \in Client,
             \/ GetToken(e) \/ RefuseToken(e) \/ OpenDocument(e) \/ CreateDocument(e)
             \/ RefuseDocument(e) \/ AddClient(e) \/ Receive(e) \/ AppendDocument(e)
             \/ AppendFails(e) \/ Reply(e) \/ MarkEnd(e) \/ Disconnect(e)
             \/ RemoveClient(e)
      PROVE  UNCHANGED task
  BY <1>1 DEF GetToken, RefuseToken, OpenDocument, CreateDocument, RefuseDocument,
     AddClient, Receive, AppendDocument, AppendFails, Reply, MarkEnd, Disconnect,
     RemoveClient
<1>2. ASSUME Management \/ UNCHANGED vars PROVE UNCHANGED task
  BY <1>2 DEF Management, UpdateUser, UpdatePermissions, SignalDocumentDeleted,
     DeleteDocument, vars
<1> QED BY <1>1, <1>2 DEF Next, Reader, Hub, Finished

LEMMA OneSendingStep ==
    ASSUME TypeOK, OneSending, [Next]_vars PROVE OneSending'
<1>1. ASSUME NEW e \in Client, HubAppend(e) PROVE OneSending'
  BY <1>1 DEF HubAppend, OneSending
<1>2. ASSUME NEW e \in Client,
             SkipRecipient(e) \/ PickRecipient(e) \/ SendToRecipient(e)
      PROVE OneSending'
  <2>1. \/ task' = [task EXCEPT !.todo = @ \ {e}] /\ task.sending = {}
        \/ task' = [task EXCEPT !.todo = @ \ {e}, !.sending = {e}]
        \/ task' = [task EXCEPT !.sending = {}]
    BY <1>2 DEF SkipRecipient, PickRecipient, SendToRecipient
  <2>2. task'.sending = {} \/ task'.sending = {e}
    BY <2>1 DEF TypeOK, Task
  <2> QED
    BY <2>2 DEF OneSending
<1> QED BY <1>1, <1>2, TaskStep DEF OneSending

\* A request that was acknowledged stays until its reader hands it to the hub.
LEMMA HolderStep ==
    ASSUME TypeOK, [Next]_vars, NEW b \in Client, pc[b] \in {"mark", "publish"}
    PROVE  HubAppend(b) \/ (pc'[b] \in {"mark", "publish"} /\ req'[b] = req[b])
<1>1. ASSUME NEW d \in Client, d # b, Reader(d) PROVE pc'[b] = pc[b] /\ req'[b] = req[b]
  BY <1>1 DEF Reader, GetToken, RefuseToken, OpenDocument, CreateDocument,
     RefuseDocument, AddClient, Receive, AppendDocument, AppendFails, Reply, MarkEnd,
     HubAppend, Disconnect, RemoveClient, Goto, TypeOK
<1>2. MarkEnd(b) => pc'[b] = "publish" /\ req'[b] = req[b]
  BY DEF MarkEnd, Goto, TypeOK
<1>3. ~(\/ GetToken(b) \/ RefuseToken(b) \/ OpenDocument(b) \/ CreateDocument(b)
        \/ RefuseDocument(b) \/ AddClient(b) \/ Receive(b) \/ AppendDocument(b)
        \/ AppendFails(b) \/ Reply(b) \/ Disconnect(b) \/ RemoveClient(b))
  BY DEF GetToken, RefuseToken, OpenDocument, CreateDocument, RefuseDocument,
     AddClient, Receive, AppendDocument, AppendFails, Reply, Disconnect, RemoveClient
<1>4. ASSUME Hub \/ Management \/ UNCHANGED vars PROVE UNCHANGED <<pc, req>>
  BY <1>4 DEF Hub, SkipRecipient, PickRecipient, SendToRecipient, Management,
     UpdateUser, UpdatePermissions, SignalDocumentDeleted, DeleteDocument, vars
<1> QED BY <1>1, <1>2, <1>3, <1>4 DEF Next, Reader, Finished

\* A recipient that is skipped has been told of all that it is not sent.
LEMMA SkippedHas ==
    ASSUME TypeOK, Undivided, LastTold, NEW d \in Client, Stale(d),
           NEW p \in Span(task)
    PROVE  ReachedBy(d, p)
<1>1. lastEnd[d] \in Nat \ {0} /\ task.offset < lastEnd[d]
  BY DEF Stale, TypeOK, Task
<1>2. ReachedBy(d, lastEnd[d])
  BY <1>1 DEF LastTold
<1>3. PICK i \in 1..Len(stream[d]) : /\ stream[d][i].type \in Telling
                                     /\ End(stream[d][i]) >= lastEnd[d]
  BY <1>2 DEF ReachedBy, Messages, Telling
<1> DEFINE n == End(stream[d][i])
<1>4. n \in Nat /\ IsEnd(n)
  <2>1. stream[d][i] \in Message
    BY DEF TypeOK
  <2> QED BY <1>3, <2>1, EndTypes DEF IsEnd, IsTold, Messages, Telling
<1>5. n >= lastEnd[d]
  BY <1>3
<1> HIDE DEF n
<1>6. IsBlock(task.offset, task.offset + Len(task.data))
  BY DEF IsBlock
<1>7. n <= task.offset \/ task.offset + Len(task.data) <= n
  BY <1>4, <1>6, EndTypes DEF Undivided
<1>8. p <= n
  BY <1>1, <1>4, <1>5, <1>7, EndTypes DEF Span
<1> QED BY <1>3, <1>8, ReachedEnd DEF n

\* What is under way to a client of the session stays so until it arrives.
LEMMA UnderwayStep ==
    ASSUME TypeOK, Undivided, LastTold, OneSending, [Next]_vars,
           NEW d \in Client, d \in registered, NEW p, Underway(d, p)
    PROVE  ReachedBy(d, p)' \/ Underway(d, p)'
<1>1. ASSUME NEW b \in Client \ {d}, pc[b] \in {"mark", "publish"}, p \in Span(req[b])
      PROVE  Underway(d, p)'
  <2>1. CASE HubAppend(b)
    <3>1. /\ d \in task'.todo
          /\ task'.offset = req[b].offset /\ task'.data = req[b].data
      BY <2>1 DEF HubAppend
    <3> QED BY <1>1, <3>1 DEF Underway, Span
  <2>2. CASE pc'[b] \in {"mark", "publish"} /\ req'[b] = req[b]
    BY <1>1, <2>2 DEF Underway, Span
  <2> QED BY <1>1, <2>1, <2>2, HolderStep
<1>2. ASSUME d \in task.todo \cup task.sending, p \in Span(task)
      PROVE  ReachedBy(d, p)' \/ Underway(d, p)'
  <2>1. ASSUME d \in task'.todo \cup task'.sending,
               task'.offset = task.offset, task'.data = task.data
        PROVE  Underway(d, p)'
    BY <1>2, <2>1 DEF Underway, Span
  <2>2. CASE UNCHANGED task
    BY <1>2, <2>1, <2>2
  <2>3. ASSUME NEW e \in Client, HubAppend(e) PROVE FALSE
    BY <1>2, <2>3 DEF HubAppend, HubIdle
  <2>4. ASSUME NEW e \in Client, SkipRecipient(e)
        PROVE  ReachedBy(d, p)' \/ Underway(d, p)'
    <3>1. CASE e = d
      <4>1. ReachedBy(d, p)
        BY <1>2, <2>4, <3>1, SkippedHas DEF SkipRecipient
      <4> QED BY <4>1, ReachedKept, StreamsExtend
    <3>2. CASE e # d
      BY <1>2, <2>1, <2>4, <3>2 DEF SkipRecipient, TypeOK, Task
    <3> QED BY <3>1, <3>2
  <2>5. ASSUME NEW e \in Client, PickRecipient(e) PROVE Underway(d, p)'
    BY <1>2, <2>1, <2>5 DEF PickRecipient, TypeOK, Task
  <2>6. ASSUME NEW e \in Client, SendToRecipient(e)
        PROVE  ReachedBy(d, p)' \/ Underway(d, p)'
    <3>1. CASE e = d
      <4>1. /\ Append_(task.offset, task.data) \in Message
            /\ Append_(task.offset, task.data).type \in Telling
        BY MessageTypes DEF Task, TypeOK, Append_, Telling
      <4>2. End(Append_(task.offset, task.data)) = task.offset + Len(task.data)
        BY DEF Append_, End
      <4>3. p <= End(Append_(task.offset, task.data))
        BY <1>2, <4>2 DEF Span
      <4> QED BY <2>6, <3>1, <4>1, <4>3, ReachedEnqueue DEF SendToRecipient
    <3>2. CASE e # d
      <4>1. d \in task.todo
        BY <1>2, <2>6, <3>2 DEF SendToRecipient, OneSending
      <4> QED BY <2>1, <2>6, <4>1 DEF SendToRecipient, TypeOK, Task
    <3> QED BY <3>1, <3>2
  <2> QED BY <2>2, <2>3, <2>4, <2>5, <2>6, TaskStep
<1> QED BY <1>1, <1>2 DEF Underway

\* Clients enter the session at the end of the document.
LEMMA RegisteredStep ==
    ASSUME TypeOK, [Next]_vars, NEW d \in Client, d \in registered'
    PROVE  \/ d \in registered /\ joinLen'[d] = joinLen[d]
           \/ joinLen'[d] = Len(doc)
<1>1. ASSUME NEW c \in Client, AddClient(c)
      PROVE  \/ d \in registered /\ joinLen'[d] = joinLen[d]
             \/ joinLen'[d] = Len(doc)
  BY <1>1 DEF AddClient, TypeOK
<1>2. ASSUME NEW c \in Client,
             \/ GetToken(c) \/ RefuseToken(c) \/ OpenDocument(c) \/ CreateDocument(c)
             \/ RefuseDocument(c) \/ Receive(c) \/ AppendDocument(c)
             \/ AppendFails(c) \/ Reply(c) \/ MarkEnd(c) \/ HubAppend(c)
             \/ Disconnect(c) \/ RemoveClient(c)
             \/ SkipRecipient(c) \/ PickRecipient(c) \/ SendToRecipient(c)
      PROVE  registered' \subseteq registered /\ UNCHANGED joinLen
  BY <1>2 DEF GetToken, RefuseToken, OpenDocument, CreateDocument, RefuseDocument,
     Receive, AppendDocument, AppendFails, Reply, MarkEnd, HubAppend, Disconnect,
     RemoveClient, SkipRecipient, PickRecipient, SendToRecipient
<1>3. ASSUME Management \/ UNCHANGED vars PROVE UNCHANGED <<registered, joinLen>>
  BY <1>3 DEF Management, UpdateUser, UpdatePermissions, SignalDocumentDeleted,
     DeleteDocument, vars
<1> QED BY <1>1, <1>2, <1>3 DEF Next, Reader, Hub, Finished

\* The length an ACK reports is an end.
LEMMA AckEnd ==
    ASSUME TypeOK, Undivided, NEW c \in Client, NEW i \in 1..Len(stream[c]),
           stream[c][i].type = "ack"
    PROVE  stream[c][i].offset <= Len(doc)
<1>1. stream[c][i] \in Message
  BY DEF TypeOK
<1>2. End(stream[c][i]) = stream[c][i].offset /\ stream[c][i].offset \in Nat
  BY <1>1 DEF End, Message
<1>3. IsEnd(stream[c][i].offset)
  BY <1>2 DEF IsEnd, IsTold, Messages
<1> QED BY <1>2, <1>3 DEF Undivided

LEMMA AnnouncedStep ==
    ASSUME TypeOK, FaithInv, Asked, Undivided, LastTold, OneSending, Announced,
           [Next]_vars, registered' \subseteq Client
    PROVE  Announced'
<1> SUFFICES ASSUME NEW c \in Client, NEW d \in registered',
                    NEW i \in 1..Len(stream'[c]), stream'[c][i].type = "ack",
                    NEW p \in AckedSpan(stream'[c][i]), p > joinLen'[d]
             PROVE  ReachedBy(d, p)' \/ Underway(d, p)'
  BY DEF Announced, Messages, AckedSpan
<1>1. CASE New(c, i)
  <2> DEFINE m == Answer("ack", req[c].end, req[c].sent)
  <2>1. Reply(c) /\ Verdict(c) = "ack" /\ stream'[c][i] = m
    BY <1>1, NewAcks
  <2>2. m \in Message /\ m.type \in Telling /\ End(m) = req[c].end
    BY MessageTypes DEF Answer, Telling, End, TypeOK, Request, MsgType
  <2>3. Enqueue(c, m) /\ UNCHANGED req /\ pc'[c] = "mark"
    BY <2>1 DEF Reply, Goto, TypeOK
  <2>4. /\ req[c].sent = req[c].data
        /\ req[c].end = req[c].offset + Len(req[c].data)
    BY <2>1, ReplyConfirms
  <2>5. req[c].offset \in Nat /\ Len(req[c].data) \in Nat
    <3>1. req[c] \in Request
      BY DEF TypeOK
    <3> QED BY <3>1 DEF Request, Document
  <2>6. p \in Span(req[c]) /\ p <= req[c].end
    BY <2>1, <2>4, <2>5 DEF AckedSpan, Span, Answer
  <2> HIDE DEF m
  <2>7. CASE d = c
    BY <2>2, <2>3, <2>6, <2>7, ReachedEnqueue
  <2>8. CASE d # c
    BY <2>3, <2>6, <2>8 DEF Underway, Span
  <2> QED BY <2>7, <2>8
<1>2. CASE ~New(c, i)
  <2>1. i \in 1..Len(stream[c]) /\ stream'[c][i] = stream[c][i]
    BY <1>2 DEF New
  <2>2. CASE d \in registered /\ joinLen'[d] = joinLen[d]
    <3>1. ReachedBy(d, p) \/ Underway(d, p)
      BY <2>1, <2>2 DEF Announced, Messages
    <3>2. d \in Client
      BY <2>2 DEF TypeOK
    <3> QED BY <2>2, <3>1, <3>2, ReachedKept, StreamsExtend, UnderwayStep
  <2>3. CASE joinLen'[d] = Len(doc)
    <3>1. stream[c][i].offset <= Len(doc)
      BY <2>1, AckEnd
    <3>2. p <= stream[c][i].offset /\ p > Len(doc)
      BY <2>1, <2>3 DEF AckedSpan
    <3>3. stream[c][i].offset \in Nat /\ p \in Int
      <4>1. stream[c][i] \in Message
        BY <2>1 DEF TypeOK
      <4>2. stream[c][i].offset \in Nat /\ Len(stream[c][i].data) \in Nat
        BY <4>1 DEF Message, Document
      <4> QED BY <2>1, <4>2 DEF AckedSpan
    <3> QED BY <3>1, <3>2, <3>3, EndTypes
  <2> QED BY <2>2, <2>3, RegisteredStep
<1> QED BY <1>1, <1>2

AckInv == Undivided /\ LastTold /\ OneSending /\ Announced

LEMMA AckInit == Init => AckInv
<1> SUFFICES ASSUME Init PROVE AckInv
  OBVIOUS
<1>1. /\ \A c \in Client : Len(stream[c]) = 0 /\ ~InFlight(c)
      /\ task.offset = 0 /\ Len(task.data) = 0 /\ Len(doc) = 0
      /\ task.sending = {}
  BY DEF Init, InFlight, NoTask
<1>2. Undivided
  BY <1>1 DEF Undivided, IsEnd, IsTold, IsBlock, Messages
<1>3. LastTold
  BY DEF Init, LastTold
<1>4. OneSending /\ Announced
  BY <1>1 DEF OneSending, Announced, Init
<1> QED BY <1>2, <1>3, <1>4 DEF AckInv

\* An acknowledged change is never forgotten on the way: each client that was
\* in the session when it was stored has been told of the document up to it, or
\* will be (client.go:581-583, hub.go:158-177), for any number of clients,
\* requests of any size, failures of the DocumentDB and permissions taken away
\* at any moment, until the document is deleted.
THEOREM NothingIsForgotten ==
    ASSUME NeverGranted PROVE Spec => []NothingForgotten
<1> DEFINE Inv == TypeOK /\ (Undeleted => DocInv /\ FaithInv /\ Asked /\ AckInv)
<1>1. Init => Inv
  BY InitType, FaithInit, AskedInit, AckInit
<1>2. Inv /\ [Next]_vars => Inv'
  <2> SUFFICES ASSUME Inv, [Next]_vars PROVE Inv'
    OBVIOUS
  <2>1. TypeOK'
    BY TypeStep
  <2>2. ASSUME Undeleted' PROVE (DocInv /\ FaithInv /\ Asked /\ AckInv)'
    <3>1. Undeleted
      BY <2>2, DeletedForGood
    <3>2. (DocInv /\ FaithInv /\ Asked)'
      BY <2>1, <2>2, <3>1, GrowsStep, FaithStep, AskedStep
    <3>3. Undivided' /\ LastTold' /\ OneSending'
      BY <2>1, <2>2, <3>1, UndividedStep, LastToldStep, OneSendingStep DEF AckInv
    <3>4. Announced'
      BY <2>1, <3>1, AnnouncedStep DEF AckInv, TypeOK
    <3> QED BY <3>2, <3>3, <3>4 DEF AckInv
  <2> QED
    BY <2>1, <2>2
<1>3. Inv => NothingForgotten
  <2> SUFFICES ASSUME Inv, Undeleted, NEW c \in Client, NEW d \in registered,
                      NEW p \in Acked(c), p > joinLen[d]
               PROVE  ReachedBy(d, p) \/ Coming(d, p)
    BY DEF NothingForgotten
  <2>1. ReachedBy(d, p) \/ Underway(d, p)
    BY DEF AckInv, Announced, Acked
  <2>2. Underway(d, p) => Coming(d, p)
    BY DEF Underway, Coming
  <2> QED BY <2>1, <2>2
<1> QED
  BY <1>1, <1>2, <1>3, PTL DEF Spec

-----------------------------------------------------------------------------
(***************************************************************************)
(* No position of a document is sent to a client twice as long as it is    *)
(* not deleted.  client.lastEnd, the guard against that, is written by two *)
(* goroutines and may go down; what makes the property true is that it     *)
(* never goes below the end of the client's snapshot, and that each stored *)
(* change is handed to the hub once.                                       *)
(***************************************************************************)
\* c has its snapshot and has not left.
Joined(c) == pc[c] \in {"add", "ready", "store", "reply", "mark", "publish",
                        "remove"}

\* Where c's snapshot ends.
Base(c) == End(stream[c][1])

\* Two blocks of the document share no position.
Apart(m, n) ==
    \/ Len(m.data) = 0
    \/ Len(n.data) = 0
    \/ m.offset + Len(m.data) <= n.offset
    \/ n.offset + Len(n.data) <= m.offset

\* A stream starts with the snapshot, within the document and below lastEnd.
StartInv ==
    \A c \in Client :
        /\ pc[c] \in {"token", "document"} => stream[c] = <<>>
        /\ Joined(c) => /\ Len(stream[c]) >= 1
                        /\ stream[c][1].type = "append"
                        /\ Base(c) <= Len(doc)
                        /\ Base(c) <= lastEnd[c]

MembersInv ==
    /\ \A c \in registered : Joined(c) /\ pc[c] # "add"
    /\ task.todo \cup task.sending \subseteq registered
    /\ task.todo \cap task.sending = {}

\* lastEnd will not go below the snapshot.
EndInv ==
    /\ \A c \in Client : InFlight(c) => Base(c) <= req[c].end
    /\ \A d \in task.sending : Base(d) <= task.offset

\* What is on its way is not there twice.
RequestsApart ==
    \A c \in Client : InFlight(c) =>
        /\ Apart(req[c], task)
        /\ \A d \in Client \ {c} : InFlight(d) => Apart(req[c], req[d])

\* What is on its way was sent to nobody, except within a snapshot.
SentApart ==
    \A d \in Client : \A i \in 2..Len(stream[d]) :
        stream[d][i].type = "append" =>
            /\ \A c \in Client : InFlight(c) => Apart(stream[d][i], req[c])
            /\ d \in task.todo \cup task.sending => Apart(stream[d][i], task)

StreamsApart ==
    \A c \in Client : \A i, j \in 1..Len(stream[c]) :
        (i # j /\ stream[c][i].type = "append" /\ stream[c][j].type = "append")
            => Apart(stream[c][i], stream[c][j])

OnceInv == /\ StartInv
           /\ MembersInv
           /\ EndInv
           /\ RequestsApart
           /\ SentApart
           /\ StreamsApart

\* The invariant holds of an empty store without clients.
LEMMA OnceInit == Init => OnceInv
<1> SUFFICES ASSUME Init PROVE OnceInv
  OBVIOUS
<1> USE DEF Init
<1>1. StartInv
  BY DEF StartInv, Joined
<1>2. MembersInv /\ EndInv
  BY DEF MembersInv, EndInv, InFlight, NoTask
<1>3. RequestsApart
  BY DEF RequestsApart, InFlight
<1>4. SentApart /\ StreamsApart
  BY DEF SentApart, StreamsApart
<1> QED
  BY <1>1, <1>2, <1>3, <1>4 DEF OnceInv

\* A step that sends nothing is quiet.
LEMMA QuietSame ==
    ASSUME TypeOK, UNCHANGED stream PROVE Quiet
BY DEF Quiet, TypeOK

\* So is an answer or an error.
LEMMA QuietEnqueue ==
    ASSUME TypeOK, NEW c \in Client, NEW m \in Message, Enqueue(c, m),
           m.type # "append"
    PROVE  Quiet
<1>1. /\ \A d \in Client : d # c => stream'[d] = stream[d]
      /\ Len(stream'[c]) = Len(stream[c]) + 1
      /\ stream'[c][Len(stream[c]) + 1] = m
      /\ \A i \in 1..Len(stream[c]) : stream'[c][i] = stream[c][i]
  BY EnqueueStep
<1>2. \A d \in Client : Len(stream[d]) \in Nat
  BY DEF TypeOK
<1>3. \A i \in 1..Len(stream'[c]) :
         i \in 1..Len(stream[c]) \/ i = Len(stream[c]) + 1
  BY <1>1, <1>2
<1> QED
  BY <1>1, <1>2, <1>3 DEF Quiet

\* A step that sends no append message keeps the invariant if nothing new is
\* on its way.
LEMMA QuietStep ==
    ASSUME TypeOK, TypeOK', OnceInv, Grows, Quiet,
           task'.offset = task.offset, task'.data = task.data,
           task'.todo \subseteq task.todo, task'.sending \subseteq task.sending,
           \A c \in Client : InFlight(c)' => InFlight(c) /\ req'[c] = req[c],
           \A c \in Client : Joined(c)' => Joined(c) /\ Base(c) <= lastEnd'[c],
           \A c \in Client : pc'[c] \in {"token", "document"} =>
               pc[c] \in {"token", "document"} /\ stream'[c] = stream[c],
           MembersInv'
    PROVE  OnceInv'
<1>0. /\ \A c \in Client : Len(stream[c]) \in Nat /\ Len(stream'[c]) \in Nat
      /\ Len(doc) \in Nat /\ Len(doc') \in Nat
  BY DEF TypeOK, Document
<1>1. ASSUME NEW c \in Client, Len(stream[c]) >= 1
      PROVE  stream'[c][1] = stream[c][1] /\ Base(c)' = Base(c)
  BY <1>0, <1>1 DEF Quiet, Base, End
<1>2. StartInv'
  <2>1. ASSUME NEW c \in Client, pc'[c] \in {"token", "document"}
        PROVE  stream'[c] = <<>>
    BY <2>1 DEF OnceInv, StartInv
  <2>2. ASSUME NEW c \in Client, Joined(c)'
        PROVE  /\ Len(stream'[c]) >= 1
               /\ stream'[c][1].type = "append"
               /\ Base(c)' <= Len(doc')
               /\ Base(c)' <= lastEnd'[c]
    <3>1. /\ Len(stream[c]) >= 1
          /\ stream[c][1].type = "append"
          /\ Base(c) <= Len(doc)
          /\ Base(c) <= lastEnd'[c]
      BY <2>2 DEF OnceInv, StartInv
    <3>2. Base(c) \in Nat
      <4>1. stream[c][1] \in Message
        BY <1>0, <3>1 DEF TypeOK
      <4> QED
        BY <4>1 DEF Base, End, Message, Document
    <3> QED
      BY <1>0, <1>1, <3>1, <3>2 DEF Quiet, Grows
  <2> QED
    BY <2>1, <2>2 DEF StartInv
<1>3. EndInv'
  <2>1. ASSUME NEW c \in Client, InFlight(c)' PROVE Base(c)' <= req'[c].end
    <3>1. InFlight(c) /\ req'[c] = req[c] /\ Base(c) <= req[c].end
      BY <2>1 DEF OnceInv, EndInv
    <3>2. Len(stream[c]) >= 1
      BY <3>1 DEF OnceInv, StartInv, InFlight, Joined
    <3> QED
      BY <1>1, <3>1, <3>2
  <2>2. ASSUME NEW d \in task'.sending PROVE Base(d)' <= task'.offset
    <3>1. d \in task.sending /\ Base(d) <= task.offset /\ d \in registered
      BY DEF OnceInv, EndInv, MembersInv
    <3>2. d \in Client /\ Len(stream[d]) >= 1
      BY <3>1 DEF OnceInv, StartInv, MembersInv, TypeOK
    <3> QED
      BY <1>1, <3>1, <3>2
  <2> QED
    BY <2>1, <2>2 DEF EndInv
<1>4. RequestsApart'
  BY DEF OnceInv, RequestsApart, Apart
<1>5. ASSUME NEW c \in Client, NEW i \in 1..Len(stream'[c]),
             stream'[c][i].type = "append"
      PROVE  i \in 1..Len(stream[c]) /\ stream'[c][i] = stream[c][i]
  BY <1>5 DEF Quiet
<1>6. SentApart'
  <2> SUFFICES ASSUME NEW d \in Client, NEW i \in 2..Len(stream'[d]),
                      stream'[d][i].type = "append"
               PROVE  /\ \A c \in Client : InFlight(c)' =>
                            Apart(stream'[d][i], req'[c])
                      /\ d \in task'.todo \cup task'.sending =>
                            Apart(stream'[d][i], task')
    BY DEF SentApart, Apart
  <2>1. i \in 2..Len(stream[d]) /\ stream'[d][i] = stream[d][i]
    BY <1>0, <1>5
  <2>2. /\ \A c \in Client : InFlight(c) => Apart(stream[d][i], req[c])
        /\ d \in task.todo \cup task.sending => Apart(stream[d][i], task)
    BY <2>1 DEF OnceInv, SentApart
  <2> QED
    BY <2>1, <2>2 DEF Apart
<1>7. StreamsApart'
  <2> SUFFICES ASSUME NEW c \in Client, NEW i \in 1..Len(stream'[c]),
                      NEW j \in 1..Len(stream'[c]), i # j,
                      stream'[c][i].type = "append",
                      stream'[c][j].type = "append"
               PROVE  Apart(stream'[c][i], stream'[c][j])
    BY DEF StreamsApart, Apart
  <2>1. /\ i \in 1..Len(stream[c]) /\ stream'[c][i] = stream[c][i]
        /\ j \in 1..Len(stream[c]) /\ stream'[c][j] = stream[c][j]
    BY <1>5
  <2> QED
    BY <2>1 DEF OnceInv, StreamsApart
<1> QED
  BY <1>2, <1>3, <1>4, <1>6, <1>7 DEF OnceInv

\* The steps that send no change and store none.
LEMMA QuietActions ==
    ASSUME Undeleted', TypeOK, TypeOK', DocInv, FaithInv, OnceInv,
           [Next]_vars, NEW c \in Client,
           \/ GetToken(c) \/ RefuseToken(c) \/ RefuseDocument(c) \/ AddClient(c)
           \/ Receive(c) \/ AppendFails(c) \/ Reply(c) \/ MarkEnd(c)
           \/ Disconnect(c) \/ RemoveClient(c) \/ SkipRecipient(c)
           \/ UpdateUser \/ UpdatePermissions \/ SignalDocumentDeleted
           \/ UNCHANGED vars
    PROVE  OnceInv'
<1>g. Grows
  BY GrowsStep
<1>b. \A d \in Client : Joined(d) => Base(d) <= lastEnd[d]
  BY DEF OnceInv, StartInv
<1>m. MembersInv
  BY DEF OnceInv
<1>1. CASE GetToken(c)
  <2> USE <1>1 DEF GetToken, Goto
  <2>1. Quiet
    BY QuietSame
  <2>2. MembersInv'
    BY <1>m DEF MembersInv, Joined, TypeOK
  <2>3. \A d \in Client : InFlight(d)' => InFlight(d)
    BY DEF InFlight, TypeOK
  <2>4. \A d \in Client : Joined(d)' => Joined(d)
    BY DEF Joined, TypeOK
  <2>5. \A d \in Client : pc'[d] \in {"token", "document"} =>
                             pc[d] \in {"token", "document"}
    BY DEF TypeOK
  <2> QED
    BY <1>b, <1>g, <2>1, <2>2, <2>3, <2>4, <2>5, QuietStep
<1>2. CASE RefuseToken(c) \/ RefuseDocument(c)
  <2> USE <1>2 DEF RefuseToken, RefuseDocument, Goto
  <2>0. Enqueue(c, Error)
    OBVIOUS
  <2>1. Quiet
    BY <2>0, QuietEnqueue, MessageTypes DEF Error
  <2>2. MembersInv'
    BY <1>m DEF MembersInv, Joined, TypeOK
  <2>3. \A d \in Client : InFlight(d)' => InFlight(d)
    BY DEF InFlight, TypeOK
  <2>4. \A d \in Client : Joined(d)' => Joined(d)
    BY DEF Joined, TypeOK
  <2>5. \A d \in Client : pc'[d] \in {"token", "document"} =>
           pc[d] \in {"token", "document"} /\ stream'[d] = stream[d]
    <3>1. pc' = [pc EXCEPT ![c] = "gone"]
      OBVIOUS
    <3>2. \A d \in Client : d # c => pc'[d] = pc[d] /\ stream'[d] = stream[d]
      BY <2>0, <3>1, EnqueueStep, MessageTypes
    <3> QED
      BY <3>1, <3>2 DEF TypeOK
  <2>6. UNCHANGED <<task, req, lastEnd>>
    OBVIOUS
  <2> QED
    BY <1>b, <1>g, <2>1, <2>2, <2>3, <2>4, <2>5, <2>6, QuietStep
<1>3. CASE AddClient(c) \/ AppendFails(c) \/ Disconnect(c) \/ RemoveClient(c)
  <2> USE <1>3 DEF AddClient, AppendFails, Disconnect, RemoveClient, Goto
  <2>1. Quiet
    BY QuietSame
  <2>2. MembersInv'
    BY <1>m DEF MembersInv, Joined, TypeOK, HubIdle
  <2>3. \A d \in Client : InFlight(d)' => InFlight(d)
    BY DEF InFlight, TypeOK
  <2>4. \A d \in Client : Joined(d)' => Joined(d)
    BY DEF Joined, TypeOK
  <2>5. \A d \in Client : pc'[d] \in {"token", "document"} =>
                             pc[d] \in {"token", "document"}
    BY DEF TypeOK
  <2>6. UNCHANGED <<task, req, lastEnd, stream>>
    OBVIOUS
  <2> QED
    BY <1>b, <1>g, <2>1, <2>2, <2>3, <2>4, <2>5, <2>6, QuietStep
<1>4. CASE Receive(c)
  <2> USE <1>4 DEF Receive, Goto
  <2>1. Quiet
    BY QuietSame
  <2>2. MembersInv'
    BY <1>m DEF MembersInv, Joined, TypeOK
  <2>3. \A d \in Client : InFlight(d)' => InFlight(d) /\ req'[d] = req[d]
    BY DEF InFlight, TypeOK
  <2>4. \A d \in Client : Joined(d)' => Joined(d)
    BY DEF Joined, TypeOK
  <2>5. \A d \in Client : pc'[d] \in {"token", "document"} =>
                             pc[d] \in {"token", "document"}
    BY DEF TypeOK
  <2>6. UNCHANGED <<task, lastEnd, stream>>
    OBVIOUS
  <2> QED
    BY <1>b, <1>g, <2>1, <2>2, <2>3, <2>4, <2>5, <2>6, QuietStep
<1>5. CASE Reply(c)
  <2> USE <1>5 DEF Reply, Goto
  <2>0. /\ Verdict(c) \in MsgType \ {"append"}
        /\ Verdict(c) = "ack" => req[c].outcome = "ok"
    BY DEF Verdict, MsgType, TypeOK, Request, Outcome
  <2>1. Quiet
    <3>1. Answer(Verdict(c), req[c].end, req[c].sent) \in Message
      BY <2>0, MessageTypes DEF TypeOK, Request
    <3> QED
      BY <2>0, <3>1, QuietEnqueue DEF Answer
  <2>2. MembersInv'
    BY <1>m DEF MembersInv, Joined, TypeOK
  <2>3. \A d \in Client : InFlight(d)' => InFlight(d)
    BY <2>0 DEF InFlight, TypeOK
  <2>4. \A d \in Client : Joined(d)' => Joined(d)
    BY DEF Joined, TypeOK
  <2>5. \A d \in Client : pc'[d] \in {"token", "document"} =>
           pc[d] \in {"token", "document"} /\ stream'[d] = stream[d]
    BY DEF TypeOK, Enqueue
  <2>6. UNCHANGED <<task, req, lastEnd>>
    OBVIOUS
  <2> QED
    BY <1>b, <1>g, <2>1, <2>2, <2>3, <2>4, <2>5, <2>6, QuietStep
<1>6. CASE MarkEnd(c)
  <2> USE <1>6 DEF MarkEnd, Goto
  <2>1. Quiet
    BY QuietSame
  <2>2. MembersInv'
    BY <1>m DEF MembersInv, Joined, TypeOK
  <2>3. \A d \in Client : InFlight(d)' => InFlight(d)
    BY DEF InFlight, TypeOK
  <2>4. \A d \in Client : Joined(d)' => Joined(d) /\ Base(d) <= lastEnd'[d]
    <3>1. Base(c) <= req[c].end
      BY DEF OnceInv, EndInv, InFlight
    <3> QED
      BY <1>b, <3>1 DEF Joined, TypeOK
  <2>5. \A d \in Client : pc'[d] \in {"token", "document"} =>
                             pc[d] \in {"token", "document"}
    BY DEF TypeOK
  <2>6. UNCHANGED <<task, req, stream>>
    OBVIOUS
  <2> QED
    BY <1>g, <2>1, <2>2, <2>3, <2>4, <2>5, <2>6, QuietStep
<1>7. CASE SkipRecipient(c)
  <2> USE <1>7 DEF SkipRecipient
  <2>1. Quiet
    BY QuietSame
  <2>2. /\ task'.offset = task.offset
        /\ task'.data = task.data
        /\ task'.todo = task.todo \ {c}
        /\ task'.sending = task.sending
    BY DEF TypeOK, Task
  <2>3. MembersInv'
    BY <1>m, <2>2 DEF MembersInv, Joined
  <2>4. UNCHANGED <<pc, req, lastEnd, stream>>
    OBVIOUS
  <2>5. \A d \in Client : (InFlight(d)' => InFlight(d)) /\ (Joined(d)' => Joined(d))
    BY <2>4 DEF InFlight, Joined
  <2> QED
    BY <1>b, <1>g, <2>1, <2>2, <2>3, <2>4, <2>5, QuietStep
<1>8. CASE UpdateUser \/ UpdatePermissions \/ UNCHANGED vars
  <2>1. UNCHANGED <<pc, req, lastEnd, task, registered>>
    BY <1>8 DEF UpdateUser, UpdatePermissions, vars
  <2>2. \/ UNCHANGED stream
        \/ \E d \in registered : Enqueue(d, Error)
    BY <1>8 DEF UpdateUser, UpdatePermissions, vars
  <2>3. Quiet
    BY <2>2, QuietSame, QuietEnqueue, MessageTypes DEF Error, TypeOK
  <2>4. MembersInv'
    BY <1>m, <2>1 DEF MembersInv, Joined
  <2>5. \A d \in Client : (InFlight(d)' => InFlight(d)) /\ (Joined(d)' => Joined(d))
    BY <2>1 DEF InFlight, Joined
  <2>6. \A d \in Client : pc'[d] \in {"token", "document"} =>
           pc[d] \in {"token", "document"} /\ stream'[d] = stream[d]
    BY <1>m, <2>1, <2>2 DEF MembersInv, Joined, Enqueue, TypeOK
  <2> QED
    BY <1>b, <1>g, <2>1, <2>3, <2>4, <2>5, <2>6, QuietStep
<1>9. CASE SignalDocumentDeleted
  <2>1. UNCHANGED <<pc, req, lastEnd, task, registered>>
    BY <1>9 DEF SignalDocumentDeleted
  <2>2. Quiet /\ \A d \in Client : d \notin registered => stream'[d] = stream[d]
    BY <1>9, QuietSignal
  <2>3. MembersInv'
    BY <1>m, <2>1 DEF MembersInv, Joined
  <2>4. \A d \in Client : (InFlight(d)' => InFlight(d)) /\ (Joined(d)' => Joined(d))
    BY <2>1 DEF InFlight, Joined
  <2>5. \A d \in Client : pc'[d] \in {"token", "document"} =>
           pc[d] \in {"token", "document"} /\ stream'[d] = stream[d]
    BY <1>m, <2>1, <2>2 DEF MembersInv, Joined
  <2> QED
    BY <1>b, <1>g, <2>1, <2>2, <2>3, <2>4, <2>5, QuietStep
<1> QED
  BY <1>1, <1>2, <1>3, <1>4, <1>5, <1>6, <1>7, <1>8, <1>9

\* What is faithful to the document lies within it.
LEMMA FaithfulWithin ==
    ASSUME NEW d \in Document, NEW m, m.offset \in Nat, m.data \in Document,
           Faithful(d, m)
    PROVE  Len(m.data) = 0 \/ m.offset + Len(m.data) <= Len(d)
BY DEF Faithful, Document

\* A client gets its snapshot.
LEMMA SnapshotStep ==
    ASSUME TypeOK, TypeOK', OnceInv, Grows, NEW c \in Client, NEW m \in Message,
           pc[c] = "document", Goto(c, "add"), Enqueue(c, m),
           m.type = "append", End(m) = Len(doc'),
           lastEnd' = [lastEnd EXCEPT ![c] = Len(doc')],
           UNCHANGED <<req, task, registered>>
    PROVE  OnceInv'
<1>0. /\ \A d \in Client : Len(stream[d]) \in Nat
      /\ Len(doc) \in Nat /\ Len(doc') \in Nat
  BY DEF TypeOK, Document
<1>1. stream[c] = <<>> /\ ~Joined(c) /\ ~InFlight(c) /\ c \notin registered
  BY DEF OnceInv, StartInv, MembersInv, Joined, InFlight
<1>2. /\ \A d \in Client : d # c => stream'[d] = stream[d]
      /\ Len(stream'[c]) = 1
      /\ stream'[c][1] = m
  <2>1. /\ \A d \in Client : d # c => stream'[d] = stream[d]
        /\ Len(stream'[c]) = Len(stream[c]) + 1
        /\ stream'[c][Len(stream[c]) + 1] = m
    BY EnqueueStep
  <2>2. Len(stream[c]) = 0
    BY <1>1
  <2> QED
    BY <2>1, <2>2
<1>3. /\ pc'[c] = "add" /\ ~InFlight(c)'
      /\ \A d \in Client : d # c => pc'[d] = pc[d]
      /\ lastEnd'[c] = Len(doc')
      /\ \A d \in Client : d # c => lastEnd'[d] = lastEnd[d]
  BY DEF Goto, TypeOK, InFlight
<1>4. \A d \in Client : InFlight(d)' => InFlight(d) /\ d # c
  BY <1>3 DEF InFlight
<1>5. \A d \in Client : d # c => Base(d)' = Base(d)
  BY <1>2 DEF Base, End
<1>6. StartInv'
  <2> SUFFICES ASSUME NEW d \in Client
               PROVE  /\ pc'[d] \in {"token", "document"} => stream'[d] = <<>>
                      /\ Joined(d)' => /\ Len(stream'[d]) >= 1
                                       /\ stream'[d][1].type = "append"
                                       /\ Base(d)' <= Len(doc')
                                       /\ Base(d)' <= lastEnd'[d]
    BY DEF StartInv
  <2>1. CASE d = c
    <3>1. Base(c)' = Len(doc')
      BY <1>2 DEF Base, End
    <3> QED
      BY <1>0, <1>2, <1>3, <2>1, <3>1
  <2>2. CASE d # c
    <3>1. pc'[d] = pc[d] /\ stream'[d] = stream[d] /\ Base(d)' = Base(d)
          /\ lastEnd'[d] = lastEnd[d] /\ (Joined(d)' => Joined(d))
      BY <1>2, <1>3, <1>5, <2>2 DEF Joined
    <3>2. pc[d] \in {"token", "document"} => stream[d] = <<>>
      BY DEF OnceInv, StartInv
    <3>3. Joined(d) => /\ Len(stream[d]) >= 1
                       /\ stream[d][1].type = "append"
                       /\ Base(d) <= Len(doc)
                       /\ Base(d) <= lastEnd[d]
      BY DEF OnceInv, StartInv
    <3>4. Joined(d) => Base(d) \in Nat
      <4>1. stream[d] \in Seq(Message)
        BY DEF TypeOK
      <4>2. Joined(d) => stream[d][1] \in Message
        BY <1>0, <3>3, <4>1
      <4> QED
        BY <4>2 DEF Base, End, Message, Document
    <3>5. Len(doc) <= Len(doc')
      BY DEF Grows
    <3>6. Joined(d) => Base(d) <= Len(doc')
      BY <1>0, <3>3, <3>4, <3>5
    <3> QED
      BY <3>1, <3>2, <3>3, <3>6
  <2> QED
    BY <2>1, <2>2
<1>7. MembersInv'
  BY <1>1, <1>3 DEF OnceInv, MembersInv, Joined, TypeOK
<1>8. EndInv'
  <2>1. ASSUME NEW d \in task.sending PROVE Base(d)' <= task.offset
    BY <1>1, <1>5 DEF OnceInv, EndInv, MembersInv, TypeOK
  <2> QED
    BY <1>4, <1>5, <2>1 DEF OnceInv, EndInv
<1>9. RequestsApart'
  BY <1>4 DEF OnceInv, RequestsApart, Apart
<1>10. SentApart'
  <2> SUFFICES ASSUME NEW d \in Client, NEW i \in 2..Len(stream'[d]),
                      stream'[d][i].type = "append"
               PROVE  /\ \A e \in Client : InFlight(e)' =>
                            Apart(stream'[d][i], req'[e])
                      /\ d \in task'.todo \cup task'.sending =>
                            Apart(stream'[d][i], task')
    BY DEF SentApart, Apart
  <2>1. d # c /\ stream'[d] = stream[d]
    BY <1>2
  <2> QED
    BY <1>4, <2>1 DEF OnceInv, SentApart
<1>11. StreamsApart'
  <2> SUFFICES ASSUME NEW d \in Client, NEW i \in 1..Len(stream'[d]),
                      NEW j \in 1..Len(stream'[d]), i # j,
                      stream'[d][i].type = "append",
                      stream'[d][j].type = "append"
               PROVE  Apart(stream'[d][i], stream'[d][j])
    BY DEF StreamsApart, Apart
  <2>1. d # c
    BY <1>2
  <2> QED
    BY <1>2, <2>1 DEF OnceInv, StreamsApart
<1> QED
  BY <1>6, <1>7, <1>8, <1>9, <1>10, <1>11 DEF OnceInv

\* A client gets its snapshot, of a document that is there or created.
LEMMA JoinStep ==
    ASSUME Undeleted', TypeOK, TypeOK', DocInv, OnceInv, [Next]_vars,
           NEW c \in Client, OpenDocument(c) \/ CreateDocument(c)
    PROVE  OnceInv'
<1>g. Grows
  BY GrowsStep
<1>1. CASE OpenDocument(c)
  <2>1. PICK offset \in 0..Len(doc) : Enqueue(c, Append_(offset, DocFrom(offset)))
    BY <1>1 DEF OpenDocument, TypeOK, Document
  <2>2. /\ DocFrom(offset) \in Document
        /\ Len(DocFrom(offset)) = Len(doc) - offset
    BY <2>1, SubSeqProperties DEF DocFrom, TypeOK, Document
  <2>3. /\ Append_(offset, DocFrom(offset)) \in Message
        /\ End(Append_(offset, DocFrom(offset))) = Len(doc)
    <3>1. offset \in Nat /\ Len(doc) \in Nat
      BY <2>1 DEF TypeOK, Document
    <3>2. Append_(offset, DocFrom(offset)) \in Message
      BY <2>2, <3>1, MessageTypes
    <3>3. End(Append_(offset, DocFrom(offset))) = offset + Len(DocFrom(offset))
      BY DEF End, Append_
    <3> QED
      BY <2>2, <3>1, <3>2, <3>3
  <2>4. Append_(offset, DocFrom(offset)).type = "append"
    BY DEF Append_
  <2> HIDE DEF Append_
  <2> QED
    BY <1>1, <1>g, <2>1, <2>3, <2>4, SnapshotStep DEF OpenDocument
<1>2. CASE CreateDocument(c)
  <2>1. PICK k \in Sizes : /\ doc' = Payload(c, 0, k)
                           /\ Enqueue(c, Append_(k, <<>>))
                           /\ lastEnd' = [lastEnd EXCEPT ![c] = k]
    BY <1>2 DEF CreateDocument
  <2>2. k \in Nat /\ <<>> \in Document /\ Len(<<>>) = 0
    BY SizesAssumption DEF Document
  <2>3. Len(doc') = k
    BY <2>1, <2>2, PayloadType
  <2>4. /\ Append_(k, <<>>) \in Message
        /\ End(Append_(k, <<>>)) = k
        /\ Append_(k, <<>>).type = "append"
    BY <2>2, MessageTypes DEF End, Append_
  <2> QED
    BY <1>2, <1>g, <2>1, <2>3, <2>4, SnapshotStep DEF CreateDocument
<1> QED
  BY <1>1, <1>2

\* Steps that leave the streams, lastEnd and the session alone keep StartInv
\* and StreamsApart.
LEMMA StillStreams ==
    ASSUME TypeOK, TypeOK', OnceInv, Grows, UNCHANGED <<stream, lastEnd>>,
           \A c \in Client : Joined(c)' => Joined(c),
           \A c \in Client : pc'[c] \in {"token", "document"} =>
                                pc[c] \in {"token", "document"}
    PROVE  /\ StartInv'
           /\ StreamsApart'
           /\ \A c \in Client : Base(c)' = Base(c)
           /\ \A c \in Client : Joined(c) => Base(c) \in Nat
<1>1. \A c \in Client : Base(c)' = Base(c)
  BY DEF Base, End
<1>2. StreamsApart'
  <2>1. StreamsApart /\ stream' = stream
    BY DEF OnceInv
  <2> QED
    BY <2>1 DEF StreamsApart, Apart
<1>3. \A c \in Client : Joined(c) => Base(c) \in Nat
  <2>1. \A c \in Client : Joined(c) => stream[c][1] \in Message
    BY DEF OnceInv, StartInv, TypeOK
  <2> QED
    BY <2>1 DEF Base, End, Message, Document
<1>4. Len(doc) \in Nat /\ Len(doc') \in Nat /\ Len(doc) <= Len(doc')
  BY DEF TypeOK, Document, Grows
<1>5. StartInv'
  BY <1>1, <1>3, <1>4 DEF OnceInv, StartInv
<1> QED
  BY <1>1, <1>2, <1>3, <1>5

\* What AppendDocument stores lies beyond everything sent or on its way.
LEMMA StoreStep ==
    ASSUME Undeleted', TypeOK, TypeOK', DocInv, FaithInv, OnceInv,
           [Next]_vars, NEW c \in Client, AppendDocument(c)
    PROVE  OnceInv'
<1>g. Grows
  BY GrowsStep
<1>f. FaithInv'
  BY FaithStep
<1>1. /\ UNCHANGED <<stream, lastEnd, registered, task>>
      /\ pc[c] = "store" /\ pc'[c] = "reply"
      /\ \A d \in Client : d # c => pc'[d] = pc[d] /\ req'[d] = req[d]
  BY DEF AppendDocument, Goto, TypeOK
<1>2. \A d \in Client : (Joined(d)' => Joined(d))
                        /\ (d # c /\ InFlight(d)' => InFlight(d))
  BY <1>1 DEF Joined, InFlight
<1>3. /\ StartInv' /\ StreamsApart'
      /\ \A d \in Client : Base(d)' = Base(d)
      /\ \A d \in Client : Joined(d) => Base(d) \in Nat
  BY <1>g, <1>1, <1>2, StillStreams
<1>4. MembersInv'
  BY <1>1 DEF OnceInv, MembersInv, Joined, TypeOK
<1>5. ASSUME InFlight(c)'
      PROVE  /\ req'[c].offset = Len(doc)
             /\ req'[c].end = Len(doc')
             /\ req'[c].end = req'[c].offset + Len(req'[c].data)
  <2>1. req'[c].outcome = "ok"
    BY <1>1, <1>5 DEF InFlight
  <2>2. \/ req' = [req EXCEPT ![c] = [req[c] EXCEPT !.outcome = "missing"]]
        \/ req' = [req EXCEPT ![c] = [req[c] EXCEPT !.end = Len(doc),
                                                    !.outcome = "conflict"]]
        \/ /\ req' = [req EXCEPT ![c] = [req[c] EXCEPT !.end = NewLength(c)]]
           /\ doc' = doc \o req[c].data
           /\ req[c].offset = Len(doc)
    BY DEF AppendDocument
  <2>3. req[c] \in Request /\ doc \in Document
    BY DEF TypeOK
  <2>4. \A r : req' = [req EXCEPT ![c] = r] => req'[c] = r
    BY DEF TypeOK
  <2>5. /\ [req[c] EXCEPT !.outcome = "missing"].outcome = "missing"
        /\ [req[c] EXCEPT !.end = Len(doc), !.outcome = "conflict"].outcome
              = "conflict"
    BY <2>3 DEF Request
  <2>6. /\ req'[c] = [req[c] EXCEPT !.end = NewLength(c)]
        /\ doc' = doc \o req[c].data
        /\ req[c].offset = Len(doc)
    BY <2>1, <2>2, <2>4, <2>5
  <2>7. /\ req'[c].offset = Len(doc)
        /\ req'[c].data = req[c].data
        /\ req'[c].end = NewLength(c)
    BY <2>3, <2>6 DEF Request
  <2>8. Len(doc') = NewLength(c)
    BY <2>3, <2>6, ConcatType DEF NewLength, Request
  <2> QED
    BY <2>7, <2>8 DEF NewLength
<1>6. EndInv'
  <2>1. InFlight(c)' => Base(c)' <= req'[c].end
    BY <1>1, <1>3, <1>5 DEF StartInv, Joined
  <2>2. \A d \in Client : InFlight(d)' => Base(d)' <= req'[d].end
    BY <1>1, <1>2, <1>3, <2>1 DEF OnceInv, EndInv
  <2>3. \A d \in task.sending : d \in Client
    BY DEF TypeOK, Task
  <2> QED
    BY <1>1, <1>3, <2>2, <2>3 DEF OnceInv, EndInv
<1>7. ASSUME NEW m, m.offset \in Nat, m.data \in Document, Faithful(doc, m),
             InFlight(c)'
      PROVE  Apart(req'[c], m) /\ Apart(m, req'[c])
  <2>1. Len(m.data) = 0 \/ m.offset + Len(m.data) <= Len(doc)
    BY <1>7, FaithfulWithin DEF TypeOK
  <2> QED
    BY <1>5, <1>7, <2>1 DEF Apart
<1>8. RequestsApart'
  <2>1. InFlight(c)' => Apart(req'[c], task')
    BY <1>1, <1>7 DEF FaithInv, TypeOK, Task
  <2>2. ASSUME NEW d \in Client, d # c, InFlight(d)', InFlight(c)'
        PROVE  Apart(req'[c], req'[d]) /\ Apart(req'[d], req'[c])
    <3>1. InFlight(d) /\ Faithful(doc, req[d]) /\ req'[d] = req[d]
      BY <1>1, <1>2, <2>2 DEF FaithInv
    <3>2. req[d].offset \in Nat /\ req[d].data \in Document
      BY DEF TypeOK, Request
    <3>3. Apart(req'[c], req[d]) /\ Apart(req[d], req'[c])
      BY <1>7, <2>2, <3>1, <3>2
    <3> QED
      BY <3>1, <3>3
  <2>3. ASSUME NEW d \in Client, d # c, InFlight(d)'
        PROVE  /\ Apart(req'[d], task')
               /\ \A e \in Client : e # d /\ e # c /\ InFlight(e)' =>
                     Apart(req'[d], req'[e])
    BY <1>1, <1>2, <2>3 DEF OnceInv, RequestsApart
  <2> QED
    BY <2>1, <2>2, <2>3 DEF RequestsApart, Apart
<1>9. SentApart'
  <2> SUFFICES ASSUME NEW d \in Client, NEW i \in 2..Len(stream'[d]),
                      stream'[d][i].type = "append"
               PROVE  /\ \A e \in Client : InFlight(e)' =>
                            Apart(stream'[d][i], req'[e])
                      /\ d \in task'.todo \cup task'.sending =>
                            Apart(stream'[d][i], task')
    BY DEF SentApart, Apart
  <2>1. stream'[d][i] = stream[d][i] /\ i \in 2..Len(stream[d])
    BY <1>1
  <2>a. stream[d] \in Seq(Message) /\ i \in 1..Len(stream[d])
    BY <2>1 DEF TypeOK
  <2>b. i \in Messages(d, "append")
    BY <2>1, <2>a DEF Messages
  <2>2. stream[d][i] \in Message /\ Faithful(doc, stream[d][i])
    <3>1. stream[d][i] \in Message
      BY <2>a
    <3>2. StreamsFaithful
      BY DEF FaithInv
    <3>3. Faithful(doc, stream[d][i])
      BY <2>b, <3>2 DEF StreamsFaithful
    <3> QED
      BY <3>1, <3>3
  <2>3. InFlight(c)' => Apart(stream[d][i], req'[c])
    BY <1>7, <2>2 DEF Message
  <2>4. \A e \in Client : e # c /\ InFlight(e)' => Apart(stream[d][i], req'[e])
    BY <1>1, <1>2, <2>1 DEF OnceInv, SentApart
  <2> QED
    BY <1>1, <2>1, <2>3, <2>4 DEF OnceInv, SentApart
<1> QED
  BY <1>3, <1>4, <1>6, <1>8, <1>9 DEF OnceInv

\* A stored change becomes the hub's task: it was on its way before.
LEMMA PublishStep ==
    ASSUME Undeleted', TypeOK, TypeOK', DocInv, OnceInv, [Next]_vars,
           NEW c \in Client, HubAppend(c)
    PROVE  OnceInv'
<1>g. Grows
  BY GrowsStep
<1>1. /\ UNCHANGED <<stream, lastEnd, registered>>
      /\ pc[c] = "publish" /\ pc'[c] = "ready"
      /\ \A d \in Client : d # c => pc'[d] = pc[d] /\ req'[d] = req[d]
      /\ task'.offset = req[c].offset /\ task'.data = req[c].data
      /\ task'.todo = registered \ {c} /\ task'.sending = {}
  BY DEF HubAppend, Goto, TypeOK
<1>2. InFlight(c) /\ \A d \in Client : (Joined(d)' => Joined(d))
                                  /\ (InFlight(d)' => InFlight(d) /\ d # c)
  BY <1>1 DEF Joined, InFlight
<1>3. /\ StartInv' /\ StreamsApart'
      /\ \A d \in Client : Base(d)' = Base(d)
  BY <1>g, <1>1, <1>2, StillStreams
<1>4. MembersInv'
  BY <1>1 DEF OnceInv, MembersInv, Joined, TypeOK
<1>5. EndInv'
  BY <1>1, <1>2, <1>3 DEF OnceInv, EndInv
<1>6. RequestsApart'
  <2> SUFFICES ASSUME NEW d \in Client, InFlight(d)'
               PROVE  /\ Apart(req'[d], task')
                      /\ \A e \in Client \ {d} : InFlight(e)' =>
                            Apart(req'[d], req'[e])
    BY DEF RequestsApart, Apart
  <2>1. d # c /\ InFlight(d) /\ req'[d] = req[d]
    BY <1>1, <1>2
  <2>2. Apart(req[d], req[c])
    BY <1>2, <2>1 DEF OnceInv, RequestsApart
  <2>3. Apart(req[d], task')
    BY <1>1, <2>2 DEF Apart
  <2> QED
    BY <1>1, <1>2, <2>1, <2>3 DEF OnceInv, RequestsApart
<1>7. SentApart'
  <2> SUFFICES ASSUME NEW d \in Client, NEW i \in 2..Len(stream'[d]),
                      stream'[d][i].type = "append"
               PROVE  /\ \A e \in Client : InFlight(e)' =>
                            Apart(stream'[d][i], req'[e])
                      /\ d \in task'.todo \cup task'.sending =>
                            Apart(stream'[d][i], task')
    BY DEF SentApart, Apart
  <2>1. \A e \in Client : InFlight(e) => Apart(stream[d][i], req[e])
    BY <1>1 DEF OnceInv, SentApart
  <2>2. Apart(stream[d][i], task')
    BY <1>1, <1>2, <2>1 DEF Apart
  <2> QED
    BY <1>1, <1>2, <2>1, <2>2
<1> QED
  BY <1>3, <1>4, <1>5, <1>6, <1>7 DEF OnceInv

\* The guard of enqueueAppend puts the task after the recipient's snapshot.
LEMMA PickStep ==
    ASSUME Undeleted', TypeOK, TypeOK', DocInv, OnceInv, [Next]_vars,
           NEW c \in Client, PickRecipient(c)
    PROVE  OnceInv'
<1>g. Grows
  BY GrowsStep
<1>1. /\ UNCHANGED <<stream, lastEnd, registered, pc, req>>
      /\ task'.offset = task.offset /\ task'.data = task.data
      /\ c \in task.todo /\ lastEnd[c] <= task.offset
      /\ task'.todo = task.todo \ {c} /\ task'.sending = {c}
  BY DEF PickRecipient, Stale, TypeOK, Task
<1>2. \A d \in Client : (Joined(d)' <=> Joined(d)) /\ (InFlight(d)' <=> InFlight(d))
  BY <1>1 DEF Joined, InFlight
<1>3. /\ StartInv' /\ StreamsApart'
      /\ \A d \in Client : Base(d)' = Base(d)
      /\ \A d \in Client : Joined(d) => Base(d) \in Nat
  BY <1>g, <1>1, <1>2, StillStreams
<1>4. MembersInv'
  BY <1>1, <1>2 DEF OnceInv, MembersInv, TypeOK
<1>5. EndInv'
  <2>1. Joined(c)
    BY <1>1 DEF OnceInv, MembersInv
  <2>2. Base(c) <= lastEnd[c]
    BY <2>1 DEF OnceInv, StartInv
  <2>3. Base(c) <= task.offset
    BY <1>1, <1>3, <2>1, <2>2 DEF TypeOK, Task
  <2> QED
    BY <1>1, <1>2, <1>3, <2>3 DEF OnceInv, EndInv
<1>6. \A n : Apart(n, task') <=> Apart(n, task)
  BY <1>1 DEF Apart
<1>7. RequestsApart'
  <2>1. RequestsApart
    BY DEF OnceInv
  <2> QED
    BY <1>1, <1>2, <1>6, <2>1 DEF RequestsApart
<1>8. SentApart'
  <2>1. SentApart /\ c \in task.todo
    BY <1>1 DEF OnceInv
  <2>2. task'.todo \cup task'.sending \subseteq task.todo \cup task.sending
    BY <1>1
  <2> QED
    BY <1>1, <1>2, <1>6, <2>1, <2>2 DEF SentApart
<1> QED
  BY <1>3, <1>4, <1>5, <1>7, <1>8 DEF OnceInv

\* A recipient gets the task's data: after its snapshot, and apart from all
\* that it was sent since.
LEMMA SendStep ==
    ASSUME Undeleted', TypeOK, TypeOK', DocInv, OnceInv, [Next]_vars,
           NEW c \in Client, SendToRecipient(c)
    PROVE  OnceInv'
<1> DEFINE m == Append_(task.offset, task.data)
<1>0. /\ \A d \in Client : Len(stream[d]) \in Nat
      /\ task.offset \in Nat /\ Len(task.data) \in Nat
      /\ task.offset + Len(task.data) \in Nat
      /\ Len(doc) \in Nat
  <2>1. \A d \in Client : Len(stream[d]) \in Nat
    BY DEF TypeOK
  <2>2. task.offset \in Nat /\ Len(task.data) \in Nat
    BY DEF TypeOK, Document, Task
  <2>3. Len(doc) \in Nat
    BY DEF TypeOK, Document
  <2> QED
    BY <2>1, <2>2, <2>3
<1>1. /\ UNCHANGED <<registered, pc, req, doc>>
      /\ task'.offset = task.offset /\ task'.data = task.data
      /\ c \in task.sending
      /\ task'.todo = task.todo /\ task'.sending = {}
      /\ lastEnd'[c] = task.offset + Len(task.data)
      /\ \A d \in Client : d # c => lastEnd'[d] = lastEnd[d]
  BY DEF SendToRecipient, TypeOK, Task
<1>2. /\ m \in Message /\ m.type = "append"
      /\ m.offset = task.offset /\ m.data = task.data
  BY MessageTypes DEF TypeOK, Task, Append_
<1> HIDE DEF m
<1>3. /\ \A d \in Client : d # c => stream'[d] = stream[d]
      /\ Len(stream'[c]) = Len(stream[c]) + 1
      /\ stream'[c][Len(stream[c]) + 1] = m
      /\ \A i \in 1..Len(stream[c]) : stream'[c][i] = stream[c][i]
  BY <1>2, EnqueueStep DEF SendToRecipient, m
<1>4. Joined(c) /\ Len(stream[c]) >= 1 /\ stream[c][1].type = "append"
      /\ Base(c) <= task.offset /\ c \notin task.todo
  BY <1>1 DEF OnceInv, MembersInv, StartInv, EndInv
<1>5. \A d \in Client : (Joined(d)' <=> Joined(d)) /\ (InFlight(d)' <=> InFlight(d))
  BY <1>1 DEF Joined, InFlight
<1>6. \A d \in Client : Joined(d) => stream'[d][1] = stream[d][1]
                                     /\ Base(d)' = Base(d)
  <2>1. \A d \in Client : stream'[d][1] = stream[d][1]
    BY <1>0, <1>3, <1>4
  <2> QED
    BY <2>1 DEF Base, End
<1>7. stream[c][1] \in Message /\ Base(c) \in Nat
  <2>1. stream[c][1] \in Message
    BY <1>0, <1>4 DEF TypeOK
  <2> QED
    BY <2>1 DEF Base, End, Message, Document
<1>8. StartInv'
  <2> SUFFICES ASSUME NEW d \in Client
               PROVE  /\ pc'[d] \in {"token", "document"} => stream'[d] = <<>>
                      /\ Joined(d)' => /\ Len(stream'[d]) >= 1
                                       /\ stream'[d][1].type = "append"
                                       /\ Base(d)' <= Len(doc')
                                       /\ Base(d)' <= lastEnd'[d]
    BY DEF StartInv
  <2>1. CASE d # c
    BY <1>1, <1>3, <1>5, <1>6, <2>1 DEF OnceInv, StartInv
  <2>2. CASE d = c
    <3>1. pc'[c] \notin {"token", "document"}
      BY <1>1, <1>4 DEF Joined
    <3>2. Base(c) <= lastEnd'[c]
      BY <1>0, <1>1, <1>4, <1>7
    <3>3. Base(c) <= Len(doc)
      BY <1>4 DEF OnceInv, StartInv
    <3>4. Len(stream'[c]) >= 1
      BY <1>0, <1>3, <1>4
    <3> QED
      BY <1>1, <1>4, <1>6, <2>2, <3>1, <3>2, <3>3, <3>4
  <2> QED
    BY <2>1, <2>2
<1>9. MembersInv'
  <2>1. registered \subseteq Client
    BY DEF TypeOK
  <2> QED
    BY <1>1, <1>5, <2>1 DEF OnceInv, MembersInv
<1>10. EndInv'
  <2>1. \A d \in Client : InFlight(d) => Joined(d)
    BY DEF InFlight, Joined
  <2> QED
    BY <1>1, <1>5, <1>6, <2>1 DEF OnceInv, EndInv
<1>11. RequestsApart'
  BY <1>1, <1>5 DEF OnceInv, RequestsApart, Apart
<1>12. ASSUME NEW d \in Client, NEW i \in 1..Len(stream'[d])
       PROVE  \/ i \in 1..Len(stream[d]) /\ stream'[d][i] = stream[d][i]
              \/ d = c /\ i = Len(stream[c]) + 1 /\ stream'[d][i] = m
  <2>1. d = c => i \in 1..Len(stream[c]) \/ i = Len(stream[c]) + 1
    BY <1>0, <1>3
  <2> QED
    BY <1>3, <2>1
<1>13. SentApart'
  <2> SUFFICES ASSUME NEW d \in Client, NEW i \in 2..Len(stream'[d]),
                      stream'[d][i].type = "append"
               PROVE  /\ \A e \in Client : InFlight(e)' =>
                            Apart(stream'[d][i], req'[e])
                      /\ d \in task'.todo \cup task'.sending =>
                            Apart(stream'[d][i], task')
    BY DEF SentApart, Apart
  <2>1. CASE i \in 1..Len(stream[d]) /\ stream'[d][i] = stream[d][i]
    <3>1. i \in 2..Len(stream[d])
      BY <1>0, <2>1
    <3>2. /\ \A e \in Client : InFlight(e) => Apart(stream[d][i], req[e])
          /\ d \in task.todo \cup task.sending => Apart(stream[d][i], task)
      BY <2>1, <3>1 DEF OnceInv, SentApart
    <3> QED
      BY <1>1, <1>5, <2>1, <3>2 DEF Apart
  <2>2. CASE d = c /\ stream'[d][i] = m
    <3>1. ASSUME NEW e \in Client, InFlight(e) PROVE Apart(m, req[e])
      <4>1. Apart(req[e], task)
        BY <3>1 DEF OnceInv, RequestsApart
      <4> QED
        BY <1>2, <4>1 DEF Apart
    <3> QED
      BY <1>1, <1>4, <1>5, <2>2, <3>1
  <2> QED
    BY <1>0, <1>3, <1>12, <2>1, <2>2
<1>14. ASSUME NEW i \in 1..Len(stream[c]), stream[c][i].type = "append"
       PROVE  Apart(stream[c][i], m) /\ Apart(m, stream[c][i])
  <2>1. CASE i = 1
    <3>1. stream[c][1].offset + Len(stream[c][1].data) = Base(c)
      BY <1>4 DEF Base, End
    <3> QED
      BY <1>2, <1>4, <2>1, <3>1 DEF Apart
  <2>2. CASE i # 1
    <3>1. i \in 2..Len(stream[c])
      BY <1>0, <2>2
    <3>2. Apart(stream[c][i], task)
      BY <1>1, <1>14, <3>1 DEF OnceInv, SentApart
    <3> QED
      BY <1>2, <3>2 DEF Apart
  <2> QED
    BY <2>1, <2>2
<1>15. StreamsApart'
  <2> SUFFICES ASSUME NEW d \in Client, NEW i \in 1..Len(stream'[d]),
                      NEW j \in 1..Len(stream'[d]), i # j,
                      stream'[d][i].type = "append",
                      stream'[d][j].type = "append"
               PROVE  Apart(stream'[d][i], stream'[d][j])
    BY DEF StreamsApart, Apart
  <2>1. CASE /\ i \in 1..Len(stream[d]) /\ stream'[d][i] = stream[d][i]
             /\ j \in 1..Len(stream[d]) /\ stream'[d][j] = stream[d][j]
    BY <2>1 DEF OnceInv, StreamsApart
  <2>2. CASE /\ d = c /\ j = Len(stream[c]) + 1 /\ stream'[d][j] = m
             /\ i \in 1..Len(stream[d]) /\ stream'[d][i] = stream[d][i]
    BY <1>14, <2>2
  <2>3. CASE /\ d = c /\ i = Len(stream[c]) + 1 /\ stream'[d][i] = m
             /\ j \in 1..Len(stream[d]) /\ stream'[d][j] = stream[d][j]
    BY <1>14, <2>3
  <2> QED
    BY <1>12, <2>1, <2>2, <2>3
<1> QED
  BY <1>8, <1>9, <1>10, <1>11, <1>13, <1>15 DEF OnceInv

\* Every step before the deletion keeps the invariant.
LEMMA OnceStep ==
    ASSUME Undeleted', TypeOK, TypeOK', DocInv, FaithInv, OnceInv,
           [Next]_vars
    PROVE  OnceInv'
<1>1. ASSUME NEW c \in Client, Reader(c) PROVE OnceInv'
  BY <1>1, QuietActions, JoinStep, StoreStep, PublishStep DEF Reader
<1>2. ASSUME NEW d \in Client,
             SkipRecipient(d) \/ PickRecipient(d) \/ SendToRecipient(d)
      PROVE  OnceInv'
  BY <1>2, QuietActions, PickStep, SendStep
<1>3. ASSUME \/ UpdateUser \/ UpdatePermissions \/ SignalDocumentDeleted
             \/ UNCHANGED vars
      PROVE OnceInv'
  <2>1. CASE Client # {}
    BY <1>3, <2>1, QuietActions
  <2>2. CASE Client = {}
    BY <2>2 DEF OnceInv, StartInv, MembersInv, EndInv, RequestsApart,
       SentApart, StreamsApart, TypeOK, Task
  <2> QED
    BY <2>1, <2>2
<1>4. ~DeleteDocument
  BY DEF DeleteDocument, Undeleted
<1> QED
  BY <1>1, <1>2, <1>3, <1>4 DEF Next, Hub, Management, Finished

\* Blocks that are apart share no position: what the invariant says of a stream.
LEMMA ApartSpans ==
    ASSUME TypeOK, OnceInv PROVE AtMostOnce
<1> SUFFICES ASSUME NEW c \in Client,
                    NEW i \in Messages(c, "append"),
                    NEW j \in Messages(c, "append"), i # j
             PROVE  Span(stream[c][i]) \cap Span(stream[c][j]) = {}
  BY DEF AtMostOnce
<1>1. Apart(stream[c][i], stream[c][j])
  BY DEF OnceInv, StreamsApart, Messages
<1>2. stream[c][i] \in Message /\ stream[c][j] \in Message
  BY DEF Messages, TypeOK
<1>3. /\ stream[c][i].offset \in Nat /\ Len(stream[c][i].data) \in Nat
      /\ stream[c][j].offset \in Nat /\ Len(stream[c][j].data) \in Nat
  BY <1>2 DEF Message, Document
<1> QED
  <2> SUFFICES ASSUME NEW p, p \in Span(stream[c][i]), p \in Span(stream[c][j])
               PROVE  FALSE
    OBVIOUS
  <2>1. /\ p \in Int
        /\ stream[c][i].offset < p
        /\ p <= stream[c][i].offset + Len(stream[c][i].data)
        /\ stream[c][j].offset < p
        /\ p <= stream[c][j].offset + Len(stream[c][j].data)
    BY <1>3 DEF Span
  <2>2. ASSUME NEW a \in Nat, NEW b \in Nat, NEW k \in Nat, NEW l \in Nat,
               a < p, p <= a + k, b < p, p <= b + l
        PROVE  k # 0 /\ l # 0 /\ ~(a + k <= b) /\ ~(b + l <= a)
    BY <2>1, <2>2
  <2> QED
    BY <1>1, <1>3, <2>1, <2>2 DEF Apart

\* No position of the document is sent to a client twice (client.go:307, 582),
\* for any number of clients and requests of any size, whatever permission
\* updates and DocumentDB failures come between, until it is deleted.
THEOREM AtMostOnceHolds == Spec => []AtMostOnce
<1> DEFINE Inv == TypeOK /\ (Undeleted => DocInv /\ FaithInv /\ OnceInv)
<1>1. Init => Inv
  BY InitType, FaithInit, OnceInit
<1>2. Inv /\ [Next]_vars => Inv'
  <2> SUFFICES ASSUME Inv, [Next]_vars PROVE Inv'
    OBVIOUS
  <2>1. TypeOK'
    BY TypeStep
  <2>2. ASSUME Undeleted' PROVE (DocInv /\ FaithInv /\ OnceInv)'
    BY <2>1, <2>2, DeletedForGood, GrowsStep, FaithStep, OnceStep
  <2> QED
    BY <2>1, <2>2
<1>3. Inv => AtMostOnce
  BY ApartSpans DEF AtMostOnce
<1> QED
  BY <1>1, <1>2, <1>3, PTL DEF Spec
=============================================================================
