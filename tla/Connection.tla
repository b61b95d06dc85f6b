----------------------------- MODULE Connection -----------------------------
(***************************************************************************)
(* One connection (client.go): its writeThread, the mutex and condition    *)
(* variable through which the other goroutines feed it, its reader         *)
(* goroutine from the init message to the deferred clean-up, and what the  *)
(* hub does to it: queue messages, notify keys, take access away.          *)
(*                                                                         *)
(* A critical section of client.mutex is one step.  cond.Wait is modelled  *)
(* by the writer being "waiting"; Signal makes a waiting writer "woken"    *)
(* and is lost when nobody waits.  Pending keys are the version of each    *)
(* key name that is to be sent (the value goes with the version).          *)
(***************************************************************************)
EXTENDS Naturals, Sequences

CONSTANTS
    Msg,         \* messages queued for the client, other than key information
    KeyName,     \* names of keys
    MaxVersion,  \* bound: key versions 1..MaxVersion
    MaxMessages, \* bound: messages queued in a run
    MaxNotices   \* bound: key notices in a run

Error == "error"

ASSUME BoundsAssumption == MaxVersion \in Nat /\ MaxMessages \in Nat
                           /\ MaxNotices \in Nat
ASSUME ErrorAssumption == Error \notin Msg

VARIABLES
    reader,     \* the reader goroutine
    hub,        \* the hub goroutine, as far as this client goes
    writer,     \* the writeThread
    queued,     \* client.queued
    keys,       \* client.keys: version to be sent of each name, 0 for none
    closed,     \* client.closed: "no" or "yes"
    batch,      \* the writer's local messages
    batchKeys,  \* the writer's local keys
    lastRound,  \* the writer's local closed
    socket,     \* "open", or "closed" by the server
    link,       \* "up", or "down": the peer is unreachable
    given,      \* history: every message queued
    wire,       \* history: every message that reached the peer
    toldKeys,   \* history: newest version notified of each name
    wireKeys,   \* history: newest version of each name that reached the peer
    owed,       \* history: messages queued when closed was set
    notices     \* key notices so far

vars == <<reader, hub, writer, queued, keys, closed, batch, batchKeys,
          lastRound, socket, link, given, wire, toldKeys, wireKeys, owed,
          notices>>

locals == <<batch, batchKeys, lastRound>>
history == <<given, wire, toldKeys, wireKeys, owed, notices>>

NoKeys == [n \in KeyName |-> 0]
NotSet == MaxMessages + 2   \* owed, while closed is not set
Newer(v, w) == IF v >= w THEN v ELSE w

\* Mutant: nobody is woken.
SignalNobody == writer' = writer

\* cond.Signal
Signal == writer' = IF writer = "waiting" THEN "woken" ELSE writer

\* client.enqueue
Enqueue(m) == /\ queued' = Append(queued, m)
              /\ given' = Append(given, m)
              /\ Signal

Close == /\ closed' = "yes"
         /\ owed' = IF closed = "no" THEN Len(given) ELSE owed

Init ==
    /\ reader = "init"
    /\ hub = "idle"
    /\ writer = "check"
    /\ queued = <<>>
    /\ keys = NoKeys
    /\ closed = "no"
    /\ batch = <<>>
    /\ batchKeys = NoKeys
    /\ lastRound = "no"
    /\ socket = "open"
    /\ link = "up"
    /\ given = <<>>
    /\ wire = <<>>
    /\ toldKeys = NoKeys
    /\ wireKeys = NoKeys
    /\ owed = NotSet
    /\ notices = 0

(***************************************************************************)
(* The reader goroutine                                                    *)
(***************************************************************************)

\* No init message in time, a read error or a message that is too short: the
\* socket is closed, client.closed is not set.
InitMissing ==
    /\ reader = "init"
    /\ reader' = "gone"
    /\ socket' = "closed"
    /\ UNCHANGED <<hub, writer, queued, keys, closed, locals, link, history>>

\* readMessage panics on a malformed frame (the HTTP server recovers and leaves
\* a hijacked connection alone), or a server identifies itself to a build that
\* has no high-availability extension.
InitUnexpected ==
    /\ reader = "init"
    /\ reader' = "gone"
    /\ UNCHANGED <<hub, writer, queued, keys, closed, locals, socket, link,
                   history>>

\* processInitMessage fails, with or without an error for the client; the
\* deferred function sets closed and signals next.
InitRefused ==
    /\ reader = "init"
    /\ reader' = "removed"
    /\ \/ Enqueue(Error)
       \/ UNCHANGED <<writer, queued, given>>
    /\ UNCHANGED <<hub, keys, closed, locals, socket, link, wire, toldKeys,
                   wireKeys, owed, notices>>

\* The snapshot is queued and the client registers with the hub.
InitAccepted ==
    /\ reader = "init"
    /\ reader' = "run"
    /\ \E m \in Msg : Enqueue(m)
    /\ UNCHANGED <<hub, keys, closed, locals, socket, link, wire, toldKeys,
                   wireKeys, owed, notices>>

\* A request is answered: the reader queues a message for its own client.
ReaderEnqueues ==
    /\ reader = "run"
    /\ Len(given) < MaxMessages
    /\ \E m \in Msg : Enqueue(m)
    /\ UNCHANGED <<reader, hub, keys, closed, locals, socket, link, wire,
                   toldKeys, wireKeys, owed, notices>>

\* The read fails, as it does once the socket is closed or the peer is gone, or
\* the peer disconnects, or a message cannot be processed.
ReaderEnds ==
    /\ reader = "run"
    /\ reader' = "leaving"
    /\ UNCHANGED <<hub, writer, queued, keys, closed, locals, socket, link,
                   history>>

\* The deferred hub.RemoveClient is handed over; the hub is between closures.
ReaderRemoved ==
    /\ reader = "leaving"
    /\ hub = "idle"
    /\ reader' = "removed"
    /\ UNCHANGED <<hub, writer, queued, keys, closed, locals, socket, link,
                   history>>

\* The deferred function: closed is set and signalled.
ReaderCloses ==
    /\ reader = "removed"
    /\ reader' = "gone"
    /\ Close
    /\ Signal
    /\ UNCHANGED <<hub, queued, keys, locals, socket, link, given, wire,
                   toldKeys, wireKeys, notices>>

(***************************************************************************)
(* The hub goroutine, while the client is in a session                     *)
(***************************************************************************)
InSession == reader \in {"run", "leaving"}

\* An append, a broadcast or another client's doing.
HubEnqueues ==
    /\ InSession
    /\ hub = "idle"
    /\ Len(given) < MaxMessages
    /\ \E m \in Msg : Enqueue(m)
    /\ UNCHANGED <<reader, hub, keys, closed, locals, socket, link, wire,
                   toldKeys, wireKeys, owed, notices>>

\* Mutants: versions add up; whatever comes last is sent.
MergedSum(n, v) == [keys EXCEPT ![n] = v + @]
MergedAlways(n, v) == [keys EXCEPT ![n] = v]

\* The key replaces the pending one of its name unless that is newer.
Merged(n, v) == [keys EXCEPT ![n] = Newer(v, @)]

\* notifyKeysUpdated, by the hub or, with the keys found when it joined, by the
\* client's own reader.
NotifyKeysUpdated ==
    /\ InSession
    /\ hub = "idle" \/ reader = "run"
    /\ notices < MaxNotices
    /\ notices' = notices + 1
    /\ \E n \in KeyName, v \in 1..MaxVersion :
          /\ keys' = Merged(n, v)
          /\ toldKeys' = [toldKeys EXCEPT ![n] = Newer(v, @)]
          /\ IF v >= keys[n] THEN Signal ELSE UNCHANGED writer
    /\ UNCHANGED <<reader, hub, queued, closed, locals, socket, link, given,
                   wire, wireKeys, owed>>

\* notifyLostAccess: the error is queued and signalled ...
LoseAccess ==
    /\ InSession
    /\ hub = "idle"
    /\ Len(given) < MaxMessages
    /\ hub' = "closing"
    /\ Enqueue(Error)
    /\ UNCHANGED <<reader, keys, closed, locals, socket, link, wire, toldKeys,
                   wireKeys, owed, notices>>

\* ... then closed is set, which is not signalled.
CloseAfterLoss ==
    /\ hub = "closing"
    /\ hub' = "idle"
    /\ Close
    /\ UNCHANGED <<reader, writer, queued, keys, locals, socket, link, given,
                   wire, toldKeys, wireKeys, notices>>

(***************************************************************************)
(* The writeThread                                                         *)
(***************************************************************************)

\* Mutant: pending keys do not end the wait.
NothingQueued == queued = <<>> /\ closed = "no"

\* Nothing to send and no reason to end.
Nothing == queued = <<>> /\ keys = NoKeys /\ closed = "no"

\* Mutant: the queue is not emptied.
KeptQueued == queued

\* What a round leaves in client.queued.
Left == <<>>

\* Mutant: client.closed is read again after the round.
OverNow == closed = "yes"

\* Whether the round was the last: closed as it was when the round began.
Over == lastRound = "yes"

WriterWaits ==
    /\ writer \in {"check", "woken"}
    /\ Nothing
    /\ writer' = "waiting"
    /\ UNCHANGED <<reader, hub, queued, keys, closed, locals, socket, link,
                   history>>

WriterTakes ==
    /\ writer \in {"check", "woken"}
    /\ ~Nothing
    /\ writer' = "sending"
    /\ batch' = queued
    /\ batchKeys' = keys
    /\ lastRound' = closed
    /\ queued' = Left
    /\ keys' = NoKeys
    /\ UNCHANGED <<reader, hub, closed, socket, link, history>>

\* One message goes out, or is lost with a log line if the link is down.
WriterSends ==
    /\ writer = "sending"
    /\ batch # <<>>
    /\ batch' = Tail(batch)
    /\ wire' = IF link = "up" /\ socket = "open" THEN Append(wire, Head(batch))
                                                 ELSE wire
    /\ UNCHANGED <<reader, hub, writer, queued, keys, closed, batchKeys,
                   lastRound, socket, link, given, toldKeys, wireKeys, owed,
                   notices>>

\* The keys of the round go out in one message, after the others.
WriterSendsKeys ==
    /\ writer = "sending"
    /\ batch = <<>>
    /\ batchKeys # NoKeys
    /\ batchKeys' = NoKeys
    /\ wireKeys' = IF link = "up" /\ socket = "open"
                   THEN [n \in KeyName |-> Newer(batchKeys[n], wireKeys[n])]
                   ELSE wireKeys
    /\ UNCHANGED <<reader, hub, writer, queued, keys, closed, batch, lastRound,
                   socket, link, given, wire, toldKeys, owed, notices>>

\* NextWriter fails for a further part of a message: the writer panics, which
\* closes the socket.
WriterPanics ==
    /\ writer = "sending"
    /\ batch # <<>> \/ batchKeys # NoKeys
    /\ link = "down"
    /\ writer' = "dead"
    /\ socket' = "closed"
    /\ UNCHANGED <<reader, hub, queued, keys, closed, locals, link, history>>

\* The round is over: another one, or the end.
WriterLoops ==
    /\ writer = "sending"
    /\ batch = <<>>
    /\ batchKeys = NoKeys
    /\ ~Over
    /\ writer' = "check"
    /\ UNCHANGED <<reader, hub, queued, keys, closed, locals, socket, link,
                   history>>

WriterEnds ==
    /\ writer = "sending"
    /\ batch = <<>>
    /\ batchKeys = NoKeys
    /\ Over
    /\ writer' = "done"
    /\ socket' = "closed"
    /\ UNCHANGED <<reader, hub, queued, keys, closed, locals, link, history>>

\* The peer becomes unreachable.
LinkFails ==
    /\ link = "up"
    /\ link' = "down"
    /\ UNCHANGED <<reader, hub, writer, queued, keys, closed, locals, socket,
                   history>>

\* Nothing more happens to a connection whose reader is gone and whose writer
\* has ended or waits.
Finished ==
    /\ reader = "gone"
    /\ writer \in {"done", "dead", "waiting"}
    /\ UNCHANGED vars

Reader == \/ InitMissing \/ InitUnexpected \/ InitRefused \/ InitAccepted
          \/ ReaderEnqueues \/ ReaderEnds \/ ReaderRemoved \/ ReaderCloses
Hub == \/ HubEnqueues \/ NotifyKeysUpdated \/ LoseAccess \/ CloseAfterLoss
Writer == \/ WriterWaits \/ WriterTakes \/ WriterSends \/ WriterSendsKeys
          \/ WriterPanics \/ WriterLoops \/ WriterEnds

Next == Reader \/ Hub \/ Writer \/ LinkFails \/ Finished

Spec == Init /\ [][Next]_vars

(***************************************************************************)
(* Fairness.  The writer runs whenever it can: a write returns, with an    *)
(* error if need be (no deadline is set, so a peer that neither reads nor  *)
(* vanishes is left out).  A reader whose loop has ended runs its deferred *)
(* functions; the hub finishes a closure it has begun.  Nothing makes the  *)
(* peer send or leave, or the hub act.                                     *)
(***************************************************************************)
Fairness ==
    /\ WF_vars(Writer)
    /\ SF_vars(ReaderRemoved)
    /\ WF_vars(ReaderCloses)
    /\ WF_vars(CloseAfterLoss)

FairSpec == Spec /\ Fairness

-----------------------------------------------------------------------------
(***************************************************************************)
(* Properties                                                              *)
(***************************************************************************)
KeyVersions == [KeyName -> 0..MaxVersion]
Messages == Seq(Msg \cup {Error})

\* Every variable has its type (client.go:24-56, 149-163).
TypeOK ==
    /\ reader \in {"init", "run", "leaving", "removed", "gone"}
    /\ hub \in {"idle", "closing"}
    /\ writer \in {"check", "waiting", "woken", "sending", "done", "dead"}
    /\ {queued, batch, given, wire} \subseteq Messages
    /\ {keys, batchKeys, toldKeys, wireKeys} \subseteq KeyVersions
    /\ {closed, lastRound} \subseteq {"no", "yes"}
    /\ socket \in {"open", "closed"}
    /\ link \in {"up", "down"}
    /\ owed \in Nat
    /\ notices \in Nat

\* The connection still carries what is written to it.
Open == IF socket = "open" /\ link = "up" THEN "open" ELSE "shut"

\* The writer never sleeps on something to send: every path that leaves
\* messages or keys behind signals the condition after its change, under the
\* mutex the writer tests them with (client.go:154-156, 270-275, 667).
NoLostWakeup == writer = "waiting" => queued = <<>> /\ keys = NoKeys

\* When the writer closes the socket, everything that was queued before closed
\* was set has been sent, the error that says why included
\* (client.go:158-186, 672-678).
FlushedBeforeClose ==
    writer = "done" /\ link = "up" /\ owed # NotSet => Len(wire) >= owed

\* However notices of different versions of a key interleave with the rounds
\* of the writer, the newest version told is pending, in the round or sent
\* (client.go:642-669, 159-184).
NewestKeyKept ==
    \A n \in KeyName :
        \/ Open = "shut"
        \/ \E v \in {keys[n], batchKeys[n], wireKeys[n]} : v >= toldKeys[n]

Box == INSTANCE Outbox WITH Msg <- Msg \cup {Error}, delivered <- wire,
                            open <- Open

\* The queue, the writer's rounds and the condition variable together make a
\* FIFO that loses, repeats and reorders nothing while the socket is open
\* (client.go:141-187, 270-275).
IsOutbox == Box!Spec

\* Every queued message is sent, or the connection is no more
\* (client.go:39-41: "it appends to the queue and signals").
QueuedIsSent ==
    \A n \in 1..MaxMessages :
        Len(given) >= n ~> Len(wire) >= n \/ Open = "shut"

\* Every key notice is sent, in that version or a newer one
\* (client.go:643-644).
KeysAreSent ==
    \A n \in KeyName, v \in 1..MaxVersion :
        toldKeys[n] >= v ~> wireKeys[n] >= v \/ Open = "shut"

\* A client whose loop ends has its socket closed, through hub, flag, signal
\* and writer (client.go:95-100, 109, 186).
LeaverIsClosed == reader \in {"leaving", "removed"} ~> socket = "closed"

\* "To close the socket, we set closed = true and signal the condition."
\* (client.go:41-43): a client that loses its access is closed, unless the link
\* fails first (client.go:671-678).
LostAccessIsClosed == hub = "closing" ~> Open = "shut"
=============================================================================
