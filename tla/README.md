# A verification development for zwibserve

zwibserve is the server of a collaborative whiteboard. A document is a byte
sequence that only grows. Clients connect over websockets, are sent the
document, ask for data to be appended at the offset where they believe the
document ends, and are sent what others append; they also set versioned keys
and send transient broadcasts. Documents live in one of several databases. A
management API over HTTP deletes documents, hands out tokens and changes
permissions, and a webhook reports documents that everybody has left.

The modules here model the parts of it in which goroutines, callers or calls
interleave. Each is translated from the Go source named in its comments;
`PROJECT.json` ("map") gives the lines of every definition.

## Inventory

| Part | State | Operations | What is hard | What makes it correct |
|---|---|---|---|---|
| **Reader goroutine** of a client (`client.go` `runClient`, `process*`) | position in its code; `lastEnd`, `writePermission`, `docID` | join (token, document, register, keys), append, set key, broadcast, leave | reads the database, then the hub, with no lock over both; shares `lastEnd` and `writePermission` with the hub goroutine without one | everybody sees one document, once, and ACKs are true |
| **Hub goroutine** (`hub.go`) | sessions: clients and client keys of each document | closures: add, remove, append, broadcast, keys, permissions, deletion | runs closures one at a time, from an unbuffered channel | no member is left out; leavers and their keys go |
| **Write thread** (`client.go` `writeThread`, `enqueue*`, `notify*`) | `queued`, `keys`, `closed` behind a mutex and a condition variable | take a round, send it, end | lost wake-ups, messages queued during a round, write errors and panics | a FIFO that sleeps only when there is nothing to do and flushes before it closes |
| **Framing** (`sendMessage`, `readMessage`) | the rest of a message; the joined part | cut, join | sizes around the limit | messages arrive whole, frames fit |
| **Encoder** (`encoder.go`, `decodeInitMessage`, `decodeAppendMessage`) | none | structure to bytes and back, by the list of its fields | fields whose length another field gives, lists without an end of their own, two versions of a message | what is decoded is what was encoded |
| **DocumentDB** (`socket.go`, an interface) | documents, keys, tokens | get or create, append at an offset, delete, set key, tokens | promised to be atomic | the contract itself |
| **MemoryDocumentDB** (`memorydb.go`) | maps behind a mutex, time of the last cleaning | the same | expiry happens inside other calls | keeps the contract |
| **RedisDocumentDB** (`redisdb.go`) | Redis strings, hashes and sets with expiry, shared by several servers | the same as WATCH, commands and MULTI/EXEC, retried; daily maintenance of each server | other callers, expiry, maintenance and errors between any two commands | calls are atomic; the index of tokens is complete |
| **SQLxDocumentDB** (`sqlxdb.go` and schemas) | three tables, time of the last cleaning | the same as SQL transactions on one connection | cleaning outside of the transactions and without a lock; panics between statements and errors of the deferred Commit; foreign keys; restarts | keeps the contract, over restarts too |
| **Keys** (`hub.go`, `client.go`) | client keys in the hub, session keys in the DocumentDB, versions pending for each client | set with a compared version, announce, remove with the owner | announcements that overtake each other, readers that join meanwhile | nobody keeps an old key |
| **Webhook queue** (`webhooks.go`) | events with a due time, a goroutine that sleeps until the first | add (wakes it), remove, send | clients that leave and return around the due time | reports what is idle, once, after the delay |
| **Management API** (`management.go`) | none | create, delete, dump, add token, update user | delete and update are two steps each, database and hub | clients are told |
| **Stress test** (`stresstest.go`) | of each client: the offset it appends at, whether it may (`gotAck`); `abort` | teachers append, students read | teachers refuse each other, and wait for messages that may have come already or never come | it goes on |
| HTTP handler, request helper, HAE stubs | configuration only | | sequential | |

How they interact: `ServeHTTP` starts a reader per connection; the reader
starts a write thread, calls the DocumentDB directly and hands closures to the
hub; the hub calls `enqueue*` and `notify*` of its clients, which put work
before their write threads, and `add` and `removeIf` of the webhook queue; a
management request calls the DocumentDB and the hub.

## Modules

| Module | Models | Composes or refines |
|---|---|---|
| `Collab` | one document with all its clients: readers, database, hub, management requests | the core |
| `Connection` | one connection: reader, hub as far as it concerns it, write thread, link | implements `Outbox` |
| `Outbox` | a FIFO that may be shut | abstract |
| `Framing` | a message cut into frames and joined | implements `Outbox` |
| `Codec` | structures as bytes | |
| `Stress` | the clients of the stress test | composes with `Collab` |
| `Documents` | what DocumentDB promises about documents | abstract |
| `Store` | the constants the three stores share | |
| `MemoryDB` | MemoryDocumentDB | implements `Documents` |
| `RedisDB` | RedisDocumentDB, Redis server, maintenance | implements `Documents` |
| `SQLDB` | SQLxDocumentDB, its tables, restarts | implements `Documents` |
| `Keys` | client and session keys of one session | |
| `Webhooks` | sessions as far as the webhook goes, the queue | |
| `Stores` | a server with one of the three stores | composes `MemoryDB`, `SQLDB`, `RedisDB` |
| `CollabProofs` | theorems about `Collab` | |
| `ConnectionProofs` | theorems about `Connection` | |
| `SQLDBProofs`, `RedisDBProofs` | theorems about `SQLDB` and `RedisDB` | |
| `StoresProofs` | theorems about `MemoryDB` and `Stores` | cites those about `SQLDB` and `RedisDB` |
| `KeysProofs`, `WebhooksProofs`, `FramingProofs` | theorems about `Keys`, `Webhooks` and `Framing` | |
| `MCFraming` | encode, cut, join, decode | composes `Framing` and `Codec` for TLC |
| `MCCollab`, `MCStress`, `MCKeys`, `MCStores`, `MCSQLDB` | the small sets TLC runs with | |
| `MCRedisDB` | the same, and `Documents` without exceptions | |

### Collab

A reader's `pc` says which call of `runClient` or `processAppend` comes next:
`token` (GetToken), `document` (GetDocument and the snapshot), `add`
(hub.addClient), `ready` (waits for a message), `store`
(DocumentDB.AppendDocument), `reply` (choice of the answer), `mark`
(`c.lastEnd = newLength`), `publish` (hub.Append), `remove`, `gone`. A step
ends where another goroutine can come in: at a database call, at a hand-over to
the hub, and at each access to a variable that is shared without a lock.
`lastEnd` and `writers` (`writePermission`) are such variables. The race
detector would report them; each access is atomic in the builds the code
supports, and the model takes every order of the accesses.

The hub is idle or runs the closure of `Append` (`task`): for each recipient it
tests `lastEnd` (`PickRecipient`, `SkipRecipient`) and then moves it and queues
the message (`SendToRecipient`), two steps because the recipient's own reader
writes `lastEnd` too. The other closures touch nothing that a reader touches at
the same time and run in the step that hands them over.

Data is a sequence of units `<<author, n>>`, so that a property can tell whose
data is where. `stream` keeps everything ever queued for a client; what happens
to it after that is `Connection`. An ACK remembers what its request had asked
for. The database is the atomic contract that the three stores are checked
against, with an error that may come after the data was stored. A
client without a token, when no JWT key is set, is one whose token says read
and write. Protocol version, byte layout and logging are left out.

### Connection

A critical section of `client.mutex` is a step. `cond.Wait` is the writer being
`waiting`; `Signal` turns that into `woken`, and does nothing if nobody waits.
`notifyLostAccess` is two steps, as in the code: the error is queued and
signalled, then `closed` is set. `InitMissing` and `InitUnexpected` are the
ways out of `runClient` before its deferred clean-up exists; then nothing ever
wakes the writer, which the model shows by ending there (`Finished`). A failed
first write is logged and lost; `NextWriter` failing for a further frame
panics, and the recovery closes the socket.

### Stress

`Stress` extends `Collab` by the other end of each connection. The server side
is `Collab`'s actions, restricted to what these clients ask for: POSSIBLY_CREATE
with no data, appends at the teacher's `offset` (`Arrive`), a database that does
not fail. `read` is how much of its `stream` a client has read and `sent` what
the server has not read yet, so both directions lag. A teacher's writer sends
when `gotAck` is set and unsets it; its reader sets `offset` and `gotAck` at an
append message or an ACK, and neither at a refusal. Test and lock in the writer
are one step: nothing but the writer unsets `gotAck`. A panic of a reader is
recovered and sets `abort`; one of a writer is not, and ends all clients
(`SendFails`). What an ended client knew is forgotten.

### Documents, MemoryDB, RedisDB, SQLDB

`Documents` is the interface of `socket.go` as a specification: calls happen one
at a time, `reply` is the last call with its answer. Between calls a store may
drop a document that is `stale`: one that was neither read nor written for the
expiration time, by a history variable of each store (`used`). That is what
`socket.go` 69-71 ("without any activity") and `README.md` 148-151 ("last
accessed") say, and not what a store's own clock says. Three promises have a
switch, because not all stores keep them: `MissingIsEmpty`, `PutReplaces` and
`OnlyWritesCount`; each is listed under "Deviations". `MayFail` lets a call end
in an error, and `Doubtful` names the calls that may have been done all the same.

`MemoryDB` takes each call as one step, `clean` included where the code calls
it. `RedisDB` splits a call at each command or EXEC. WATCH is a flag per caller
that any write to the watched key sets, expiry included; EXEC needs it clear,
and `Retry` starts over. A `TxPipelined` outside of WATCH (deletion,
maintenance) is one step; the HSET of `UpdateUser` is not in one, and is a step
of its own. Callers append and set keys only for documents that were got
before, as the server does.

A Redis command may return an error. If nothing was done, the call ends
(`Fails`); if an EXEC was done and its reply is lost, the call has its effect and
ends in an error (`Answers`). Two errors do not end a call: that of HGETALL in
`AddToken`, which counts as a token that does not exist, and that of HSET in
`UpdateUser`. Each server on the one Redis has its maintenance goroutine, which
may fail between its steps (`Maintenance`). Two history variables speak of a
document's life: `written`, which the expiry follows, and `used`, which the
interface means; they differ by what is only read.

In `SQLDB` a transaction has the one connection from BEGIN to COMMIT
(`SetMaxOpenConns` 1) and is a step; `clean` is not in it, and is one step per
statement and one for the assignment of `lastClean`, which is read elsewhere
without a lock: while somebody is about to write it a reader may find anything
(`Torn`). `UpdateUser` is the statement as it is executed, with the user's name
and the permissions exchanged (`sqlxdb.go` 283), so that the permissions column
may hold a user's name. Statements may fail: a panic with the deferred Commit
stores the first UPDATE of an append without the second (`AppendFails`), any
other leaves the tables alone (`CallFails`). `Restart` forgets callers and
`lastClean`. Assumed of the databases: the foreign key is enforced (SQLite
needs the pragma, which holds for the one connection), an empty BLOB is read
back as empty and not as NULL, and MySQL and MariaDB take the schemas as they
are. PostgreSQL differs in that COMMIT after a failed statement rolls back,
which is `CallFails`.

`Stores` chooses one store in its initial states, as `NewHandler` is given one,
and takes the steps of that one only, so that one run checks the three. `SQLDB`
and `RedisDB` have variables, periods and bounds of their own in it. It extends
`MemoryDB` and instantiates `SQLDBProofs` and `RedisDBProofs` rather than the
modules these extend, so that `StoresProofs` can cite their theorems for the
instances.

### Keys, Webhooks, Framing

`Keys` follows `processSetKey`, `SetClientKey`, `SetSessionKey`,
`RemoveClient`, `notifyKeysUpdated` and the joining reader's three reads.
Client keys and session keys have different names, as in the protocol's use of
them. The read of the session keys may fail (`Unlucky`, the clients to which
that may happen): the error is dropped (`client.go` 111) and the client joins
without them, which the history variable `unread` keeps. What an endpoint does
with the keys it receives is not in this repository; `view` assumes it does
what `notifyKeysUpdated` does.

`Webhooks` counts the clients of each document, gives each idle period a number
and follows the queue's goroutine: scan under the mutex, sleep with a timer and
a context, wake. The queue is a set: each event that is due is sent by a
goroutine of its own, so nothing depends on its order. The hub's closures that
touch the queue are two steps, since the goroutine can come in between.

`Framing` cuts sequences of bytes. The two bytes that a continuing frame
carries in front are counted, and the More flag is written into the first frame
as `sendMessage` writes it into the message. `Codec` gives the structures of
`encoder.go` as lists of fields, since reflection is how the code finds them,
and translates the loops of `encode` and `_decode`. `MCFraming` puts them
together: the messages that are cut are encoded structures, and what is joined
is decoded as the receiver of its type decodes it.

## Runs

| Run | Bounds | Shows |
|---|---|---|
| `collab` | 3 clients, one append each, one permission update that takes everything away, failing database calls, deletion while at most one client has appended | `Fidelity`, `AtMostOnce`, `AckedIsStored`, `NothingForgotten` |
| `stress` | 2 clients, one of them a teacher or both; 3 requests, at most 1 if the document is deleted | `TestGoesOn`, `DeliveredEventually`, `LeaversAreRemoved` under `StressSpec` |
| `connection` | 3 messages, 2 key notices, 2 names, 2 versions | the write thread's invariants, its refinement of `Outbox`, and three liveness properties |
| `stores` | 1 document, token, user and key, 1 unit, 1 permission, which is the user's name. Memory: clock to 5, expiration and cleaning period 2. SQL: 2 callers, clock to 3, expiration and cleaning period 1. Redis: 1 server, 2 callers, 3 calls, clock to 2, expiration 2 | refinement of `Documents` by each store, with the exceptions named under "Deviations"; `KeysHaveDocuments` and `SQLTokensLast` (SQL); `KeysAreCompared` and `IndexComplete` (Redis) |
| `keys` | 3 clients, 2 of them admins, 2 names, 3 requests with versions up to 3 that may skip some, 1 client whose read of the session keys may fail | every member has every key, owners are members, removals arrive |
| `webhooks` | 2 documents, 2 idle periods each, clock to 5, delay 1 | no oversleeping, nothing stale sent, everything reported |
| `framing` | frames of 12 bytes, 14 messages of 2 to 35 bytes, 2 of them at a time | cutting and joining implement `Outbox`; `DecodedAsSent` |
| `collab_join`, `collab_overtake`, `connection_lost`, `sql_commit`, `redis_contract` | as small as the behaviour allows | one deviation each, below |

Why the bounds are enough to make the hard cases happen. Three clients are an
author, a second author whose change may overtake, and a third that is only told
or joins meanwhile; a race over `lastEnd` involves one reader, the hub and one
change of another author. One append each is enough for two changes in flight at
once, for a request at a stale offset, and for one that comes after a change it
was told of (clients are `Cautious`: they append at an offset the server told
them; the theorems do without that). In `connection` three messages make a round
that is being sent, one that waits and one that comes after `closed`. In
`stores` two callers of Redis and three calls put a whole call, expiry or
maintenance between the commands of another; a second server would add a second
maintenance pass, of which the theorems speak for any number. Two callers of SQL
clean at once, with different clocks, and are stopped by a restart in between;
with the permission being the user's name the exchanged arguments of UpdateUser
match a row, and with a second permission, with which the run also passes but
takes twice as long, they change it. In `keys` the client whose read fails is
not an admin, so that it is the one without session keys of its own while the
other two set them. In `stress` three requests are two teachers that append at
the same offset and the one refused appending again, or a teacher that sends a
second time before its first answer has come; an overtaken change needs a third
client and is left to `collab`. Only `webhooks` stops at the end of its clock,
and says so with CHECK_DEADLOCK FALSE; every other model ends in an explicit
`Finished` or `Idle` state, so a deadlock would be reported. Symmetry over
clients (in `keys`, over those with the same permissions) and over callers is
used in the runs without liveness only. The bounds (`MaxRequests`, `MaxUpdates`,
`MaxMessages`, `MaxNotices`, `MaxSets`, `MaxCalls`, `MaxTime`, `MaxIdle`,
`MaxClients`, `MaxEntries`, `MaxVersion`, `MaxLength`, `MaxAtDeletion`) stand in
guards or quantifiers and are declared as bounds; `FewAtDeletion` is a
constraint of `collab`.

The removal of a client key changes what "newest" means, since the next owner
starts its versions again. `ClientKeysReach` therefore speaks of the time until
somebody leaves, and `RemovedKeysVanish` of the time when one client has
left; what goes wrong with a second one takes versions up to 4 and is under
"Deviations".

### Fairness

- `Collab`: a reader that owes steps takes them (weak: database calls return
  and it never waits for the network once a request is in). The hub runs the
  closure it has begun (weak). A hand-over to the hub is strongly fair: the
  channel is ready again and again rather than all the time, and Go serves the
  senders waiting on a channel in their order. Nothing makes a client send or
  leave, or a manager call.
- `Stress`: in addition messages arrive and are read, in both directions (weak),
  and a teacher's writer that may send does (weak): it sleeps for a random time
  and tests again. Nothing makes a connection end.
- `Connection`: the writer runs when it can, and a write returns, with an error
  if need be. No write deadline is set, so a peer that neither reads nor
  vanishes is outside of this assumption. A reader whose loop has ended runs
  its deferred functions; the hub finishes what it began.
- `Webhooks`: closures that have begun end, the goroutine runs, time passes.

## Theorems

About `Collab`, for every set of clients, every bound, every initial permission
and both values of every switch, under the assumptions the module states about
its constants:

- `TypeCorrect`: `Spec => []TypeOK`. The type invariant is inductive.
- `FidelityHolds`: `Spec => []Fidelity`. The inductive invariant is `DocInv` and
  `FaithInv`, for as long as the document is not deleted: the document only
  grows at its end; each append message in a stream, the closure in the hub and
  each stored request that is still on its way to the hub carry what the
  document holds at the offset they name. The requests and the closure are
  needed because a message is made from the closure, which is made from the
  request, long after the document was written. `DeletedForGood` carries the
  property over the deletion: from then on it says nothing.
- `AtMostOnceHolds`: `Spec => []AtMostOnce`. `lastEnd` is
  written by two goroutines and may go down: a reader that marks its own change
  after the hub has announced a later one sets it back. So "lastEnd is past
  everything sent" is not an invariant, and is not why the property holds. What
  is (`OnceInv`): `lastEnd` never goes below the end of the client's snapshot,
  so the guard keeps back what the snapshot had; the changes that are stored
  but not yet handed out occupy positions apart from each other and from
  everything sent, except snapshots; each is handed to the hub once, and the
  hub to each client once.

- `AckedAreStored` and `NothingIsForgotten`: `NeverGranted` implies
  `Spec => []AckedIsStored` and `Spec => []NothingForgotten`. `NeverGranted` says
  that no permission update gives "w", and is needed: data is dropped by one
  test of `writePermission` and the answer chosen by another, and a grant in
  between makes the ACK untrue (see "Deviations"). Without one, a reader that is
  a writer when it answers was one when it tested, so it stored what it was
  asked to (`Asked`), and what was stored stays (`AcksTrue`). That no change is
  forgotten rests on four invariants (`AckInv`). `lastEnd` is an end that the
  client was told of (`LastTold`), and no such
  end falls inside a block of data that was stored at once (`Undivided`): so a
  recipient that the guard skips has been told of the document up to the end of
  the change. An acknowledged change is still with its author, or the hub has
  taken it up for each member that was not told (`Announced`), and the hub sends
  to one recipient at a time (`OneSending`).

About `Connection` (`ConnectionProofs`), for every set of messages and key names
and every bound, under `BoundsAssumption` and `ErrorAssumption`:

- `TypeCorrect`: `Spec => []TypeOK`, which is inductive.
- `NoWakeupLost`: `Spec => []NoLostWakeup`. Inductive with the types. The steps
  that matter are those that queue or notify; a key notice that is older than
  the pending one does not signal, and needs not to, for it changes nothing.
- `NewestKeyHolds`: `Spec => []NewestKeyKept`. A round overwrites the keys the
  writer held, so the property needs `Idle`: between rounds the writer holds
  nothing.
- `ImplementsOutbox`: `Spec => IsOutbox`. The invariant is `Fifo`: while the
  connection is open, what was given is what was sent, then what the round
  holds, then what is queued. Every step of the connection is then an `Accept`,
  a `Deliver`, a `Shut` or a stutter.
- `FlushHolds`: `Spec => []FlushedBeforeClose`. `lastRound` is a copy of `closed`
  that may be out of date, and three parties set or close things: `Ordered` says
  in which order. The socket is closed by the writer, or by a reader that never
  started a session, and then `closed` stays unset; so a round that has seen
  `closed` still has its socket, and by `Fifo` it took everything owed
  (`LastRoundFlushes`).

About `SQLDB` (`SQLDBProofs`), for any number of documents, keys, tokens, callers
and every bound, under `TimeAssumption`, `BoundsAssumption` and
`ContentsAssumption` (contents are sequences):

- `KeysHaveDocumentsAlways`: `Spec => []KeysHaveDocuments`, inductive as it
  stands, COMMITs that fail included: a key is inserted only where a document
  is, and every step that takes documents cascades.
- `TokensLastAlways`: `Spec => TokensLast`. The invariant is `Clocks`: no caller
  cleans with a time ahead of the clock. `OnlyCleanTakes` says which steps touch
  tokens at all.
- `ImplementsDocuments`: `~CommitsMayFail /\ Spec => IsDocumentDB`. What `clean`
  deletes must be stale at the time it deletes it, not when it read the clock.
  That is `Access`: `lastAccess` is never behind the last use of a document. An
  append whose second UPDATE failed moves neither, and is a call that fails. The
  premise is needed: the run `sql_commit` shows what a COMMIT that fails does.
- `TypeCorrect`: `Spec => []TypeOK`, whatever fails or stops on the way: a COMMIT
  that fails leaves all three tables, and `clean` and the cascade take whole rows.
  The permissions of a token are one of `Permission` or a user's name: UpdateUser
  puts the latter there.

About `RedisDB` (`RedisDBProofs`), for any number of documents, keys, tokens, users,
callers, servers and calls and every bound, under the assumptions of `Store`. All
four rest on one inductive invariant, `Inv`, of five parts: `Rows` and `Callers`
(the types of what is stored, and of the request a caller has at each stage),
`Held`, `Dues` and `Listed`.

- `TypeCorrect`: `Spec => []TypeOK`, from `Rows` and `Callers`.
- `KeysAreComparedAlways`: `Spec => KeysAreCompared`. EXEC does not look at the
  version again, so the property is about WATCH. `Held` says what that is for: a
  caller that is about to write, and whose WATCHed key nobody has touched, still
  finds what it has read there. `OnlyWrites` and `WritesAreNoticed` say it of one
  step: whatever a step may write, other callers, expiry and the deletion of a
  document included, is in the set of keys it touches. `ReturnsByExec` says that
  there is no other way from the transaction to the answer.
- `ImplementsDocuments`: `Spec => IsDocumentDB`, where `IsDocumentDB` is `Documents`
  with `MissingIsEmpty`, `PutReplaces` and `OnlyWritesCount`: the theorem says that
  three promises are all that Redis breaks, and the run `redis_contract`, where all
  are FALSE, that they are broken. A call takes place at
  its EXEC or at the read that it returns from, also when its reply is lost. By
  `Held` the document an EXEC creates is still missing, and the one it appends to
  still has the length that was compared. For expiry `Dues` says that no document
  is due before the expiration time has passed since it was written; so what is
  gone when the clock moves is `Unwritten`, though it need not be `Stale`.
- `IndexCompleteAlways`: `Spec => []IndexComplete`. A maintenance goroutine acts on
  what it listed and checked earlier. `Listed` relates the two to the present, for
  each server: each valid token that was not added since is in its user's set, in
  the list that maintenance took, and among the tokens it found there, so it is
  not taken for gone.

About `MemoryDB` (`StoresProofs`, first part), for any documents, tokens, keys,
periods and bounds, under the assumptions of `Store` and `MemoryDB`:

- `TypeCorrect`: `Spec => []TypeOK`, from `Rows` and `Lists`, the types of the maps
  with what relates them.
- `ImplementsDocuments`: `Spec => IsDocumentDB`, with `PutReplaces` and none of the
  other switches. A call that cleans first is a call of `Documents` only if what
  `clean` takes is stale, reads counted. The invariant `Rows` has
  that the time of the last access is never behind that of the last use, so
  that a document which `clean` finds expired has really not been used.

About `Stores` (`StoresProofs`, second part), under the assumptions of `Store`
and `Stores`: `SQLTypeCorrect`, `KeysHaveDocumentsAlways`,
`SQLTokensLastAlways`, `SQLImplementsDocuments`, `RedisTypeCorrect`,
`IndexCompleteAlways`, `KeysAreComparedAlways` and `RedisImplementsDocuments`
are what the run `stores` checks of `SQLDB` and `RedisDB`, for all
values of the constants, with the same exceptions. By `StoresRun` a server with
three stores, two of which nobody calls, runs `MemoryDB`, `SQLDB` and
`RedisDB`; the rest is said by the theorems about them. SQL COMMITs succeed in
it.

About `Keys` (`KeysProofs`), for any clients, names, permissions, versions of at
least 1 and number of requests:

- `TypeCorrect`: `Spec => []TypeOK`; `BasicsHold` also says who is registered at
  which stage, that client keys are in the hub only and session keys in the
  database only, and what a reader carries at each stage.
- `OwnersConnected`: `Spec => []OwnersAreConnected`, inductive with `Basics`.
- `SessionKeysReachAll`, `ClientKeysReachAll`, `RemovedKeysVanishAll`:
  `VersionsGrow` implies that always `SessionKeysReach`, `ClientKeysReach`,
  `RemovedKeysVanish`. `VersionsGrow` says that a request names a newer version than
  it replaces. The server does not compare the two, it is for the clients to
  do so; a client that lowers a version is not heard by endpoints that have the
  higher one. Each proof follows one name through the three places in which an
  endpoint may have it: known, pending, and carried by the joining reader. None
  of the three is ahead of the server's key, and one with the server's version
  is the server's key (`Upto`); when it is removed, a newer removal that is known
  or pending wins over each of the three that still has it (`Drops`). The joining
  reader is why all three are needed: it may bring an old key after a newer one
  was announced. Clients whose read of the session keys failed (`unread`) are
  excepted from `SessionKeysReach`, and only they.

About `Webhooks` (`WebhooksProofs`), for any documents, delay and bounds:

- `NeverOversleeps`, `OnlyIdleQueuedAlways`, `SentInTime`: `NoOversleep`,
  `OnlyIdleQueued` and `SentAfterDelay`. The queue and the hub's closure together
  are what is inductive: an event that is queued, or about to be, is that of the
  idle period the document is in, has not been sent, and is the only one; and it
  carries the time at which that period began (`QueuedAreCurrent`,
  `AddedIsCurrent`). A document whose client returns may still have its event
  while the hub is between its two steps, which `Returning` says.

About `Framing` (`FramingProofs`), for messages of any length, any number of them
under way and any size of a frame of 3 bytes or more:

- `FramesAlwaysFit`, `PanicsNever`, `ImplementsOutbox`: `FramesFit`, `NeverPanics` and
  `Spec => IsOutbox`. The invariant gives the sender and the reader a place in
  the messages, `(message, byte)`, and says that the frames under way lead from
  the reader's to the sender's: each frame is a copy of the message from its
  place on, continues one unless it starts at byte 0, and has the More flag
  exactly when the message goes on behind it. The flag itself is written into
  byte 2 of the message, which `Copies` leaves out and `Outbox` does not see.

What TLC checks and is not proved:

- `DecodedAsSent`: encoder and decoder are folds and a recursive function over the
  fields and bytes of a message, and what they compute for every input is an
  induction over data.
- liveness under fairness, which is out of this prover's reach: `Stress`,
  `QueuedIsSent`, `KeysAreSent`, `LeaverIsClosed`, `IdleIsReported`. What some of
  them rest on is proved: `NoLostWakeup` and `NoOversleep` are why a goroutine
  that can run has nothing to wait for.

## Deviations met while modelling

Five have a run whose counterexample TLC prints, and an entry under "findings":

1. `collab_join`: a change stored and announced between a joiner's snapshot and
   its registration never reaches it. (`client.go` 477, 108)
2. `collab_overtake`: of two changes handed to the hub in the wrong order the
   earlier one is dropped for everybody else. (`client.go` 578, 583, 307)
3. `connection_lost`: `notifyLostAccess` sets `closed` after the only signal; the
   socket may stay open. (`client.go` 672-678)
4. `sql_commit`: the error of the deferred Commit is dropped; an append that was
   reported, acknowledged and announced may not be stored. (`sqlxdb.go` 123)
5. `redis_contract`: a read does not renew the expiry of a document in Redis, so
   one that is only read goes, where `socket.go` 69-71 and `README.md` 148-151
   count from the last activity or access. (`redisdb.go` 98-107)

The others are in the models as the code has them, are visible as constants of
`Documents` or as exceptions in properties, and most take a single caller:

- Of the three promises that `Documents` can do without, Redis needs all. Besides
  `OnlyWritesCount` (5 above) it needs `MissingIsEmpty`: APPEND to a document that
  was deleted or has expired creates it, where `socket.go` 57 asks for ErrMissing
  (`redisdb.go` 155-164); and `PutReplaces`: AddToken overwrites a document that
  was created after its test, where `socket.go` 76 asks for ErrConflict
  (`redisdb.go` 295, 309, 323). With one of them FALSE the run `stores` fails.
  `redis_contract` with an expiration of 0, where nothing expires, shows the
  first of the two, and with two callers and two calls the second.
- Memory needs `PutReplaces`: AddToken without contents empties an existing
  document (`memorydb.go` 190-195). With FALSE the run `stores` fails. SQL needs
  none of the three.
- UpdateUser on a SQL database executes `SET permissions=? WHERE userID=?` with
  `userID, permissions` (`sqlxdb.go` 283), so the user's tokens keep their
  permissions, where `socket.go` 84 says that all of them are updated; a token of
  a user whose name is the permission string gets a user's name for permissions.
  `SQLDB.UpdateUser` does the same, and `SQLTypeOK` admits such a name.
- `clean` of MemoryDocumentDB drops the tokens that have not expired and keeps the
  others (`memorydb.go` 75), where `socket.go` 80-81 has a token be found until it
  expires. `MemoryDB` does the same, so no property says that its tokens last.
- A key that is set again in MemoryDocumentDB is appended behind its first entry,
  and the first entry is the one compared (`memorydb.go` 141-150): the old version
  is accepted again and again, where `socket.go` 61-63 asks for ErrConflict.
  `KeysAreCompared` is therefore of Redis only.
- `Collab` and the other modules that use tokens assume the interface
  (`socket.go` 84), not the SQL store: what its UpdateUser leaves in the tokens is
  not in them.
- An error of HGETALL in Redis' AddToken counts as a token that does not exist
  (`redisdb.go` 288-289): the token that is there is overwritten. `IndexComplete`
  holds all the same.
- A client whose read of the session keys fails joins without them and is not told
  (`client.go` 111); `SessionKeysReach` excepts it.
- `IndexComplete` excepts tokens added during a maintenance pass over an index
  that listed them as gone, and tokens that `UpdateUser` brings back after they
  expired.
- `AckedIsStored` is checked with permissions being taken away. When "w" is
  granted between the test that drops the data and the choice of the answer,
  the request is acknowledged and its data is not stored; the run `collab` with
  a granting `NewPermissions` and a reader among `InitialTokens` shows it.
- `processAppend` reads `writePermission` once more in each of the two conditions
  that choose the answer (`client.go` 580, 584). A grant between these makes both
  false and ends in `log.Panic(nil)` (593), which ends the connection. `Verdict`
  reads it once: the case needs a grant, which the run `collab` does not have and
  `NeverGranted` excludes.
- A permission update whose notice comes between a joiner's token lookup and
  its registration does not reach it.
- MemoryDocumentDB accepts any old version for a key that is not there
  (`memorydb.go` 149), where the other stores ask for 0.
- A joining reader reads a client key (`client.go` 112), its owner leaves, the
  removal is sent, and only then the reader queues what it read. The endpoint
  knows better, until its user sets the name anew: the server starts versions
  over (`hub.go` 129), and the key that still waits has the higher one. When the
  next owner leaves, its removal is older than that key and is dropped
  (`client.go` 656). `RemovedKeysVanish` without its premise fails in TLC with
  three clients and versions 4, 1 and 2.
- AddToken on a SQL database recognises a token that exists by the word "UNIQUE"
  in the error (`sqlxdb.go` 252), which is SQLite's; MySQL, MariaDB and PostgreSQL
  return the driver's error where `socket.go` 76 asks for ErrExists.
- SetDocumentKey on a SQL database panics for a document that does not exist
  (`sqlxdb.go` 215).
- `stresstest.go` 50 says of `abort` that "we should abort everything". A reader
  tests it only between two messages: in `Stress` the other clients stay where
  they wait for one, and `wg.Wait` never returns (`Stopped`).
- The comment at `socket.go` 197 says the webhook comes a few minutes after the
  last user left; the delay in `hub.go` 112 is ten seconds. `Delay` is a
  parameter.

## Not modelled, and why

- The hub's calls for a high-availability extension: the extension is not in
  this repository and the stubs do nothing. The state its calls would touch is
  modelled.
- `http.go`, `ServeHTTP`, `verifyAuth`, JWT decoding: sequential code or I/O,
  with no state that outlives a call.
- Repetition of commands by the Redis client library: what `RedisDB` has is the
  outcome of a command, an error with its work done or not.
- Documents without a name: `MemoryDB.AddToken` leaves the test for one
  (`memorydb.go` 190) out, since the management API requires a name
  (`management.go` 131).
- The numbers a stress test measures and prints, and the letters it appends.
- In `Codec`, numbers of more than 31 bits: TLC has none. A field of eight bytes
  is written and read whole, its upper half being zero.
- Reads that overflow an `int` (`client.go` 490) and frame sizes below 3
  (`client.go` 253): listed as hazards.

## Plan

1. Keys and tokens: an abstract contract of their own beside `Documents`, so that
   all three stores are held to one.
2. `Collab`: a permission property (what a client without "w" never changes, and
   how long an update may be in coming); what holds after a deletion; creation
   by the management API. The hub's HAE calls, with an environment in the
   extension's place.
