-------------------------- MODULE ConnectionProofs --------------------------
(***************************************************************************)
(* Proofs about Connection, for any messages, key names and bounds: type   *)
(* correctness, no lost wake-up, no lost key version, everything flushed   *)
(* before the socket is closed, and that the connection implements Outbox. *)
(***************************************************************************)
EXTENDS Connection, TLAPS

Text == Msg \cup {Error}

\* TypeOK, one variable at a time.
TypeParts ==
    /\ reader \in {"init", "run", "leaving", "removed", "gone"}
    /\ hub \in {"idle", "closing"}
    /\ writer \in {"check", "waiting", "woken", "sending", "done", "dead"}
    /\ queued \in Seq(Text) /\ batch \in Seq(Text)
    /\ given \in Seq(Text) /\ wire \in Seq(Text)
    /\ keys \in KeyVersions /\ batchKeys \in KeyVersions
    /\ toldKeys \in KeyVersions /\ wireKeys \in KeyVersions
    /\ closed \in {"no", "yes"} /\ lastRound \in {"no", "yes"}
    /\ socket \in {"open", "closed"}
    /\ link \in {"up", "down"}
    /\ owed \in Nat
    /\ notices \in Nat

\* TypeOK says what its parts say, before and after a step.
LEMMA TypeSplit == (TypeOK <=> TypeParts) /\ (TypeOK' <=> TypeParts')
BY DEF TypeOK, TypeParts, Messages, Text

\* The newer of two versions is a version.
LEMMA NewerVersion ==
    ASSUME NEW v \in 0..MaxVersion, NEW w \in 0..MaxVersion
    PROVE  /\ Newer(v, w) \in 0..MaxVersion
           /\ Newer(v, w) >= v /\ Newer(v, w) >= w
           /\ Newer(v, w) = v \/ Newer(v, w) = w
BY BoundsAssumption DEF Newer

\* What client.enqueue does, in terms of its parts.
LEMMA EnqueueParts ==
    ASSUME TypeOK, NEW m \in Text, Enqueue(m)
    PROVE  /\ queued' \in Seq(Text) /\ given' \in Seq(Text)
           /\ queued' = Append(queued, m) /\ given' = Append(given, m)
           /\ writer' \in {"check", "woken", "sending", "done", "dead"}
           /\ writer' = writer \/ (writer = "waiting" /\ writer' = "woken")
BY TypeSplit DEF TypeParts, Enqueue, Signal

\* A connection that is set up has its types.
LEMMA InitType == Init => TypeOK
<1> SUFFICES ASSUME Init PROVE TypeOK
  OBVIOUS
<1>1. NoKeys \in KeyVersions
  BY BoundsAssumption DEF NoKeys, KeyVersions
<1>2. NotSet \in Nat
  BY BoundsAssumption DEF NotSet
<1>3. <<>> \in Seq(Text)
  OBVIOUS
<1> QED
  BY <1>1, <1>2, <1>3, TypeSplit DEF Init, TypeParts

\* Steps of the reader keep the types.
LEMMA ReaderType == TypeOK /\ Reader => TypeOK'
<1> SUFFICES ASSUME TypeOK, Reader PROVE TypeOK'
  OBVIOUS
<1> USE TypeSplit DEF TypeParts, locals, history
<1>1. CASE InitMissing \/ InitUnexpected \/ ReaderEnds \/ ReaderRemoved
  BY <1>1 DEF InitMissing, InitUnexpected, ReaderEnds, ReaderRemoved
<1>2. CASE InitRefused
  <2>1. CASE Enqueue(Error)
    BY <1>2, <2>1, EnqueueParts DEF InitRefused, Text
  <2>2. CASE UNCHANGED <<writer, queued, given>>
    BY <1>2, <2>2 DEF InitRefused
  <2> QED
    BY <1>2, <2>1, <2>2 DEF InitRefused
<1>3. CASE InitAccepted \/ ReaderEnqueues
  <2>1. PICK m \in Text : Enqueue(m)
    BY <1>3 DEF InitAccepted, ReaderEnqueues, Text
  <2> QED
    BY <1>3, <2>1, EnqueueParts DEF InitAccepted, ReaderEnqueues
<1>4. CASE ReaderCloses
  BY <1>4 DEF ReaderCloses, Close, Signal
<1> QED
  BY <1>1, <1>2, <1>3, <1>4 DEF Reader

\* Steps of the hub keep the types.
LEMMA HubType == TypeOK /\ Hub => TypeOK'
<1> SUFFICES ASSUME TypeOK, Hub PROVE TypeOK'
  OBVIOUS
<1> USE TypeSplit DEF TypeParts, locals, history
<1>1. CASE HubEnqueues \/ LoseAccess
  <2>1. PICK m \in Text : Enqueue(m)
    BY <1>1 DEF HubEnqueues, LoseAccess, Text
  <2> QED
    BY <1>1, <2>1, EnqueueParts DEF HubEnqueues, LoseAccess
<1>2. CASE NotifyKeysUpdated
  <2>1. PICK n \in KeyName, v \in 1..MaxVersion :
           /\ keys' = Merged(n, v)
           /\ toldKeys' = [toldKeys EXCEPT ![n] = Newer(v, @)]
           /\ IF v >= keys[n] THEN Signal ELSE UNCHANGED writer
    BY <1>2 DEF NotifyKeysUpdated
  <2>2. v \in 0..MaxVersion
    BY BoundsAssumption
  <2>3. keys' \in KeyVersions /\ toldKeys' \in KeyVersions
    BY <2>1, <2>2, NewerVersion DEF KeyVersions, Merged
  <2>4. writer' \in {"check", "waiting", "woken", "sending", "done", "dead"}
    BY <2>1 DEF Signal
  <2> QED
    BY <1>2, <2>3, <2>4 DEF NotifyKeysUpdated
<1>3. CASE CloseAfterLoss
  BY <1>3 DEF CloseAfterLoss, Close
<1> QED
  BY <1>1, <1>2, <1>3 DEF Hub

\* Steps of the writer keep the types.
LEMMA WriterType == TypeOK /\ Writer => TypeOK'
<1> SUFFICES ASSUME TypeOK, Writer PROVE TypeOK'
  OBVIOUS
<1> USE TypeSplit DEF TypeParts, locals, history
<1>0. NoKeys \in KeyVersions
  BY BoundsAssumption DEF NoKeys, KeyVersions
<1>1. CASE WriterWaits \/ WriterPanics \/ WriterLoops \/ WriterEnds
  BY <1>1 DEF WriterWaits, WriterPanics, WriterLoops, WriterEnds
<1>2. CASE WriterTakes
  BY <1>0, <1>2 DEF WriterTakes, Left
<1>3. CASE WriterSends
  <2>1. Head(batch) \in Text /\ Tail(batch) \in Seq(Text)
    BY <1>3 DEF WriterSends
  <2>2. wire' \in Seq(Text)
    BY <1>3, <2>1 DEF WriterSends
  <2> QED
    BY <1>3, <2>1, <2>2 DEF WriterSends
<1>4. CASE WriterSendsKeys
  <2>1. [n \in KeyName |-> Newer(batchKeys[n], wireKeys[n])] \in KeyVersions
    BY NewerVersion DEF KeyVersions
  <2> QED
    BY <1>0, <1>4, <2>1 DEF WriterSendsKeys
<1> QED
  BY <1>1, <1>2, <1>3, <1>4 DEF Writer

\* Every step keeps the variables in their types.
LEMMA TypeStep == TypeOK /\ [Next]_vars => TypeOK'
<1> SUFFICES ASSUME TypeOK, [Next]_vars PROVE TypeOK'
  OBVIOUS
<1>1. CASE LinkFails
  BY <1>1, TypeSplit DEF LinkFails, TypeParts, locals, history
<1>2. CASE Finished \/ UNCHANGED vars
  BY <1>2, TypeSplit DEF Finished, vars, TypeParts, locals, history
<1> QED
  BY <1>1, <1>2, ReaderType, HubType, WriterType DEF Next

\* Every variable of Connection keeps its type (client.go:24-56, 149-163).
THEOREM TypeCorrect == Spec => []TypeOK
<1>1. Init => TypeOK
  BY InitType
<1>2. TypeOK /\ [Next]_vars => TypeOK'
  BY TypeStep
<1> QED
  BY <1>1, <1>2, PTL DEF Spec
-----------------------------------------------------------------------------
(***************************************************************************)
(* No lost wake-up                                                         *)
(***************************************************************************)

\* A step that queues a message leaves no writer waiting.
LEMMA EnqueueWakes ==
    ASSUME TypeOK, NEW m \in Text, Enqueue(m)
    PROVE  writer' # "waiting"
BY EnqueueParts

\* The reader signals whatever it leaves for the writer.
LEMMA ReaderWakes == TypeOK /\ NoLostWakeup /\ Reader => NoLostWakeup'
<1> SUFFICES ASSUME TypeOK, NoLostWakeup, Reader PROVE NoLostWakeup'
  OBVIOUS
<1> USE DEF NoLostWakeup, locals, history
<1>1. CASE InitMissing \/ InitUnexpected \/ ReaderEnds \/ ReaderRemoved
  BY <1>1 DEF InitMissing, InitUnexpected, ReaderEnds, ReaderRemoved
<1>2. CASE InitRefused
  BY <1>2, EnqueueWakes DEF InitRefused, Text
<1>3. CASE InitAccepted \/ ReaderEnqueues
  BY <1>3, EnqueueWakes DEF InitAccepted, ReaderEnqueues, Text
<1>4. CASE ReaderCloses
  BY <1>4 DEF ReaderCloses, Signal
<1> QED
  BY <1>1, <1>2, <1>3, <1>4 DEF Reader

\* So does the hub; a key that is not newer than the pending one changes
\* nothing and wakes nobody.
LEMMA HubWakes == TypeOK /\ NoLostWakeup /\ Hub => NoLostWakeup'
<1> SUFFICES ASSUME TypeOK, NoLostWakeup, Hub PROVE NoLostWakeup'
  OBVIOUS
<1> USE DEF NoLostWakeup, locals, history
<1>1. CASE HubEnqueues \/ LoseAccess
  BY <1>1, EnqueueWakes DEF HubEnqueues, LoseAccess, Text
<1>2. CASE NotifyKeysUpdated
  <2>1. PICK n \in KeyName, v \in 1..MaxVersion :
           /\ keys' = Merged(n, v)
           /\ IF v >= keys[n] THEN Signal ELSE UNCHANGED writer
    BY <1>2 DEF NotifyKeysUpdated
  <2>2. CASE v >= keys[n]
    BY <2>1, <2>2 DEF Signal
  <2>3. CASE ~(v >= keys[n])
    <3>1. keys' = keys
      BY <2>1, <2>3, TypeSplit DEF Merged, Newer, TypeParts, KeyVersions
    <3> QED
      BY <1>2, <2>1, <2>3, <3>1 DEF NotifyKeysUpdated
  <2> QED
    BY <2>2, <2>3
<1>3. CASE CloseAfterLoss
  BY <1>3 DEF CloseAfterLoss
<1> QED
  BY <1>1, <1>2, <1>3 DEF Hub

\* The writer waits only when it has found nothing.
LEMMA WakeStep == TypeOK /\ NoLostWakeup /\ [Next]_vars => NoLostWakeup'
<1> SUFFICES ASSUME TypeOK, NoLostWakeup, [Next]_vars PROVE NoLostWakeup'
  OBVIOUS
<1>1. CASE Writer
  BY <1>1 DEF Writer, WriterWaits, WriterTakes, WriterSends, WriterSendsKeys,
              WriterPanics, WriterLoops, WriterEnds, Nothing, NoLostWakeup
<1>2. CASE LinkFails \/ Finished \/ UNCHANGED vars
  BY <1>2 DEF LinkFails, Finished, vars, NoLostWakeup
<1> QED
  BY <1>1, <1>2, ReaderWakes, HubWakes DEF Next

\* The writer never sleeps on a message or a key that is to be sent
\* (client.go:154-156, 270-275, 667).
THEOREM NoWakeupLost == Spec => []NoLostWakeup
<1>1. Init => NoLostWakeup
  BY DEF Init, NoLostWakeup
<1>2. TypeOK /\ NoLostWakeup /\ [Next]_vars => NoLostWakeup'
  BY WakeStep
<1> QED
  BY <1>1, <1>2, TypeCorrect, PTL DEF Spec
-----------------------------------------------------------------------------
(***************************************************************************)
(* The invariants behind the other theorems                                *)
(***************************************************************************)

\* Between two rounds nothing is in the writer's hands.
Idle == writer \in {"check", "waiting", "woken"} =>
            batch = <<>> /\ batchKeys = NoKeys

\* What was given is what was sent, what the round holds and what is queued.
Fifo == Open = "open" =>
    /\ Len(given) = Len(wire) + Len(batch) + Len(queued)
    /\ \A i \in 1..Len(wire) : given[i] = wire[i]
    /\ \A i \in 1..Len(batch) : given[Len(wire) + i] = batch[i]
    /\ \A i \in 1..Len(queued) :
          given[Len(wire) + Len(batch) + i] = queued[i]

\* Who may have set closed, and who may have closed the socket.
Ordered ==
    /\ reader = "init" => hub = "idle" /\ closed = "no"
    /\ lastRound = "yes" => closed = "yes"
    /\ closed = "yes" => owed <= Len(given)
    /\ socket = "closed" =>
          \/ writer \in {"done", "dead"}
          \/ reader = "gone" /\ hub = "idle" /\ closed = "no"

\* The last round holds whatever was owed and is not sent yet.
LastRoundFlushes ==
    /\ writer = "done" => lastRound = "yes"
    /\ writer = "sending" /\ lastRound = "yes" /\ link = "up" =>
          Len(wire) + Len(batch) >= owed
    /\ writer = "done" /\ link = "up" => Len(wire) >= owed

\* A step that queues a message leaves the writer where it was, or wakes it.
LEMMA EnqueueIdle ==
    ASSUME TypeOK, Idle, NEW m \in Text, Enqueue(m),
           UNCHANGED <<batch, batchKeys>>
    PROVE  Idle'
BY EnqueueParts DEF Idle

\* Only the writer touches its round, and it ends a round with empty hands.
LEMMA IdleStep == TypeOK /\ Idle /\ [Next]_vars => Idle'
<1> SUFFICES ASSUME TypeOK, Idle, [Next]_vars PROVE Idle'
  OBVIOUS
<1>1. CASE Reader
  <2> USE DEF locals, history
  <2>1. CASE InitMissing \/ InitUnexpected \/ ReaderEnds \/ ReaderRemoved
    BY <2>1 DEF InitMissing, InitUnexpected, ReaderEnds, ReaderRemoved, Idle
  <2>2. CASE InitRefused
    BY <2>2, EnqueueIdle DEF InitRefused, Text, Idle
  <2>3. CASE InitAccepted \/ ReaderEnqueues
    BY <2>3, EnqueueIdle DEF InitAccepted, ReaderEnqueues, Text
  <2>4. CASE ReaderCloses
    BY <2>4 DEF ReaderCloses, Signal, Idle
  <2> QED
    BY <1>1, <2>1, <2>2, <2>3, <2>4 DEF Reader
<1>2. CASE Hub
  <2> USE DEF locals, history
  <2>1. CASE HubEnqueues \/ LoseAccess
    BY <2>1, EnqueueIdle DEF HubEnqueues, LoseAccess, Text
  <2>2. CASE NotifyKeysUpdated
    BY <2>2 DEF NotifyKeysUpdated, Signal, Idle
  <2>3. CASE CloseAfterLoss
    BY <2>3 DEF CloseAfterLoss, Idle
  <2> QED
    BY <1>2, <2>1, <2>2, <2>3 DEF Hub
<1>3. CASE Writer
  BY <1>3 DEF Writer, WriterWaits, WriterTakes, WriterSends, WriterSendsKeys,
              WriterPanics, WriterLoops, WriterEnds, Idle, locals
<1>4. CASE LinkFails \/ Finished \/ UNCHANGED vars
  BY <1>4 DEF LinkFails, Finished, vars, locals, Idle
<1> QED
  BY <1>1, <1>2, <1>3, <1>4 DEF Next

-----------------------------------------------------------------------------
(***************************************************************************)
(* Key versions                                                            *)
(***************************************************************************)

\* A step that touches neither keys nor Open keeps NewestKeyKept.
LEMMA KeysUntouched ==
    ASSUME NewestKeyKept, Open' = Open,
           UNCHANGED <<keys, batchKeys, toldKeys, wireKeys>>
    PROVE  NewestKeyKept'
BY DEF NewestKeyKept

\* The newest version told of a key is pending, in the round or sent, after a
\* step too.
LEMMA KeysStep == TypeOK /\ Idle /\ NewestKeyKept /\ [Next]_vars
                      => NewestKeyKept'
<1> SUFFICES ASSUME TypeOK, Idle, NewestKeyKept, [Next]_vars
             PROVE  NewestKeyKept'
  OBVIOUS
<1>1. CASE Open' = "shut"
  BY <1>1 DEF NewestKeyKept
<1>2. CASE Open' # "shut"
  <2>1. Open' = "open" /\ socket' = "open" /\ link' = "up"
    BY <1>2 DEF Open
  <2>2. CASE Reader
    <3>1. UNCHANGED <<keys, batchKeys, toldKeys, wireKeys>> /\ Open' = Open
      BY <2>1, <2>2 DEF Reader, InitMissing, InitUnexpected, InitRefused,
           InitAccepted, ReaderEnqueues, ReaderEnds, ReaderRemoved,
           ReaderCloses, locals, history, Open
    <3> QED
      BY <3>1, KeysUntouched
  <2>3. CASE HubEnqueues \/ LoseAccess \/ CloseAfterLoss
    <3>1. UNCHANGED <<keys, batchKeys, toldKeys, wireKeys>> /\ Open' = Open
      BY <2>3 DEF HubEnqueues, LoseAccess, CloseAfterLoss, locals, Open
    <3> QED
      BY <3>1, KeysUntouched
  <2>4. CASE NotifyKeysUpdated
    <3>1. PICK n \in KeyName, v \in 1..MaxVersion :
             /\ keys' = Merged(n, v)
             /\ toldKeys' = [toldKeys EXCEPT ![n] = Newer(v, @)]
      BY <2>4 DEF NotifyKeysUpdated
    <3>2. UNCHANGED <<batchKeys, wireKeys>> /\ Open' = Open
      BY <2>4 DEF NotifyKeysUpdated, locals, Open
    <3>3. ASSUME NEW k \in KeyName
          PROVE  \E w \in {keys'[k], batchKeys'[k], wireKeys'[k]} :
                    w >= toldKeys'[k]
      <4>1. \E w \in {keys[k], batchKeys[k], wireKeys[k]} : w >= toldKeys[k]
        BY <2>1, <3>2 DEF NewestKeyKept
      <4>2. /\ keys[k] \in Nat /\ toldKeys[k] \in Nat
            /\ batchKeys[k] \in Nat /\ wireKeys[k] \in Nat
        BY TypeSplit, BoundsAssumption DEF TypeParts, KeyVersions
      <4>3. CASE k = n
        <5>1. keys'[k] = Newer(v, keys[k]) /\ toldKeys'[k] = Newer(v, toldKeys[k])
          BY <3>1, <4>3, TypeSplit DEF TypeParts, KeyVersions, Merged
        <5> QED
          BY <3>2, <4>1, <4>2, <5>1 DEF Newer
      <4>4. CASE k # n
        <5>1. keys'[k] = keys[k] /\ toldKeys'[k] = toldKeys[k]
          BY <3>1, <4>4, TypeSplit DEF TypeParts, KeyVersions, Merged
        <5> QED
          BY <3>2, <4>1, <5>1
      <4> QED
        BY <4>3, <4>4
    <3> QED
      BY <3>3 DEF NewestKeyKept
  <2>5. CASE WriterTakes
    <3>1. batchKeys = NoKeys /\ batchKeys' = keys
          /\ UNCHANGED <<toldKeys, wireKeys>> /\ Open' = Open
      BY <2>5 DEF WriterTakes, Idle, history, Open
    <3>2. ASSUME NEW k \in KeyName
          PROVE  \E w \in {keys'[k], batchKeys'[k], wireKeys'[k]} :
                    w >= toldKeys'[k]
      <4>1. \E w \in {keys[k], batchKeys[k], wireKeys[k]} : w >= toldKeys[k]
        BY <2>1, <3>1 DEF NewestKeyKept
      <4>2. batchKeys[k] = 0 /\ keys[k] \in Nat /\ toldKeys[k] \in Nat
        BY <3>1, TypeSplit, BoundsAssumption
           DEF NoKeys, TypeParts, KeyVersions
      <4> QED
        BY <3>1, <4>1, <4>2
    <3> QED
      BY <3>2 DEF NewestKeyKept
  <2>6. CASE WriterSendsKeys
    <3>1. /\ wireKeys' = [k \in KeyName |-> Newer(batchKeys[k], wireKeys[k])]
          /\ UNCHANGED <<keys, toldKeys>> /\ Open' = Open
      BY <2>1, <2>6 DEF WriterSendsKeys, Open
    <3>2. ASSUME NEW k \in KeyName
          PROVE  \E w \in {keys'[k], batchKeys'[k], wireKeys'[k]} :
                    w >= toldKeys'[k]
      <4>1. \E w \in {keys[k], batchKeys[k], wireKeys[k]} : w >= toldKeys[k]
        BY <2>1, <3>1 DEF NewestKeyKept
      <4>2. /\ toldKeys[k] \in Nat
            /\ batchKeys[k] \in Nat /\ wireKeys[k] \in Nat
        BY TypeSplit, BoundsAssumption DEF TypeParts, KeyVersions
      <4> QED
        BY <3>1, <4>1, <4>2 DEF Newer
    <3> QED
      BY <3>2 DEF NewestKeyKept
  <2>7. CASE WriterWaits \/ WriterSends \/ WriterPanics \/ WriterLoops
             \/ WriterEnds
    <3>1. UNCHANGED <<keys, batchKeys, toldKeys, wireKeys>> /\ Open' = Open
      BY <2>1, <2>7 DEF WriterWaits, WriterSends, WriterPanics, WriterLoops,
           WriterEnds, locals, history, Open
    <3> QED
      BY <3>1, KeysUntouched
  <2>8. CASE LinkFails \/ Finished \/ UNCHANGED vars
    <3>1. UNCHANGED <<keys, batchKeys, toldKeys, wireKeys>> /\ Open' = Open
      BY <2>1, <2>8 DEF LinkFails, Finished, vars, locals, history, Open
    <3> QED
      BY <3>1, KeysUntouched
  <2> QED
    BY <2>2, <2>3, <2>4, <2>5, <2>6, <2>7, <2>8 DEF Next, Hub, Writer
<1> QED
  BY <1>1, <1>2

\* The newest version of a key that the client was told of is never lost to an
\* older one: it is pending, in the writer's round or sent
\* (client.go:642-669, 159-184).
THEOREM NewestKeyHolds == Spec => []NewestKeyKept
<1>1. Init => Idle /\ NewestKeyKept
  BY DEF Init, Idle, NewestKeyKept, NoKeys
<1>2. TypeOK /\ Idle /\ NewestKeyKept /\ [Next]_vars
          => (Idle /\ NewestKeyKept)'
  BY IdleStep, KeysStep
<1> QED
  BY <1>1, <1>2, TypeCorrect, PTL DEF Spec

-----------------------------------------------------------------------------
(***************************************************************************)
(* The queue as a FIFO                                                     *)
(***************************************************************************)

\* A step that moves no message keeps Fifo.
LEMMA MessagesUntouched ==
    ASSUME Fifo, Open' = "open" => Open = "open",
           UNCHANGED <<given, wire, batch, queued>>
    PROVE  Fifo'
BY DEF Fifo

\* A message queued goes to the end.
LEMMA EnqueueFifo ==
    ASSUME TypeOK, Fifo, NEW m \in Text, Enqueue(m), Open' = Open,
           UNCHANGED <<wire, batch>>
    PROVE  Fifo'
<1>1. /\ queued \in Seq(Text) /\ given \in Seq(Text)
      /\ batch \in Seq(Text) /\ wire \in Seq(Text)
  BY TypeSplit DEF TypeParts
<1>2. queued' = Append(queued, m) /\ given' = Append(given, m)
  BY EnqueueParts
<1>3. CASE Open = "open"
  <2>1. Len(given) = Len(wire) + Len(batch) + Len(queued)
    BY <1>3 DEF Fifo
  <2>2. Len(given') = Len(wire') + Len(batch') + Len(queued')
    BY <1>1, <1>2, <2>1
  <2>3. ASSUME NEW i \in 1..Len(wire') PROVE given'[i] = wire'[i]
    <3>1. given[i] = wire[i] /\ i \in 1..Len(given)
      BY <1>1, <1>3, <2>1 DEF Fifo
    <3> QED
      BY <1>1, <1>2, <3>1
  <2>4. ASSUME NEW i \in 1..Len(batch')
        PROVE  given'[Len(wire') + i] = batch'[i]
    <3>1. given[Len(wire) + i] = batch[i]
      BY <1>3 DEF Fifo
    <3>2. Len(wire) + i \in 1..Len(given)
      BY <1>1, <2>1
    <3> QED
      BY <1>1, <1>2, <3>1, <3>2
  <2>5. ASSUME NEW i \in 1..Len(queued')
        PROVE  given'[Len(wire') + Len(batch') + i] = queued'[i]
    <3>1. CASE i = Len(queued) + 1
      BY <1>1, <1>2, <2>1, <3>1
    <3>2. CASE i # Len(queued) + 1
      <4>1. i \in 1..Len(queued)
        BY <1>1, <1>2, <3>2
      <4>2. given[Len(wire) + Len(batch) + i] = queued[i]
        BY <1>3, <4>1 DEF Fifo
      <4>3. Len(wire) + Len(batch) + i \in 1..Len(given)
        BY <1>1, <2>1, <4>1
      <4> QED
        BY <1>1, <1>2, <4>1, <4>2, <4>3
    <3> QED
      BY <3>1, <3>2
  <2> QED
    BY <2>2, <2>3, <2>4, <2>5 DEF Fifo
<1> QED
  BY <1>3 DEF Fifo

\* The round takes over the queue when it holds nothing itself.
LEMMA TakeFifo ==
    ASSUME TypeOK, Idle, Fifo, WriterTakes
    PROVE  Fifo'
<1>1. batch = <<>> /\ batch' = queued /\ queued' = <<>>
  BY DEF WriterTakes, Idle, Left
<1>2. UNCHANGED <<given, wire>> /\ Open' = Open
  BY DEF WriterTakes, history, Open
<1>3. queued \in Seq(Text) /\ wire \in Seq(Text)
  BY TypeSplit DEF TypeParts
<1> QED
  BY <1>1, <1>2, <1>3 DEF Fifo

\* The message at the head of the round is the next one that was given.
LEMMA SendParts ==
    ASSUME TypeOK, Fifo, WriterSends, Open = "open"
    PROVE  /\ wire' = Append(wire, Head(batch)) /\ batch' = Tail(batch)
           /\ UNCHANGED <<given, queued>> /\ Open' = Open
           /\ Len(wire) < Len(given)
           /\ Head(batch) = given[Len(wire) + 1]
<1>1. /\ wire' = Append(wire, Head(batch)) /\ batch' = Tail(batch)
      /\ UNCHANGED <<given, queued>> /\ Open' = Open
      /\ batch # <<>>
  BY DEF WriterSends, Open
<1>2. /\ queued \in Seq(Text) /\ given \in Seq(Text)
      /\ batch \in Seq(Text) /\ wire \in Seq(Text)
  BY TypeSplit DEF TypeParts
<1>3. 1 \in 1..Len(batch) /\ Head(batch) = batch[1]
  BY <1>1, <1>2
<1>4. given[Len(wire) + 1] = batch[1]
  BY <1>3 DEF Fifo
<1>5. Len(given) = Len(wire) + Len(batch) + Len(queued)
  BY DEF Fifo
<1> QED
  BY <1>1, <1>2, <1>3, <1>4, <1>5

\* So sending it keeps the order.
LEMMA SendFifo ==
    ASSUME TypeOK, Fifo, WriterSends
    PROVE  Fifo'
<1>1. CASE Open = "open"
  <2>1. /\ queued \in Seq(Text) /\ given \in Seq(Text)
        /\ batch \in Seq(Text) /\ wire \in Seq(Text)
    BY TypeSplit DEF TypeParts
  <2>2. /\ wire' = Append(wire, Head(batch)) /\ batch' = Tail(batch)
        /\ UNCHANGED <<given, queued>>
        /\ Head(batch) = given[Len(wire) + 1]
    BY <1>1, SendParts
  <2>3. batch # <<>>
    BY DEF WriterSends
  <2>4. Head(batch) \in Text
    BY <2>1, <2>3
  <2>5. /\ Len(wire') = Len(wire) + 1
        /\ Len(batch') = Len(batch) - 1
        /\ \A i \in 1..Len(wire) : wire'[i] = wire[i]
        /\ wire'[Len(wire) + 1] = Head(batch)
        /\ \A i \in 1..Len(batch') : batch'[i] = batch[i + 1]
    BY <2>1, <2>2, <2>3, <2>4
  <2>6. Len(given') = Len(wire') + Len(batch') + Len(queued')
    <3>1. Len(given) = Len(wire) + Len(batch) + Len(queued)
      BY <1>1 DEF Fifo
    <3>2. Len(wire') = Len(wire) + 1 /\ Len(batch') = Len(batch) - 1
      BY <2>5
    <3>3. Len(wire) \in Nat /\ Len(batch) \in Nat /\ Len(queued) \in Nat
      BY <2>1
    <3>4. Len(given') = Len(given) /\ Len(queued') = Len(queued)
      BY <2>2
    <3> QED
      BY <3>1, <3>2, <3>3, <3>4
  <2>7. ASSUME NEW i \in 1..Len(wire') PROVE given'[i] = wire'[i]
    <3>1. CASE i = Len(wire) + 1
      BY <2>2, <2>5, <3>1
    <3>2. CASE i # Len(wire) + 1
      <4>1. i \in 1..Len(wire)
        BY <2>1, <2>5, <3>2
      <4>2. given[i] = wire[i]
        BY <1>1, <4>1 DEF Fifo
      <4> QED
        BY <2>2, <2>5, <4>1, <4>2
    <3> QED
      BY <3>1, <3>2
  <2>8. ASSUME NEW i \in 1..Len(batch')
        PROVE  given'[Len(wire') + i] = batch'[i]
    <3>1. i + 1 \in 1..Len(batch)
      BY <2>1, <2>5
    <3>2. given[Len(wire) + (i + 1)] = batch[i + 1]
      BY <1>1, <3>1 DEF Fifo
    <3> QED
      BY <2>1, <2>2, <2>5, <3>2
  <2>9. ASSUME NEW i \in 1..Len(queued')
        PROVE  given'[Len(wire') + Len(batch') + i] = queued'[i]
    <3>1. given[Len(wire) + Len(batch) + i] = queued[i]
      BY <1>1, <2>2 DEF Fifo
    <3>2. Len(wire') + Len(batch') = Len(wire) + Len(batch)
      BY <2>1, <2>5
    <3> QED
      BY <2>2, <3>1, <3>2
  <2> QED
    BY <2>6, <2>7, <2>8, <2>9 DEF Fifo
<1>2. CASE Open # "open"
  BY <1>2 DEF Fifo, WriterSends, Open
<1> QED
  BY <1>1, <1>2

\* What a step may do to the messages.
Moves ==
    \/ UNCHANGED <<given, wire, batch, queued>>
    \/ (\E m \in Text : Enqueue(m)) /\ UNCHANGED <<wire, batch, socket, link>>
    \/ WriterTakes
    \/ WriterSends

\* Every step moves messages in one of those ways.
LEMMA MessageMoves == [Next]_vars => Moves
<1> SUFFICES ASSUME [Next]_vars PROVE Moves
  OBVIOUS
<1>1. CASE Reader
  BY <1>1 DEF Reader, InitMissing, InitUnexpected, InitRefused, InitAccepted,
              ReaderEnqueues, ReaderEnds, ReaderRemoved, ReaderCloses, locals,
              history, Moves, Text
<1>2. CASE Hub
  BY <1>2 DEF Hub, HubEnqueues, NotifyKeysUpdated, LoseAccess, CloseAfterLoss,
              locals, Moves, Text
<1>3. CASE Writer
  BY <1>3 DEF Writer, WriterWaits, WriterSendsKeys, WriterPanics, WriterLoops,
              WriterEnds, locals, history, Moves
<1>4. CASE LinkFails \/ Finished \/ UNCHANGED vars
  BY <1>4 DEF LinkFails, Finished, vars, locals, history, Moves
<1> QED
  BY <1>1, <1>2, <1>3, <1>4 DEF Next

\* A connection that is shut stays shut.
LEMMA ShutStays == [Next]_vars /\ Open' = "open" => Open = "open"
<1> SUFFICES ASSUME [Next]_vars, Open' = "open" PROVE Open = "open"
  OBVIOUS
<1>1. socket' = "open" /\ link' = "up"
  BY DEF Open
<1>2. CASE Reader
  BY <1>1, <1>2 DEF Reader, InitMissing, InitUnexpected, InitRefused,
     InitAccepted, ReaderEnqueues, ReaderEnds, ReaderRemoved, ReaderCloses, Open
<1>3. CASE Hub
  BY <1>1, <1>3 DEF Hub, HubEnqueues, NotifyKeysUpdated, LoseAccess,
     CloseAfterLoss, Open
<1>4. CASE Writer
  BY <1>1, <1>4 DEF Writer, WriterWaits, WriterTakes, WriterSends,
     WriterSendsKeys, WriterPanics, WriterLoops, WriterEnds, Open
<1>5. CASE LinkFails \/ Finished \/ UNCHANGED vars
  BY <1>1, <1>5 DEF LinkFails, Finished, vars, Open
<1> QED
  BY <1>2, <1>3, <1>4, <1>5 DEF Next

\* The queue stays a FIFO.
LEMMA FifoStep == TypeOK /\ Idle /\ Fifo /\ [Next]_vars => Fifo'
<1> SUFFICES ASSUME TypeOK, Idle, Fifo, [Next]_vars PROVE Fifo'
  OBVIOUS
<1>1. CASE UNCHANGED <<given, wire, batch, queued>>
  BY <1>1, ShutStays, MessagesUntouched
<1>2. CASE (\E m \in Text : Enqueue(m)) /\ UNCHANGED <<wire, batch, socket, link>>
  <2>1. Open' = Open
    BY <1>2 DEF Open
  <2> QED
    BY <1>2, <2>1, EnqueueFifo
<1> QED
  BY <1>1, <1>2, MessageMoves, TakeFifo, SendFifo DEF Moves

-----------------------------------------------------------------------------
(***************************************************************************)
(* The connection implements Outbox                                        *)
(***************************************************************************)

\* A step of the connection is a step of the outbox, or leaves it alone.
LEMMA OutboxStep ==
    TypeOK /\ Fifo /\ [Next]_vars => [Box!Next]_(Box!outbox)
<1> SUFFICES ASSUME TypeOK, Fifo, [Next]_vars
             PROVE  Box!Next \/ UNCHANGED Box!outbox
  OBVIOUS
<1> USE DEF Box!Next, Box!outbox
<1>0. Open \in {"open", "shut"} /\ Open' \in {"open", "shut"}
  BY DEF Open
<1>1. CASE UNCHANGED <<given, wire, batch, queued>>
  BY <1>0, <1>1, ShutStays DEF Box!Shut
<1>2. CASE (\E m \in Text : Enqueue(m)) /\ UNCHANGED <<wire, batch, socket, link>>
  BY <1>2 DEF Enqueue, Text, Open, Box!Accept
<1>3. CASE WriterTakes
  BY <1>3 DEF WriterTakes, history, Open
<1>4. CASE WriterSends
  <2>1. CASE Open = "open"
    BY <1>4, <2>1, SendParts DEF Box!Deliver
  <2>2. CASE Open = "shut"
    BY <1>4, <2>2 DEF WriterSends, Open
  <2> QED
    BY <1>0, <2>1, <2>2
<1> QED
  BY <1>1, <1>2, <1>3, <1>4, MessageMoves DEF Moves

\* The queue, the writer's rounds and the condition variable together are a
\* FIFO that loses, repeats and reorders nothing while the connection is open
\* (client.go:141-187, 270-275).
THEOREM ImplementsOutbox == Spec => IsOutbox
<1>1. Init => Box!Init
  BY DEF Init, Open, Box!Init
<1>2. Init => Idle /\ Fifo
  BY DEF Init, Idle, Fifo, NoKeys
<1>3. TypeOK /\ Idle /\ Fifo /\ [Next]_vars => (Idle /\ Fifo)'
  BY IdleStep, FifoStep
<1>4. TypeOK /\ Fifo /\ [Next]_vars => [Box!Next]_(Box!outbox)
  BY OutboxStep
<1>5. Spec => Box!Spec
  BY <1>1, <1>2, <1>3, <1>4, TypeCorrect, PTL DEF Spec, Box!Spec
<1> QED
  BY <1>5 DEF IsOutbox

-----------------------------------------------------------------------------
(***************************************************************************)
(* Everything owed is sent before the socket is closed                     *)
(***************************************************************************)

\* Only queueing changes what was given, and it adds to it.
LEMMA GivenGrows ==
    ASSUME TypeOK, [Next]_vars
    PROVE  Len(given) \in Nat /\ Len(given') >= Len(given)
<1>1. given \in Seq(Text)
  BY TypeSplit DEF TypeParts
<1>2. CASE UNCHANGED given
  BY <1>1, <1>2
<1>3. CASE \E m \in Text : Enqueue(m)
  BY <1>1, <1>3, EnqueueParts
<1>4. CASE WriterTakes \/ WriterSends
  BY <1>1, <1>4 DEF WriterTakes, WriterSends, history
<1> QED
  BY <1>2, <1>3, <1>4, MessageMoves DEF Moves

\* An ended writer stays as it is, whoever signals.
LEMMA SignalEnded ==
    ASSUME \/ UNCHANGED writer
           \/ Signal
           \/ \E m \in Text : Enqueue(m)
    PROVE  /\ writer \in {"done", "dead"} => writer' = writer
           /\ writer' \in {"sending", "done"} => writer' = writer
BY DEF Signal, Enqueue

\* The reader and the hub keep Ordered: closed is set and the socket is closed
\* in the order the clean-up prescribes.
LEMMA OrderedReaderHub ==
    TypeOK /\ Ordered /\ (Reader \/ Hub) => Ordered'
<1> SUFFICES ASSUME TypeOK, Ordered, Reader \/ Hub PROVE Ordered'
  OBVIOUS
<1> USE DEF Ordered, locals, history
<1>0. /\ Len(given) \in Nat /\ Len(given') >= Len(given) /\ owed \in Nat
      /\ closed \in {"no", "yes"}
  BY GivenGrows, TypeSplit DEF Next, TypeParts
<1>1. CASE InitMissing \/ InitUnexpected \/ ReaderEnds \/ ReaderRemoved
  BY <1>1 DEF InitMissing, InitUnexpected, ReaderEnds, ReaderRemoved
<1>2. CASE InitRefused
  BY <1>0, <1>2, SignalEnded DEF InitRefused, Text
<1>3. CASE InitAccepted
  BY <1>0, <1>3, SignalEnded DEF InitAccepted, Text
<1>4. CASE ReaderEnqueues
  BY <1>0, <1>4, SignalEnded DEF ReaderEnqueues, Text
<1>5. CASE ReaderCloses
  BY <1>0, <1>5, SignalEnded DEF ReaderCloses, Close
<1>6. CASE HubEnqueues
  BY <1>0, <1>6, SignalEnded DEF HubEnqueues, InSession, Text
<1>7. CASE NotifyKeysUpdated
  BY <1>7, SignalEnded DEF NotifyKeysUpdated, InSession
<1>8. CASE LoseAccess
  BY <1>0, <1>8, SignalEnded DEF LoseAccess, InSession, Text
<1>9. CASE CloseAfterLoss
  BY <1>0, <1>9 DEF CloseAfterLoss, Close
<1> QED
  BY <1>1, <1>2, <1>3, <1>4, <1>5, <1>6, <1>7, <1>8, <1>9 DEF Reader, Hub

\* Every step keeps Ordered.
LEMMA OrderedStep == TypeOK /\ Ordered /\ [Next]_vars => Ordered'
<1> SUFFICES ASSUME TypeOK, Ordered, [Next]_vars PROVE Ordered'
  OBVIOUS
<1>1. CASE Writer
  BY <1>1 DEF Writer, WriterWaits, WriterTakes, WriterSends, WriterSendsKeys,
     WriterPanics, WriterLoops, WriterEnds, locals, history, Ordered
<1>2. CASE LinkFails \/ Finished \/ UNCHANGED vars
  BY <1>2 DEF LinkFails, Finished, vars, locals, history, Ordered
<1> QED
  BY <1>1, <1>2, OrderedReaderHub DEF Next

\* Neither the reader nor the hub changes what the last round has to send: the
\* number owed is settled when closed is set first, before that round begins.
LEMMA FlushReaderHub ==
    TypeOK /\ Ordered /\ LastRoundFlushes /\ (Reader \/ Hub)
        => LastRoundFlushes'
<1> SUFFICES ASSUME TypeOK, Ordered, LastRoundFlushes, Reader \/ Hub
             PROVE  LastRoundFlushes'
  OBVIOUS
<1> USE DEF LastRoundFlushes, locals, history
<1>1. CASE InitMissing \/ InitUnexpected \/ ReaderEnds \/ ReaderRemoved
  BY <1>1 DEF InitMissing, InitUnexpected, ReaderEnds, ReaderRemoved
<1>2. CASE InitRefused \/ InitAccepted \/ ReaderEnqueues
  BY <1>2, SignalEnded DEF InitRefused, InitAccepted, ReaderEnqueues, Text
<1>3. CASE ReaderCloses
  BY <1>3, SignalEnded DEF ReaderCloses, Close, Ordered
<1>4. CASE HubEnqueues \/ LoseAccess
  BY <1>4, SignalEnded DEF HubEnqueues, LoseAccess, Text
<1>5. CASE NotifyKeysUpdated
  BY <1>5, SignalEnded DEF NotifyKeysUpdated
<1>6. CASE CloseAfterLoss
  BY <1>6 DEF CloseAfterLoss, Close, Ordered
<1> QED
  BY <1>1, <1>2, <1>3, <1>4, <1>5, <1>6 DEF Reader, Hub

\* The round that sees closed takes everything owed, and ends with it sent.
LEMMA FlushStep ==
    TypeOK /\ Idle /\ Fifo /\ Ordered /\ LastRoundFlushes /\ [Next]_vars
        => LastRoundFlushes'
<1> SUFFICES ASSUME TypeOK, Idle, Fifo, Ordered, LastRoundFlushes, [Next]_vars
             PROVE  LastRoundFlushes'
  OBVIOUS
<1>0. /\ queued \in Seq(Text) /\ wire \in Seq(Text) /\ batch \in Seq(Text)
      /\ owed \in Nat /\ socket \in {"open", "closed"}
  BY TypeSplit DEF TypeParts
<1>1. CASE WriterTakes
  <2>1. /\ batch = <<>> /\ batch' = queued /\ lastRound' = closed
        /\ writer' = "sending" /\ writer \in {"check", "woken"}
        /\ UNCHANGED <<wire, owed, link, socket, given>>
    BY <1>1 DEF WriterTakes, Idle, history
  <2>2. ASSUME closed = "yes", link = "up"
        PROVE  Len(wire) + Len(queued) >= owed
    <3>1. Open = "open"
      BY <1>0, <2>1, <2>2 DEF Ordered, Open
    <3>2. Len(given) = Len(wire) + Len(queued)
      BY <1>0, <2>1, <3>1 DEF Fifo
    <3> QED
      BY <1>0, <2>2, <3>2 DEF Ordered
  <2> QED
    BY <2>1, <2>2 DEF LastRoundFlushes
<1>2. CASE WriterSends
  <2>1. UNCHANGED <<writer, lastRound, link, owed>> /\ writer = "sending"
    BY <1>2 DEF WriterSends
  <2>2. ASSUME lastRound = "yes", link = "up"
        PROVE  Len(wire') + Len(batch') >= owed
    <3>1. socket = "open"
      BY <1>0, <2>1, <2>2 DEF Ordered
    <3>2. batch # <<>> /\ batch' = Tail(batch)
          /\ wire' = Append(wire, Head(batch))
      BY <1>2, <2>2, <3>1 DEF WriterSends
    <3>3. Len(batch') = Len(batch) - 1 /\ Len(wire') = Len(wire) + 1
      BY <1>0, <3>2
    <3>4. Len(wire) + Len(batch) >= owed
      BY <2>1, <2>2 DEF LastRoundFlushes
    <3> QED
      BY <1>0, <3>3, <3>4
  <2> QED
    BY <2>1, <2>2 DEF LastRoundFlushes
<1>3. CASE WriterEnds
  <2>1. /\ writer = "sending" /\ lastRound = "yes" /\ batch = <<>>
        /\ UNCHANGED <<wire, lastRound, link, owed>> /\ writer' = "done"
    BY <1>3 DEF WriterEnds, Over, locals, history
  <2>2. link = "up" => Len(wire) >= owed
    BY <1>0, <2>1 DEF LastRoundFlushes
  <2> QED
    BY <2>1, <2>2 DEF LastRoundFlushes
<1>4. CASE WriterWaits \/ WriterSendsKeys \/ WriterPanics \/ WriterLoops
  BY <1>4 DEF WriterWaits, WriterSendsKeys, WriterPanics, WriterLoops, locals,
     history, LastRoundFlushes
<1>5. CASE LinkFails \/ Finished \/ UNCHANGED vars
  BY <1>5 DEF LinkFails, Finished, vars, locals, history, LastRoundFlushes
<1> QED
  BY <1>1, <1>2, <1>3, <1>4, <1>5, FlushReaderHub DEF Next, Writer

\* When the writer closes the socket, everything that was queued before closed
\* was set has been sent, the error that says why included
\* (client.go:158-186, 672-678).
THEOREM FlushHolds == Spec => []FlushedBeforeClose
<1>1. Init => Idle /\ Fifo /\ Ordered /\ LastRoundFlushes
  BY DEF Init, Idle, Fifo, Ordered, LastRoundFlushes, NoKeys
<1>2. TypeOK /\ (Idle /\ Fifo /\ Ordered /\ LastRoundFlushes) /\ [Next]_vars
          => (Idle /\ Fifo /\ Ordered /\ LastRoundFlushes)'
  BY IdleStep, FifoStep, OrderedStep, FlushStep
<1>3. LastRoundFlushes => FlushedBeforeClose
  BY DEF LastRoundFlushes, FlushedBeforeClose
<1> QED
  BY <1>1, <1>2, <1>3, TypeCorrect, PTL DEF Spec
=============================================================================
