--------------------------- MODULE WebhooksProofs ---------------------------
(***************************************************************************)
(* Theorems about Webhooks, for any documents, clients, delays and bounds: *)
(* what is queued, what is sent, and how long the queue's goroutine        *)
(* sleeps.  The argument follows an event: while the hub is about to add   *)
(* it and while it is queued it is that of the current idle period of its  *)
(* document, whose end takes it back.                                      *)
(***************************************************************************)
EXTENDS Webhooks, TLAPS

Events == [doc: DocID, sendBy: Nat, period: Nat]

Types ==
    /\ clients \in [DocID -> Nat]
    /\ hub.at \in {"between", "remove", "add"}
    /\ hub.at # "between" => hub.event.doc \in DocID
    /\ hub.at = "add" => hub.event \in Events
    /\ events \in SUBSET Events
    /\ sent \in SUBSET Events
    /\ loop \in {"scan", "sleep"}
    /\ cancelled \in {"no", "yes"}
    /\ now \in Nat
    /\ idle \in [DocID -> Nat]
    /\ since \in [DocID -> Nat]

\* e is the event of the idle period that its document is in, or that the
\* client whose join is under way has ended.
Current(e) ==
    /\ e.period = idle[e.doc]
    /\ e.sendBy = since[e.doc] + Delay
    /\ clients[e.doc] = 0 \/ Returning(e.doc)

\* The event of e's idle period has not been sent.
Unsent(e) == \A s \in sent : s.doc = e.doc => s.period # e.period

QueuedAreCurrent == \A e \in events : Current(e) /\ Unsent(e)

AddedIsCurrent ==
    hub.at = "add" => /\ Current(hub.event) /\ Unsent(hub.event)
                      /\ \A e \in events : e.doc # hub.event.doc

SentAreOld == \A s \in sent : s.period <= idle[s.doc]

Inv == /\ Types /\ QueuedAreCurrent /\ AddedIsCurrent /\ SentAreOld
       /\ NoOversleep

\* Two events of the same idle period are the same.
LEMMA CurrentIsUnique ==
    ASSUME NEW e \in Events, NEW f \in Events, e.doc = f.doc,
           Current(e), Current(f)
    PROVE  e = f
BY DEF Current, Events

LEMMA InvImpliesOnlyIdleQueued == Inv => OnlyIdleQueued
<1> SUFFICES ASSUME Inv, NEW e \in events
             PROVE  /\ \A f \in events : f.doc = e.doc => f = e
                    /\ e.period = idle[e.doc]
                    /\ clients[e.doc] = 0 \/ Returning(e.doc)
                    /\ \A s \in sent : s.doc = e.doc => s.period # e.period
  BY DEF OnlyIdleQueued
<1>1. events \in SUBSET Events /\ \A f \in events : Current(f) /\ Unsent(f)
  BY DEF Inv, Types, QueuedAreCurrent
<1>2. \A f \in events : f.doc = e.doc => f = e
  BY <1>1, CurrentIsUnique
<1> QED BY <1>1, <1>2 DEF Current, Unsent

LEMMA InvInit == Init => Inv
BY DEF Init, Between, Inv, Types, QueuedAreCurrent, AddedIsCurrent, SentAreOld,
       NoOversleep

-----------------------------------------------------------------------------
(***************************************************************************)
(* The hub                                                                 *)
(***************************************************************************)

\* A step after which a document has the idle period it had, and still no
\* clients if it had none or a client is returning to it.
LEMMA StaysCurrent ==
    ASSUME NEW e, Current(e), UNCHANGED <<idle, since>>,
           clients[e.doc] = 0 \/ Returning(e.doc) =>
               clients'[e.doc] = 0 \/ Returning(e.doc)'
    PROVE  Current(e)'
BY DEF Current

LEMMA AddClientKeepsInv ==
    ASSUME Inv, NEW d \in DocID, AddClient(d)
    PROVE  Inv'
<1>1. /\ hub.at = "between"
      /\ clients' = [clients EXCEPT ![d] = clients[d] + 1]
      /\ UNCHANGED <<events, loop, cancelled, wakeAt, now, idle, since, sent>>
      /\ IF clients[d] > 0 THEN hub' = hub
         ELSE hub' = [at |-> "remove", event |-> [NoEvent EXCEPT !.doc = d]]
  BY DEF AddClient, Between
<1>2. IF clients[d] > 0 THEN hub' = hub
      ELSE hub'.at = "remove" /\ hub'.event.doc = d
  <2> DEFINE event == [NoEvent EXCEPT !.doc = d]
  <2>1. event.doc = d
    BY DEF NoEvent
  <2>2. ~(clients[d] > 0) => hub' = [at |-> "remove", event |-> event]
    BY <1>1
  <2> HIDE DEF event
  <2> QED BY <1>1, <2>1, <2>2
<1>3. clients' \in [DocID -> Nat] /\ \A c \in DocID \ {d} : clients'[c] = clients[c]
  BY <1>1 DEF Inv, Types
<1>4. Types'
  BY <1>1, <1>2, <1>3 DEF Inv, Types
<1>5. ASSUME NEW e \in events PROVE (Current(e) /\ Unsent(e))'
  <2>1. e.doc \in DocID /\ Current(e) /\ Unsent(e) /\ clients[e.doc] = 0
    BY <1>1, <1>5 DEF Inv, Types, Events, QueuedAreCurrent, Current, Returning
  <2>2. clients'[e.doc] = 0 \/ Returning(e.doc)'
    <3>1. CASE e.doc = d
      <4>1. hub'.at = "remove" /\ hub'.event.doc = d
        BY <1>2, <2>1, <3>1
      <4> QED BY <3>1, <4>1 DEF Returning
    <3>2. CASE e.doc # d
      BY <1>3, <2>1, <3>2
    <3> QED BY <3>1, <3>2
  <2> QED BY <1>1, <2>1, <2>2, StaysCurrent DEF Unsent
<1>6. QueuedAreCurrent'
  BY <1>1, <1>5 DEF QueuedAreCurrent
<1>7. AddedIsCurrent' /\ SentAreOld' /\ NoOversleep'
  BY <1>1 DEF Inv, AddedIsCurrent, SentAreOld, NoOversleep
<1> QED BY <1>4, <1>6, <1>7 DEF Inv

LEMMA RemoveIfKeepsInv ==
    ASSUME Inv, RemoveIf
    PROVE  Inv'
<1>1. /\ hub.at = "remove" /\ hub' = Between
      /\ events' = {e \in events : e.doc # hub.event.doc}
      /\ UNCHANGED <<clients, loop, cancelled, wakeAt, now, idle, since, sent>>
  BY DEF RemoveIf, Kept
<1>2. Types'
  BY <1>1 DEF Inv, Types, Between
<1>3. ASSUME NEW e \in events' PROVE (Current(e) /\ Unsent(e))'
  <2>1. e \in events /\ e.doc # hub.event.doc
    BY <1>1
  <2>2. Current(e) /\ Unsent(e) /\ clients[e.doc] = 0
    BY <2>1 DEF Inv, QueuedAreCurrent, Current, Returning
  <2> QED BY <1>1, <2>2, StaysCurrent DEF Unsent
<1>4. QueuedAreCurrent' /\ AddedIsCurrent'
  BY <1>1, <1>3 DEF QueuedAreCurrent, AddedIsCurrent, Between
<1>5. SentAreOld' /\ NoOversleep'
  BY <1>1 DEF Inv, SentAreOld, NoOversleep
<1> QED BY <1>2, <1>4, <1>5 DEF Inv

\* The session of the last client ends: a new idle period begins, whose event
\* nobody has queued or sent.
LEMMA RemoveClientKeepsInv ==
    ASSUME Inv, NEW d \in DocID, RemoveClient(d)
    PROVE  Inv'
<1>1. /\ hub.at = "between" /\ clients[d] > 0
      /\ clients' = [clients EXCEPT ![d] = clients[d] - 1]
      /\ UNCHANGED <<events, loop, cancelled, wakeAt, now, sent>>
  BY DEF RemoveClient, Between
<1>2. ASSUME NEW e \in events
      PROVE  e.doc \in DocID \ {d} /\ Current(e) /\ Unsent(e)
  BY <1>1, <1>2 DEF Inv, Types, Events, QueuedAreCurrent, Current, Returning
<1>3. SentAreOld /\ NoOversleep /\ Types
  BY DEF Inv
<1>4. CASE clients[d] > 1
  <2>1. UNCHANGED <<hub, idle, since>>
    BY <1>4 DEF RemoveClient
  <2>2. Types'
    BY <1>1, <1>3, <2>1 DEF Types
  <2>3. ASSUME NEW e \in events PROVE (Current(e) /\ Unsent(e))'
    <3>1. e.doc \in DocID \ {d} /\ Current(e) /\ Unsent(e)
      BY <1>2
    <3>2. clients'[e.doc] = clients[e.doc]
      BY <1>1, <1>3, <3>1 DEF Types
    <3> QED BY <1>1, <2>1, <3>1, <3>2 DEF Current, Returning, Unsent
  <2>4. QueuedAreCurrent' /\ AddedIsCurrent' /\ SentAreOld' /\ NoOversleep'
    BY <1>1, <1>3, <2>1, <2>3
       DEF QueuedAreCurrent, AddedIsCurrent, SentAreOld, NoOversleep
  <2> QED BY <2>2, <2>4 DEF Inv
<1>5. CASE ~(clients[d] > 1)
  <2>1. /\ hub' = [at |-> "add", event |-> Event(d)]
        /\ idle' = [idle EXCEPT ![d] = idle[d] + 1]
        /\ since' = [since EXCEPT ![d] = now]
    BY <1>5 DEF RemoveClient
  <2>2. /\ idle' \in [DocID -> Nat] /\ since' \in [DocID -> Nat]
        /\ idle'[d] = idle[d] + 1 /\ since'[d] = now
        /\ \A c \in DocID \ {d} : idle'[c] = idle[c] /\ since'[c] = since[c]
    BY <1>3, <2>1 DEF Types
  <2>3. /\ clients' \in [DocID -> Nat] /\ clients'[d] = 0
        /\ \A c \in DocID \ {d} : clients'[c] = clients[c]
    BY <1>1, <1>3, <1>5 DEF Types
  <2>4. Event(d) \in Events
    BY <1>3, TimeAssumption DEF Types, Event, Events
  <2>5. Types'
    <3>1. hub'.at = "add" /\ hub'.event \in Events /\ hub'.event.doc = d
      BY <2>1, <2>4 DEF Event
    <3> QED BY <1>1, <1>3, <2>2, <2>3, <3>1 DEF Types
  <2>6. ASSUME NEW e \in events PROVE (Current(e) /\ Unsent(e))'
    <3>1. e.doc \in DocID \ {d} /\ Current(e) /\ Unsent(e)
      BY <1>2
    <3>2. clients[e.doc] = 0
      BY <1>1, <3>1 DEF Current, Returning
    <3> QED BY <1>1, <2>2, <2>3, <3>1, <3>2 DEF Current, Unsent
  <2>7. \A s \in sent : s.doc = d => s.period # idle[d] + 1
    BY <1>3 DEF SentAreOld, Types, Events
  <2>8. AddedIsCurrent'
    <3>1. hub'.event = Event(d) /\ Event(d).doc = d /\ Event(d).period = idle[d] + 1
      BY <2>1 DEF Event
    <3>2. Unsent(hub.event)'
      BY <1>1, <2>7, <3>1 DEF Unsent
    <3>3. Current(hub.event)'
      BY <1>1, <2>1, <2>2, <2>3, <1>3 DEF Current, Event, Types
    <3> QED BY <1>1, <1>2, <3>1, <3>2, <3>3 DEF AddedIsCurrent
  <2>9. SentAreOld'
    BY <1>1, <1>3, <2>2 DEF SentAreOld, Types, Events
  <2>10. QueuedAreCurrent' /\ NoOversleep'
    BY <1>1, <1>3, <2>6 DEF QueuedAreCurrent, NoOversleep
  <2> QED BY <2>5, <2>8, <2>9, <2>10 DEF Inv
<1> QED BY <1>4, <1>5

LEMMA AddEventKeepsInv ==
    ASSUME Inv, AddEvent
    PROVE  Inv'
<1>1. /\ hub.at = "add" /\ hub' = Between
      /\ events' = events \cup {hub.event}
      /\ cancelled' = IF loop = "sleep" THEN "yes" ELSE "no"
      /\ UNCHANGED <<clients, loop, wakeAt, now, idle, since, sent>>
  BY DEF AddEvent, Cancel
<1>2. Types'
  BY <1>1 DEF Inv, Types, Between
<1>3. ASSUME NEW e \in events' PROVE (Current(e) /\ Unsent(e))'
  <2>1. Current(e) /\ Unsent(e)
    BY <1>1 DEF Inv, QueuedAreCurrent, AddedIsCurrent
  <2>2. clients[e.doc] = 0
    BY <1>1, <2>1 DEF Current, Returning
  <2> QED BY <1>1, <2>1, <2>2, StaysCurrent DEF Unsent
<1>4. QueuedAreCurrent' /\ AddedIsCurrent'
  BY <1>1, <1>3 DEF QueuedAreCurrent, AddedIsCurrent, Between
<1>5. SentAreOld' /\ NoOversleep'
  BY <1>1 DEF Inv, SentAreOld, NoOversleep
<1> QED BY <1>2, <1>4, <1>5 DEF Inv

-----------------------------------------------------------------------------
(***************************************************************************)
(* The goroutine of the queue                                              *)
(***************************************************************************)
LEMMA ScanKeepsInv ==
    ASSUME Inv, Scan
    PROVE  Inv'
<1>1. /\ events' = events \ Due /\ sent' = sent \cup Due
      /\ Due \subseteq events
      /\ cancelled' = "no" /\ loop' = "sleep"
      /\ UNCHANGED <<clients, hub, now, idle, since>>
      /\ \A e \in events \ Due : wakeAt' <= e.sendBy
  BY DEF Scan, Due, Earliest
<1>2. Types'
  BY <1>1 DEF Inv, Types
<1>3. /\ Types /\ \A e \in events : Current(e) /\ Unsent(e)
      /\ AddedIsCurrent /\ SentAreOld
  BY DEF Inv, QueuedAreCurrent
<1>4. ASSUME NEW e, Current(e) PROVE Current(e)'
  BY <1>1, <1>4 DEF Current, Returning
<1>5. ASSUME NEW e \in events' PROVE (Current(e) /\ Unsent(e))'
  <2>1. e \in events /\ e \notin Due /\ Current(e) /\ Unsent(e)
    BY <1>1, <1>3
  <2>2. ASSUME NEW s \in Due, s.doc = e.doc PROVE FALSE
    <3>1. s \in Events /\ e \in Events /\ Current(s)
      BY <1>1, <1>3, <2>1 DEF Types
    <3> QED BY <2>1, <2>2, <3>1, CurrentIsUnique
  <2> QED BY <1>1, <1>4, <2>1, <2>2 DEF Unsent
<1>6. AddedIsCurrent'
  BY <1>1, <1>3, <1>4 DEF AddedIsCurrent, Unsent
<1>7. SentAreOld'
  <2>1. \A s \in Due : s.period <= idle[s.doc]
    BY <1>1, <1>3 DEF Current, Types, Events
  <2> QED BY <1>1, <1>3, <2>1 DEF SentAreOld
<1>8. QueuedAreCurrent' /\ NoOversleep'
  BY <1>1, <1>5 DEF QueuedAreCurrent, NoOversleep
<1> QED BY <1>2, <1>6, <1>7, <1>8 DEF Inv

\* The other steps leave events, the hub and the sessions alone.
LEMMA RestKeepsInv ==
    ASSUME Inv, UNCHANGED <<clients, hub, events, idle, since, sent, wakeAt, cancelled>>,
           now' \in Nat, loop' \in {loop, "scan"}
    PROVE  Inv'
<1>1. Types'
  BY DEF Inv, Types
<1>2. QueuedAreCurrent' /\ AddedIsCurrent' /\ SentAreOld' /\ NoOversleep'
  BY DEF Inv, QueuedAreCurrent, AddedIsCurrent, SentAreOld, NoOversleep, Current,
         Returning, Unsent
<1> QED BY <1>1, <1>2 DEF Inv

LEMMA InvStep ==
    ASSUME Inv, [Next]_vars
    PROVE  Inv'
<1>1. CASE Wake \/ Tick \/ UNCHANGED vars
  <2>1. now' \in Nat /\ loop' \in {loop, "scan"}
    BY <1>1 DEF Inv, Types, Wake, Tick, vars
  <2>2. UNCHANGED <<clients, hub, events, idle, since, sent, wakeAt, cancelled>>
    BY <1>1 DEF Wake, Tick, vars
  <2> QED BY <2>1, <2>2, RestKeepsInv
<1> QED
  BY <1>1, AddClientKeepsInv, RemoveClientKeepsInv, RemoveIfKeepsInv,
     AddEventKeepsInv, ScanKeepsInv DEF Next

-----------------------------------------------------------------------------
\* The goroutine never sleeps past an event unless it has been woken
\* (webhooks.go:37-66, 89-95).
THEOREM NeverOversleeps == Spec => []NoOversleep
<1>1. Inv => NoOversleep
  BY DEF Inv
<1> QED BY <1>1, InvInit, InvStep, PTL DEF Spec

\* The queue holds at most one event for a document, that of the idle period it
\* is in, and none that was sent before (hub.go:51-59, 104-115).
THEOREM OnlyIdleQueuedAlways == Spec => []OnlyIdleQueued
BY InvImpliesOnlyIdleQueued, InvInit, InvStep, PTL DEF Spec

\* An event is sent only when its document has been without clients for the
\* whole delay (webhooks.go:44-47).
THEOREM SentInTime == Spec => SentAfterDelay
<1>1. ASSUME Inv, [Next]_vars, NEW e \in sent' \ sent
      PROVE  /\ e.period = idle[e.doc] /\ now - since[e.doc] > Delay
             /\ clients[e.doc] = 0 \/ Returning(e.doc)
  <2>1. Scan
    BY <1>1 DEF Next, AddClient, RemoveClient, RemoveIf, AddEvent, Wake, Tick, vars
  <2>2. e \in events /\ e.sendBy < now
    BY <1>1, <2>1 DEF Scan, Due, IsDue
  <2>3. Current(e) /\ e \in Events
    BY <1>1, <2>2 DEF Inv, Types, QueuedAreCurrent
  <2>4. since[e.doc] + Delay < now
    BY <2>2, <2>3 DEF Current
  <2>5. since[e.doc] \in Nat /\ now \in Nat
    BY <1>1, <2>3 DEF Inv, Types, Events
  <2>6. now - since[e.doc] > Delay
    BY <2>4, <2>5, TimeAssumption
  <2> QED BY <2>3, <2>6 DEF Current
<1>2. Inv /\ [Next]_vars =>
          [\A e \in sent' \ sent :
              /\ e.period = idle[e.doc] /\ now - since[e.doc] > Delay
              /\ clients[e.doc] = 0 \/ Returning(e.doc)]_vars
  BY <1>1
<1> QED BY <1>2, InvInit, InvStep, PTL DEF Spec, SentAfterDelay
=============================================================================
