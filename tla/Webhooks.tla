------------------------------ MODULE Webhooks ------------------------------
(***************************************************************************)
(* The idle-session webhook: the hub queues an event when the last client  *)
(* leaves a document (hub.go) and takes it back when one joins; the        *)
(* goroutine of webhookQueue (webhooks.go) sleeps until the next event is  *)
(* due and is woken by cancelling its context when one is added.           *)
(*                                                                         *)
(* A webhook URL is configured.  Each stretch of time in which a document  *)
(* has no clients has a number of its own, which also tells its event from *)
(* all others.  Every event that is due is sent by a goroutine of its own, *)
(* so that the order of the queue does not matter: it is a set.            *)
(***************************************************************************)
EXTENDS Naturals

CONSTANTS
    DocID,
    MaxClients,  \* bound: clients of a document
    Delay,       \* 10 seconds: hub.go:113
    Day,         \* 24 hours: webhooks.go:39
    MaxTime,     \* bound: the clock
    MaxIdle      \* bound: idle periods of a document

ASSUME TimeAssumption == Delay \in Nat /\ Day \in Nat /\ MaxTime \in Nat
ASSUME BoundsAssumption == MaxClients \in Nat /\ MaxIdle \in Nat

VARIABLES
    clients,   \* number of clients of each session, 0 for no session
    hub,       \* the closure the hub goroutine is in
    events,    \* whq.events
    loop,      \* the queue's goroutine: "scan" or "sleep"
    cancelled, \* whether the context it sleeps on is cancelled: "no" or "yes"
    wakeAt,    \* when its timer fires
    now,       \* the clock
    idle,      \* history: idle periods of each document so far
    since,     \* history: when the last one began
    sent       \* history: events sent

vars == <<clients, hub, events, loop, cancelled, wakeAt, now, idle, since, sent>>

Event(d) == [doc |-> d, sendBy |-> now + Delay, period |-> idle[d] + 1]
NoEvent == [doc |-> "", sendBy |-> 0, period |-> 0]
Between == [at |-> "between", event |-> NoEvent]
Earliest(S) == {t \in S : \A u \in S : t <= u}

Init ==
    /\ clients = [d \in DocID |-> 0]
    /\ hub = Between
    /\ events = {}
    /\ loop = "scan"
    /\ cancelled = "no"
    /\ wakeAt = 0
    /\ now = 0
    /\ idle = [d \in DocID |-> 0]
    /\ since = [d \in DocID |-> 0]
    /\ sent = {}

(***************************************************************************)
(* The hub goroutine                                                       *)
(***************************************************************************)

\* addClient: a new session is recorded, then its event is removed.
AddClient(d) ==
    /\ hub = Between
    /\ clients[d] < MaxClients
    /\ clients' = [clients EXCEPT ![d] = @ + 1]
    /\ hub' = IF clients[d] > 0 THEN hub
              ELSE [at |-> "remove", event |-> [NoEvent EXCEPT !.doc = d]]
    /\ UNCHANGED <<events, loop, cancelled, wakeAt, now, idle, since, sent>>

\* Mutant: the condition is inverted.
Others(d) == {e \in events : e.doc = d}

\* What removeIf leaves.
Kept(d) == {e \in events : e.doc # d}

RemoveIf ==
    /\ hub.at = "remove"
    /\ events' = Kept(hub.event.doc)
    /\ hub' = Between
    /\ UNCHANGED <<clients, loop, cancelled, wakeAt, now, idle, since, sent>>

\* RemoveClient: the session of the last client is deleted, then its event is
\* queued.
RemoveClient(d) ==
    /\ hub = Between
    /\ clients[d] > 0
    /\ clients[d] = 1 => idle[d] < MaxIdle
    /\ clients' = [clients EXCEPT ![d] = @ - 1]
    /\ IF clients[d] > 1 THEN UNCHANGED <<hub, idle, since>>
       ELSE /\ hub' = [at |-> "add", event |-> Event(d)]
            /\ idle' = [idle EXCEPT ![d] = @ + 1]
            /\ since' = [since EXCEPT ![d] = now]
    /\ UNCHANGED <<events, loop, cancelled, wakeAt, now, sent>>

\* Mutant: the goroutine is left asleep.
LetSleep == UNCHANGED cancelled

\* whq.cancel(), which does nothing before the goroutine has its first context.
Cancel == cancelled' = IF loop = "sleep" THEN "yes" ELSE "no"

AddEvent ==
    /\ hub.at = "add"
    /\ events' = events \cup {hub.event}
    /\ Cancel
    /\ hub' = Between
    /\ UNCHANGED <<clients, loop, wakeAt, now, idle, since, sent>>

(***************************************************************************)
(* The goroutine of the queue                                              *)
(***************************************************************************)

\* Mutant: an event is due as soon as it is queued.
DueAtOnce(e) == TRUE

\* item.sendBy.Before(now)
IsDue(e) == e.sendBy < now

Due == {e \in events : IsDue(e)}

\* One round under the mutex: what is due is sent, the rest sets the timer.
Scan ==
    /\ loop = "scan"
    /\ sent' = sent \cup Due
    /\ events' = events \ Due
    /\ wakeAt' \in Earliest({now + Day} \cup {e.sendBy : e \in events \ Due})
    /\ cancelled' = "no"
    /\ loop' = "sleep"
    /\ UNCHANGED <<clients, hub, now, idle, since>>

Wake ==
    /\ loop = "sleep"
    /\ cancelled = "yes" \/ now >= wakeAt
    /\ loop' = "scan"
    /\ UNCHANGED <<clients, hub, events, cancelled, wakeAt, now, idle, since,
                   sent>>

Tick == /\ now < MaxTime
        /\ now' = now + 1
        /\ UNCHANGED <<clients, hub, events, loop, cancelled, wakeAt, idle,
                       since, sent>>

Next == \/ \E d \in DocID : AddClient(d) \/ RemoveClient(d)
        \/ RemoveIf \/ AddEvent \/ Scan \/ Wake \/ Tick

Spec == Init /\ [][Next]_vars

(***************************************************************************)
(* Fairness: closures that have begun end, the goroutine runs when it can, *)
(* time passes.                                                            *)
(***************************************************************************)
FairSpec == /\ Spec
            /\ WF_vars(RemoveIf \/ AddEvent)
            /\ WF_vars(Scan) /\ WF_vars(Wake) /\ WF_vars(Tick)

-----------------------------------------------------------------------------
(***************************************************************************)
(* Properties                                                              *)
(***************************************************************************)

\* A client joins d; its event is about to be removed.
Returning(d) == hub.at = "remove" /\ hub.event.doc = d

\* The goroutine never sleeps past an event: unless it has been woken, its
\* timer fires no later than the first one is due (webhooks.go:37-66, 89-95).
NoOversleep ==
    loop = "sleep" /\ cancelled = "no" => \A e \in events : wakeAt <= e.sendBy

\* What is queued is the current idle period of a document without clients, at
\* most once and not sent before, however quickly clients leave and return
\* (hub.go:51-59, 104-115).
OnlyIdleQueued ==
    \A e \in events :
        /\ \A f \in events : f.doc = e.doc => f = e
        /\ e.period = idle[e.doc]
        /\ clients[e.doc] = 0 \/ Returning(e.doc)
        /\ \A s \in sent : s.doc = e.doc => s.period # e.period

\* An event is sent only after its document has been without clients for the
\* whole delay, a join that is under way excepted (webhooks.go:44-47).
SentAfterDelay ==
    [][\A e \in sent' \ sent :
          /\ e.period = idle[e.doc] /\ now - since[e.doc] > Delay
          /\ clients[e.doc] = 0 \/ Returning(e.doc)]_vars

\* Every idle period that lasts is reported (socket.go:197-198).
IdleIsReported ==
    \A d \in DocID : \A p \in 1..MaxIdle :
        (idle[d] = p /\ clients[d] = 0 /\ since[d] + Delay < MaxTime)
            ~> (clients[d] > 0 \/ \E e \in sent : e.doc = d /\ e.period = p)
=============================================================================
