-------------------------------- MODULE Keys --------------------------------
(***************************************************************************)
(* The keys of one session: client keys, which the hub holds for as long   *)
(* as the connection of their owner (hub.go), and session keys, which the  *)
(* DocumentDB holds (client.go, processSetKey).  A client that joins is    *)
(* told of both; a client that sets a key makes the hub tell the others.   *)
(*                                                                         *)
(* A key is its version and its value; the value is that of its author, or *)
(* Removed for a client key whose owner has left.  Keys wait in            *)
(* client.keys until the writeThread sends them; an endpoint keeps of each *)
(* name what came with the newest version, as the server itself does.      *)
(* Hub closures, of which one runs at a time, are steps, and so are the    *)
(* calls of the DocumentDB, which keep the promise of SetDocumentKey.      *)
(***************************************************************************)
EXTENDS Naturals, FiniteSets

CONSTANTS
    Client,
    ClientName,   \* names that clients use for client keys
    SessionName,  \* names that clients use for session keys
    AdminName,    \* names that begin with "admin:"
    Admin,        \* clients with administration permission
    Unlucky,      \* clients whose read of the session keys may fail
    Versions,     \* pairs [old, new] that requests name
    MaxSets       \* bound: requests in a run

Name == ClientName \cup SessionName
Removed == "removed"
Nobody == ""

ASSUME NamesAssumption == ClientName \cap SessionName = {}
                          /\ AdminName \subseteq Name
ASSUME ClientsAssumption == Admin \subseteq Client
                            /\ Removed \notin Client /\ Nobody \notin Client
ASSUME VersionsAssumption == Versions \subseteq [old: Nat, new: Nat \ {0}]
ASSUME BoundAssumption == MaxSets \in Nat

VARIABLES
    db,         \* ZwibblerKeys of the document: name to key
    held,       \* session.keys: name to key and owner
    registered, \* session.clients
    pc,         \* where each reader goroutine is
    found,      \* sessionKeys, local to runClient; then the key to announce
    pending,    \* client.keys
    view,       \* external: what the endpoint of each client knows
    sets,       \* requests so far
    unread      \* history: clients that joined without the session keys

vars == <<db, held, registered, pc, found, pending, view, sets, unread>>

NoKey == [version |-> 0, value |-> ""]
NoKeys == [n \in Name |-> NoKey]
NotHeld == [key |-> NoKey, owner |-> Nobody]
Key(version, value) == [version |-> version, value |-> value]

\* notifyKeysUpdated: "if key.Version >= k.Version".
Newest(k, new) == IF new.version >= k.version THEN new ELSE k

\* Mutant: only the new keys are kept.
MergeNew(ks, new) == [n \in {m \in Name : new[m] # NoKey} |->
                         Newest(ks[n], new[n])]

\* notifyKeysUpdated merges new keys into those that wait, name by name.
Merge(ks, new) == [n \in Name |-> IF new[n] = NoKey THEN ks[n]
                                                    ELSE Newest(ks[n], new[n])]
One(n, k) == [NoKeys EXCEPT ![n] = k]

\* Every client in C is notified.
Notify(C, new) == pending' = [c \in Client |-> IF c \in C
                                               THEN Merge(pending[c], new)
                                               ELSE pending[c]]
Goto(c, stage) == pc' = [pc EXCEPT ![c] = stage]

Init ==
    /\ db = NoKeys
    /\ held = [n \in Name |-> NotHeld]
    /\ registered = {}
    /\ pc = [c \in Client |-> "join"]
    /\ found = [c \in Client |-> NoKeys]
    /\ pending = [c \in Client |-> NoKeys]
    /\ view = [c \in Client |-> NoKeys]
    /\ sets = 0
    /\ unread = {}

(***************************************************************************)
(* Joining: runClient, from hub.addClient to the message loop              *)
(***************************************************************************)
AddClient(c) ==
    /\ pc[c] = "join"
    /\ registered' = registered \cup {c}
    /\ Goto(c, "session")
    /\ UNCHANGED <<db, held, found, pending, view, sets, unread>>

\* An error is dropped: no keys are found.
GetDocumentKeys(c) ==
    /\ pc[c] = "session"
    /\ \/ found' = [found EXCEPT ![c] = db] /\ UNCHANGED unread
       \/ /\ c \in Unlucky
          /\ found' = [found EXCEPT ![c] = NoKeys]
          /\ unread' = unread \cup {c}
    /\ Goto(c, "client")
    /\ UNCHANGED <<db, held, registered, pending, view, sets>>

\* hub.getClientKeys, then notifyKeysUpdated.
GetClientKeys(c) ==
    /\ pc[c] = "client"
    /\ found' = [found EXCEPT ![c] = [n \in Name |->
                    IF n \in ClientName THEN held[n].key ELSE found[c][n]]]
    /\ Goto(c, "notify")
    /\ UNCHANGED <<db, held, registered, pending, view, sets, unread>>

NotifyKeysFound(c) ==
    /\ pc[c] = "notify"
    /\ Notify({c}, found[c])
    /\ found' = [found EXCEPT ![c] = NoKeys]
    /\ Goto(c, "ready")
    /\ UNCHANGED <<db, held, registered, view, sets, unread>>

(***************************************************************************)
(* Setting: processSetKey                                                  *)
(***************************************************************************)
May(c, n) == n \in AdminName => c \in Admin

\* The request is acknowledged: the client knows what it set.
Acknowledged(c, n, k) == view' = [view EXCEPT ![c][n] = k]

Request(c) == pc[c] = "ready" /\ sets < MaxSets /\ sets' = sets + 1

\* The requests about a name: a client replaces the version it was told of, or
\* none.
Asked(c, n) == {v \in Versions : v.old \in {0, view[c][n].version}}

\* SetClientKey: the key is found with the old version, or not at all and the
\* old version is 0.
Accepts(n, old) == IF held[n] = NotHeld THEN old = 0
                                        ELSE held[n].key.version = old

\* Mutant: nobody but the source is told.
OnlySource(c) == registered \cap {c}

Others(c) == registered \ {c}

SetClientKey(c) ==
    /\ Request(c)
    /\ \E n \in ClientName : \E v \in Asked(c, n) :
          IF May(c, n) /\ Accepts(n, v.old)
          THEN LET k == Key(v.new, c) IN
               /\ held' = [held EXCEPT ![n] = [key |-> k, owner |-> c]]
               /\ Notify(Others(c), One(n, k))
               /\ Acknowledged(c, n, k)
          ELSE UNCHANGED <<held, pending, view>>
    /\ UNCHANGED <<db, registered, pc, found, unread>>

\* DocumentDB.SetDocumentKey ...
SetDocumentKey(c) ==
    /\ Request(c)
    /\ \E n \in SessionName : \E v \in Asked(c, n) :
          IF May(c, n) /\ db[n].version = v.old
          THEN /\ db' = [db EXCEPT ![n] = Key(v.new, c)]
               /\ found' = [found EXCEPT ![c] = One(n, Key(v.new, c))]
               /\ Goto(c, "announce")
          ELSE UNCHANGED <<db, found, pc>>
    /\ UNCHANGED <<held, registered, pending, view, unread>>

\* ... then hub.SetSessionKey and the acknowledgement.
SetSessionKey(c) ==
    /\ pc[c] = "announce"
    /\ Notify(Others(c), found[c])
    /\ view' = [view EXCEPT ![c] = Merge(@, found[c])]
    /\ found' = [found EXCEPT ![c] = NoKeys]
    /\ Goto(c, "ready")
    /\ UNCHANGED <<db, held, registered, sets, unread>>

\* The writeThread sends the keys that wait.
SendKeys(c) ==
    /\ pending[c] # NoKeys
    /\ view' = [view EXCEPT ![c] = Merge(@, pending[c])]
    /\ pending' = [pending EXCEPT ![c] = NoKeys]
    /\ UNCHANGED <<db, held, registered, pc, found, sets, unread>>

\* Mutant: the keys stay when their owner leaves.
OwnsNothing(c) == {}

\* hub.RemoveClient: the client's keys go with it; the others are told of their
\* removal by a version of its own.
Owned(c) == {n \in Name : held[n].owner = c}

RemoveClient(c) ==
    /\ pc[c] = "ready"
    /\ registered' = registered \ {c}
    /\ held' = [n \in Name |-> IF n \in Owned(c) THEN NotHeld ELSE held[n]]
    /\ Notify(Others(c), [n \in Name |-> IF n \in Owned(c)
                              THEN Key(held[n].key.version + 1, Removed)
                              ELSE NoKey])
    /\ Goto(c, "gone")
    /\ UNCHANGED <<db, found, view, sets, unread>>

Finished ==
    /\ \A c \in Client : pc[c] \in {"ready", "gone"} /\ pending[c] = NoKeys
    /\ sets = MaxSets \/ \A c \in Client : pc[c] = "gone"
    /\ UNCHANGED vars

Next == \/ \E c \in Client :
              \/ AddClient(c) \/ GetDocumentKeys(c) \/ GetClientKeys(c)
              \/ NotifyKeysFound(c) \/ SetClientKey(c) \/ SetDocumentKey(c)
              \/ SetSessionKey(c) \/ SendKeys(c) \/ RemoveClient(c)
        \/ Finished

Spec == Init /\ [][Next]_vars

-----------------------------------------------------------------------------
(***************************************************************************)
(* Properties                                                              *)
(***************************************************************************)
Keys == [version: Nat, value: Client \cup {Removed, ""}]

\* Every variable has its type (socket.go:92-96, hub.go:12-28).
TypeOK ==
    /\ db \in [Name -> Keys]
    /\ held \in [Name -> [key: Keys, owner: Client \cup {Nobody}]]
    /\ registered \in SUBSET Client
    /\ pc \in [Client -> {"join", "session", "client", "notify", "ready",
                          "announce", "gone"}]
    /\ found \in [Client -> [Name -> Keys]]
    /\ pending \in [Client -> [Name -> Keys]]
    /\ view \in [Client -> [Name -> Keys]]
    /\ sets \in Nat
    /\ unread \in SUBSET Client

\* What the endpoint of c will know of n once pending keys are sent.
Knows(c, n) == IF pending[c][n] = NoKey THEN view[c][n]
               ELSE Newest(view[c][n], pending[c][n])

Joined == {c \in registered : pc[c] \in {"ready", "announce"}}

\* A client key is held for a client that is connected: no connection leaves
\* its keys behind, whoever set them first (hub.go:120-139, 229-238).
OwnersAreConnected ==
    \A n \in Name : held[n].owner # Nobody => held[n].owner \in registered

\* Whoever has joined knows the session key that the DocumentDB holds, set it
\* itself or is about to be told: registering before reading the keys leaves no
\* gap, and announcements that overtake each other do no harm
\* (client.go:108-113, 616-618).  Only who could not read the keys, and was not
\* told so (client.go:111), may miss some.
SessionKeysReach ==
    \A c \in Joined \ unread, n \in SessionName :
        \/ db[n].value = c
        \/ Knows(c, n) = db[n]
        \/ \E d \in Client : pc[d] = "announce" /\ found[d][n] = db[n]

\* Whoever has joined knows the client key that the hub holds for another
\* client, whatever was pending (client.go:643-644, hub.go:245-251), as long as
\* no key was removed.
ClientKeysReach ==
    (\A c \in Client : pc[c] # "gone") =>
        \A c \in Joined, n \in ClientName :
            held[n].owner \notin {Nobody, c} => Knows(c, n) = held[n].key

\* Whoever has joined knows that a client key is gone: after its owner left no
\* endpoint keeps a value that the hub has dropped, nor does one that read the
\* keys before and is told of them after (hub.go:120-139, client.go:112).  As
\* long as one client has left: a name that is set anew starts at a low version,
\* and its next removal may be older than a key that still waits.
RemovedKeysVanish ==
    (\A c, d \in Client : pc[c] = "gone" /\ pc[d] = "gone" => c = d) =>
        \A c \in Joined, n \in ClientName :
            held[n] = NotHeld => Knows(c, n).value \in {"", Removed}
=============================================================================
