----------------------------- MODULE KeysProofs -----------------------------
(***************************************************************************)
(* Theorems about Keys, for any clients, names, permissions, versions and  *)
(* number of requests.  What a client knows of a name is a matter of three *)
(* keys: the one it has (view), the one that waits for it (pending) and    *)
(* the one its reader carries from the server's tables (found).  The       *)
(* invariants compare the three with the key the server holds.             *)
(***************************************************************************)
EXTENDS Keys, TLAPS

Stages == {"join", "session", "client", "notify", "ready", "announce", "gone"}

\* The keys there are: none, or one with a version of at least 1.
RealKeys == {NoKey} \cup [version: Nat \ {0}, value: Client \cup {Removed}]

Types ==
    /\ db \in [Name -> RealKeys]
    /\ held \in [Name -> [key: RealKeys, owner: Client \cup {Nobody}]]
    /\ registered \in SUBSET Client
    /\ pc \in [Client -> Stages]
    /\ found \in [Client -> [Name -> RealKeys]]
    /\ pending \in [Client -> [Name -> RealKeys]]
    /\ view \in [Client -> [Name -> RealKeys]]
    /\ unread \in SUBSET Client

\* The hub knows who is there.
Membership == \A c \in Client : c \in registered <=> pc[c] \notin {"join", "gone"}

\* Client keys are in the hub, session keys in the database.
Separate == /\ \A n \in SessionName : held[n] = NotHeld
            /\ \A n \in ClientName : db[n] = NoKey

\* What a reader carries, by where it is.
Carried ==
    \A c \in Client :
        /\ pc[c] = "ready" => found[c] = NoKeys
        /\ pc[c] = "announce" => \A n \in ClientName : found[c][n] = NoKey
        /\ pc[c] = "join" => \A n \in Name : /\ view[c][n] = NoKey
                                             /\ pending[c][n] = NoKey
                                             /\ found[c][n] = NoKey

Basics == Types /\ Membership /\ Separate /\ Carried

\* k is the server's key l or an older one.
Upto(k, l) == k.version <= l.version /\ (k.version = l.version => k = l)

AllUpto(c, n, l) == /\ Upto(view[c][n], l)
                    /\ Upto(pending[c][n], l)
                    /\ Upto(found[c][n], l)

\* Requests name newer versions than they replace.
VersionsGrow == \A v \in Versions : v.old < v.new

(***************************************************************************)
(* Session keys                                                            *)
(***************************************************************************)
SessionBound == \A c \in Client, n \in SessionName : AllUpto(c, n, db[n])

\* The key of the database is on its way to c.
Coming(c, n) ==
    \/ view[c][n] = db[n]
    \/ pending[c][n] = db[n]
    \/ pc[c] \in {"client", "notify"} /\ found[c][n] = db[n]
    \/ \E d \in Client : pc[d] = "announce" /\ found[d][n] = db[n]

SessionCovered ==
    \A c \in Client, n \in SessionName :
        pc[c] \notin {"join", "session", "gone"} /\ c \notin unread =>
            db[n].value = c \/ Coming(c, n)

(***************************************************************************)
(* Client keys, until somebody leaves                                      *)
(***************************************************************************)
AllHere == \A c \in Client : pc[c] # "gone"

ClientBound ==
    AllHere => \A c \in Client, n \in ClientName : AllUpto(c, n, held[n].key)

\* The key the hub holds is on its way to c, or its own.
Reaches(c, n) ==
    \/ held[n].owner = c
    \/ view[c][n] = held[n].key
    \/ pending[c][n] = held[n].key
    \/ pc[c] = "notify" /\ found[c][n] = held[n].key

ClientCovered ==
    AllHere => \A c \in Client, n \in ClientName :
        pc[c] \in {"notify", "ready", "announce"} => Reaches(c, n)

(***************************************************************************)
(* Client keys, after one client has left                                  *)
(***************************************************************************)
OneLeft == \A c, d \in Client : pc[c] = "gone" /\ pc[d] = "gone" => c = d

Live(k) == k.value \in Client

\* One of the keys k and l removes the key m.
Beats(k, l, m) == \/ k.value = Removed /\ m.version < k.version
                  \/ l.value = Removed /\ m.version < l.version

\* No live key among what is known, waits and is carried gets past a removal
\* that is known or waits.
Drops(known, waits, carried) ==
    \A k \in {known, waits, carried} : Live(k) => Beats(known, waits, k)

Dropped(c, n) == Drops(view[c][n], pending[c][n], found[c][n])

ClientDropped ==
    OneLeft => \A c \in registered, n \in ClientName :
        held[n] = NotHeld => Dropped(c, n)

-----------------------------------------------------------------------------
(***************************************************************************)
(* The helpers of Keys                                                     *)
(***************************************************************************)
\* A key that was made is a real one.
LEMMA KeyIsReal ==
    ASSUME NEW version \in Nat \ {0}, NEW value \in Client \cup {Removed}
    PROVE  /\ Key(version, value) \in RealKeys
           /\ Key(version, value).version = version
           /\ Key(version, value).value = value
           /\ Key(version, value) # NoKey
BY DEF Key, RealKeys, NoKey

LEMMA RealKeyFacts ==
    ASSUME NEW k \in RealKeys
    PROVE  /\ k.version \in Nat
           /\ k.value \in Client \cup {Removed, ""}
           /\ k = NoKey \/ (k.version > 0 /\ k.value \in Client \cup {Removed})
<1>1. CASE k = NoKey
  BY <1>1 DEF NoKey
<1>2. CASE k \in [version: Nat \ {0}, value: Client \cup {Removed}]
  <2>1. k.version \in Nat \ {0} /\ k.value \in Client \cup {Removed}
    BY <1>2
  <2>2. k.version > 0
    BY <2>1
  <2> QED BY <2>1, <2>2
<1> QED BY <1>1, <1>2 DEF RealKeys

LEMMA NewestIsReal ==
    ASSUME NEW k \in RealKeys, NEW l \in RealKeys
    PROVE  Newest(k, l) \in RealKeys
BY DEF Newest

LEMMA NewestOfNone ==
    ASSUME NEW k \in RealKeys PROVE Newest(k, NoKey) = k
<1>1. k.version \in Nat /\ (k = NoKey \/ k.version > 0)
  BY RealKeyFacts
<1>2. NoKey.version = 0
  BY DEF NoKey
<1> QED BY <1>1, <1>2 DEF Newest

LEMMA NoKeysAreReal == NoKey \in RealKeys /\ NoKeys \in [Name -> RealKeys]
BY DEF RealKeys, NoKeys

\* Merging takes the newest key of each name, whether the new ones have the
\* name or not.
LEMMA MergeIsNewest ==
    ASSUME NEW ks \in [Name -> RealKeys], NEW new \in [Name -> RealKeys]
    PROVE  /\ Merge(ks, new) \in [Name -> RealKeys]
           /\ \A n \in Name : Merge(ks, new)[n] = Newest(ks[n], new[n])
<1>1. ASSUME NEW n \in Name
      PROVE  /\ Merge(ks, new)[n] = Newest(ks[n], new[n])
             /\ Newest(ks[n], new[n]) \in RealKeys
  <2>1. Merge(ks, new)[n] = IF new[n] = NoKey THEN ks[n]
                                              ELSE Newest(ks[n], new[n])
    BY DEF Merge
  <2>2. ks[n] \in RealKeys /\ new[n] \in RealKeys
    OBVIOUS
  <2>3. new[n] = NoKey => Newest(ks[n], new[n]) = ks[n]
    BY <2>2, NewestOfNone
  <2> QED BY <2>1, <2>2, <2>3, NewestIsReal
<1>2. Merge(ks, new) = [n \in Name |-> Merge(ks, new)[n]]
  BY DEF Merge
<1> QED BY <1>1, <1>2

LEMMA OneIsReal ==
    ASSUME NEW n \in Name, NEW k \in RealKeys
    PROVE  /\ One(n, k) \in [Name -> RealKeys]
           /\ One(n, k)[n] = k
           /\ \A m \in Name : m # n => One(n, k)[m] = NoKey
BY NoKeysAreReal DEF One, NoKeys

\* Who is notified has the newest of what waited and what is new.
Notified(C, new) ==
    \A c \in Client, n \in Name :
        pending'[c][n] = IF c \in C THEN Newest(pending[c][n], new[n])
                                    ELSE pending[c][n]

LEMMA NotifyIsNewest ==
    ASSUME NEW C \in SUBSET Client, NEW new \in [Name -> RealKeys],
           pending \in [Client -> [Name -> RealKeys]], Notify(C, new)
    PROVE  pending' \in [Client -> [Name -> RealKeys]] /\ Notified(C, new)
<1>1. ASSUME NEW c \in Client
      PROVE  /\ pending'[c] \in [Name -> RealKeys]
             /\ \A n \in Name :
                  pending'[c][n] = IF c \in C THEN Newest(pending[c][n], new[n])
                                              ELSE pending[c][n]
  <2>1. pending'[c] = IF c \in C THEN Merge(pending[c], new) ELSE pending[c]
    BY DEF Notify
  <2>2. pending[c] \in [Name -> RealKeys]
    OBVIOUS
  <2> QED BY <2>1, <2>2, MergeIsNewest
<1>2. pending' = [c \in Client |-> pending'[c]]
  BY DEF Notify
<1> QED BY <1>1, <1>2 DEF Notified

\* Owned and Others name clients and names; keys of SetClientKey go elsewhere.
LEMMA NamesApart ==
    /\ \A n \in ClientName : n \in Name /\ n \notin SessionName
    /\ \A n \in SessionName : n \in Name /\ n \notin ClientName
    /\ \A n \in Name : n \in ClientName \/ n \in SessionName
BY NamesAssumption DEF Name

\* The removals RemoveClient announces.
Removals(c) == [n \in Name |-> IF n \in Owned(c)
                               THEN Key(held[n].key.version + 1, Removed)
                               ELSE NoKey]

LEMMA RemovalsAreReal ==
    ASSUME Types, NEW c \in Client
    PROVE  /\ Removals(c) \in [Name -> RealKeys]
           /\ \A n \in Name :
                 IF n \in Owned(c)
                 THEN /\ Removals(c)[n].version = held[n].key.version + 1
                      /\ Removals(c)[n].value = Removed
                 ELSE Removals(c)[n] = NoKey
<1>1. ASSUME NEW n \in Name
      PROVE  /\ Removals(c)[n] \in RealKeys
             /\ IF n \in Owned(c)
                THEN /\ Removals(c)[n].version = held[n].key.version + 1
                     /\ Removals(c)[n].value = Removed
                ELSE Removals(c)[n] = NoKey
  <2>1. held[n].key \in RealKeys
    BY DEF Types
  <2>2. held[n].key.version + 1 \in Nat \ {0}
    <3>1. held[n].key.version \in Nat
      BY <2>1, RealKeyFacts
    <3> QED BY <3>1
  <2>3. /\ Key(held[n].key.version + 1, Removed) \in RealKeys
        /\ Key(held[n].key.version + 1, Removed).version = held[n].key.version + 1
        /\ Key(held[n].key.version + 1, Removed).value = Removed
    BY <2>2, KeyIsReal
  <2> QED BY <2>3, NoKeysAreReal DEF Removals
<1>2. Removals(c) = [n \in Name |-> Removals(c)[n]]
  BY DEF Removals
<1> QED BY <1>1, <1>2

(***************************************************************************)
(* What the steps do.  Each of SetClientKey and SetDocumentKey is refused  *)
(* or sets a key; these operators are the second case.                     *)
(***************************************************************************)
SetsClientKey(c, n, v) ==
    /\ pc[c] = "ready" /\ v.old \in {0, view[c][n].version} /\ Accepts(n, v.old)
    /\ held' = [held EXCEPT ![n] = [key |-> Key(v.new, c), owner |-> c]]
    /\ Notify(Others(c), One(n, Key(v.new, c)))
    /\ Acknowledged(c, n, Key(v.new, c))
    /\ UNCHANGED <<db, registered, pc, found, unread>>

SetsDocumentKey(c, n, v) ==
    /\ pc[c] = "ready" /\ db[n].version = v.old
    /\ db' = [db EXCEPT ![n] = Key(v.new, c)]
    /\ found' = [found EXCEPT ![c] = One(n, Key(v.new, c))]
    /\ Goto(c, "announce")
    /\ UNCHANGED <<held, registered, pending, view, unread>>

Keeps == UNCHANGED <<db, held, registered, pc, found, pending, view, unread>>

\* Every step is one of these.
Step(c) ==
    \/ AddClient(c) \/ GetDocumentKeys(c) \/ GetClientKeys(c)
    \/ NotifyKeysFound(c) \/ SetSessionKey(c) \/ SendKeys(c) \/ RemoveClient(c)
    \/ \E n \in ClientName : \E v \in Versions : SetsClientKey(c, n, v)
    \/ \E n \in SessionName : \E v \in Versions : SetsDocumentKey(c, n, v)

LEMMA NextIsStep ==
    ASSUME [Next]_vars PROVE Keeps \/ \E c \in Client : Step(c)
<1>1. CASE vars' = vars \/ Finished
  BY <1>1 DEF vars, Finished, Keeps
<1>2. ASSUME NEW c \in Client, SetClientKey(c) PROVE Keeps \/ Step(c)
  BY <1>2 DEF SetClientKey, Request, Asked, SetsClientKey, Keeps, Step
<1>3. ASSUME NEW c \in Client, SetDocumentKey(c) PROVE Keeps \/ Step(c)
  BY <1>3 DEF SetDocumentKey, Request, Asked, SetsDocumentKey, Keeps, Step
<1> QED BY <1>1, <1>2, <1>3 DEF Next, Step

\* Steps count no further than sets.
LEMMA SetsIsNat ==
    ASSUME sets \in Nat, [Next]_vars PROVE sets' \in Nat
<1>1. ASSUME NEW c \in Client, Request(c) PROVE sets' \in Nat
  BY <1>1 DEF Request
<1> QED BY <1>1 DEF Next, vars, Finished, AddClient, GetDocumentKeys,
        GetClientKeys, NotifyKeysFound, SetClientKey, SetDocumentKey,
        SetSessionKey, SendKeys, RemoveClient

-----------------------------------------------------------------------------
(***************************************************************************)
(* Types, membership, and what readers carry                               *)
(***************************************************************************)
LEMMA BasicsInit == Init => Basics
<1> SUFFICES ASSUME Init PROVE Basics
  OBVIOUS
<1> USE NoKeysAreReal
<1>1. NotHeld \in [key: RealKeys, owner: Client \cup {Nobody}]
  BY DEF NotHeld
<1>2. Types
  BY <1>1 DEF Init, Types, Stages
<1>3. Membership
  BY DEF Init, Membership
<1>4. Separate
  BY NamesApart DEF Init, Separate, NoKeys
<1>5. Carried
  BY DEF Init, Carried, NoKeys
<1> QED BY <1>2, <1>3, <1>4, <1>5 DEF Basics

LEMMA TypesStep ==
    ASSUME VersionsAssumption, Types, NEW c \in Client, Step(c)
    PROVE  Types'
<1> USE NoKeysAreReal DEF Types
<1>1. CASE AddClient(c)
  BY <1>1 DEF AddClient, Goto, Stages
<1>2. CASE GetDocumentKeys(c)
  BY <1>2 DEF GetDocumentKeys, Goto, Stages
<1>3. CASE GetClientKeys(c)
  <2> DEFINE new == [n \in Name |-> IF n \in ClientName THEN held[n].key
                                                       ELSE found[c][n]]
  <2>1. new \in [Name -> RealKeys]
    OBVIOUS
  <2>2. found' = [found EXCEPT ![c] = new]
    BY <1>3 DEF GetClientKeys
  <2>3. found' \in [Client -> [Name -> RealKeys]]
    BY <2>1, <2>2
  <2> QED BY <1>3, <2>3 DEF GetClientKeys, Goto, Stages
<1>4. CASE NotifyKeysFound(c)
  <2>1. pending' \in [Client -> [Name -> RealKeys]]
    BY <1>4, NotifyIsNewest DEF NotifyKeysFound
  <2> QED BY <1>4, <2>1 DEF NotifyKeysFound, Goto, Stages
<1>5. CASE SetSessionKey(c)
  <2>1. pending' \in [Client -> [Name -> RealKeys]]
    BY <1>5, NotifyIsNewest DEF SetSessionKey, Others
  <2>2. Merge(view[c], found[c]) \in [Name -> RealKeys]
    BY MergeIsNewest
  <2>3. view' \in [Client -> [Name -> RealKeys]]
    BY <1>5, <2>2 DEF SetSessionKey
  <2> QED BY <1>5, <2>1, <2>3 DEF SetSessionKey, Goto, Stages
<1>6. CASE SendKeys(c)
  <2>2. Merge(view[c], pending[c]) \in [Name -> RealKeys]
    BY MergeIsNewest
  <2>3. view' \in [Client -> [Name -> RealKeys]]
    BY <1>6, <2>2 DEF SendKeys
  <2> QED BY <1>6, <2>3 DEF SendKeys
<1>7. CASE RemoveClient(c)
  <2>1. Notify(Others(c), Removals(c))
    BY <1>7 DEF RemoveClient, Removals
  <2>2. pending' \in [Client -> [Name -> RealKeys]]
    BY <2>1, NotifyIsNewest, RemovalsAreReal DEF Others
  <2>3. held' \in [Name -> [key: RealKeys, owner: Client \cup {Nobody}]]
    BY <1>7 DEF RemoveClient, NotHeld
  <2> QED BY <1>7, <2>2, <2>3 DEF RemoveClient, Goto, Stages
<1>8. ASSUME NEW n \in ClientName, NEW v \in Versions, SetsClientKey(c, n, v)
      PROVE  Types'
  <2>1. n \in Name /\ v.new \in Nat \ {0}
    BY NamesApart, VersionsAssumption
  <2>2. Key(v.new, c) \in RealKeys
    BY <2>1, KeyIsReal
  <2>3. pending' \in [Client -> [Name -> RealKeys]]
    BY <1>8, <2>1, <2>2, OneIsReal, NotifyIsNewest DEF SetsClientKey, Others
  <2>4. view' \in [Client -> [Name -> RealKeys]]
    <3>1. [view[c] EXCEPT ![n] = Key(v.new, c)] \in [Name -> RealKeys]
      BY <2>1, <2>2
    <3>2. view' = [view EXCEPT ![c] = [view[c] EXCEPT ![n] = Key(v.new, c)]]
      BY <1>8 DEF SetsClientKey, Acknowledged
    <3> QED BY <3>1, <3>2
  <2>5. held' \in [Name -> [key: RealKeys, owner: Client \cup {Nobody}]]
    BY <1>8, <2>1, <2>2 DEF SetsClientKey
  <2> QED BY <1>8, <2>3, <2>4, <2>5 DEF SetsClientKey
<1>9. ASSUME NEW n \in SessionName, NEW v \in Versions,
             SetsDocumentKey(c, n, v)
      PROVE  Types'
  <2>1. n \in Name /\ v.new \in Nat \ {0}
    BY NamesApart, VersionsAssumption
  <2>2. Key(v.new, c) \in RealKeys
    BY <2>1, KeyIsReal
  <2>3. One(n, Key(v.new, c)) \in [Name -> RealKeys]
    BY <2>1, <2>2, OneIsReal
  <2> QED BY <1>9, <2>1, <2>2, <2>3 DEF SetsDocumentKey, Goto, Stages
<1> QED BY <1>1, <1>2, <1>3, <1>4, <1>5, <1>6, <1>7, <1>8, <1>9 DEF Step

LEMMA MembershipStep ==
    ASSUME Types, Membership, NEW c \in Client, Step(c)
    PROVE  Membership'
BY DEF Types, Membership, Step, AddClient, GetDocumentKeys, GetClientKeys,
       NotifyKeysFound, SetSessionKey, SendKeys, RemoveClient, SetsClientKey,
       SetsDocumentKey, Goto

LEMMA SeparateStep ==
    ASSUME Types, Separate, NEW c \in Client, Step(c)
    PROVE  Separate'
<1> USE NamesApart DEF Types, Separate
<1>1. CASE AddClient(c) \/ GetDocumentKeys(c) \/ GetClientKeys(c)
           \/ NotifyKeysFound(c) \/ SetSessionKey(c) \/ SendKeys(c)
  BY <1>1 DEF AddClient, GetDocumentKeys, GetClientKeys, NotifyKeysFound,
              SetSessionKey, SendKeys
<1>2. CASE RemoveClient(c)
  BY <1>2 DEF RemoveClient
<1>3. ASSUME NEW n \in ClientName, NEW v \in Versions, SetsClientKey(c, n, v)
      PROVE  Separate'
  BY <1>3 DEF SetsClientKey
<1>4. ASSUME NEW n \in SessionName, NEW v \in Versions,
             SetsDocumentKey(c, n, v)
      PROVE  Separate'
  BY <1>4 DEF SetsDocumentKey
<1> QED BY <1>1, <1>2, <1>3, <1>4 DEF Step

LEMMA CarriedStep ==
    ASSUME VersionsAssumption, Basics, NEW c \in Client, Step(c)
    PROVE  Carried'
<1> USE NoKeysAreReal, NamesApart DEF Basics, Types
<1>1. CASE AddClient(c)
  BY <1>1 DEF AddClient, Goto, Carried
<1>2. CASE GetDocumentKeys(c)
  BY <1>2 DEF GetDocumentKeys, Goto, Carried
<1>3. CASE GetClientKeys(c)
  BY <1>3 DEF GetClientKeys, Goto, Carried
<1>4. CASE NotifyKeysFound(c)
  <2>1. \A d \in Client : d # c => pending'[d] = pending[d]
    BY <1>4 DEF NotifyKeysFound, Notify
  <2> QED BY <1>4, <2>1 DEF NotifyKeysFound, Goto, Carried
<1>5. CASE SetSessionKey(c)
  <2>1. \A d \in Client : d \notin registered => pending'[d] = pending[d]
    BY <1>5 DEF SetSessionKey, Notify, Others
  <2>2. \A d \in Client : pc'[d] = "join" =>
            pc[d] = "join" /\ d \notin registered /\ d # c
    BY <1>5 DEF SetSessionKey, Goto, Membership
  <2> QED BY <1>5, <2>1, <2>2 DEF SetSessionKey, Goto, Carried
<1>6. CASE SendKeys(c)
  <2>1. pc[c] # "join"
    <3>1. pending[c] = [n \in Name |-> pending[c][n]]
      OBVIOUS
    <3> QED BY <1>6, <3>1 DEF SendKeys, NoKeys, Carried
  <2> QED BY <1>6, <2>1 DEF SendKeys, Carried
<1>7. CASE RemoveClient(c)
  <2>1. \A d \in Client : d \notin registered => pending'[d] = pending[d]
    BY <1>7 DEF RemoveClient, Notify, Others
  <2>2. \A d \in Client : pc'[d] = "join" =>
            pc[d] = "join" /\ d \notin registered /\ d # c
    BY <1>7 DEF RemoveClient, Goto, Membership
  <2> QED BY <1>7, <2>1, <2>2 DEF RemoveClient, Goto, Carried
<1>8. ASSUME NEW n \in ClientName, NEW v \in Versions, SetsClientKey(c, n, v)
      PROVE  Carried'
  <2>1. \A d \in Client : d \notin registered => pending'[d] = pending[d]
    BY <1>8 DEF SetsClientKey, Notify, Others
  <2>2. \A d \in Client : pc'[d] = "join" =>
            pc[d] = "join" /\ d \notin registered /\ d # c
    BY <1>8 DEF SetsClientKey, Membership
  <2>3. \A d \in Client : d # c => view'[d] = view[d]
    BY <1>8 DEF SetsClientKey, Acknowledged
  <2> QED BY <1>8, <2>1, <2>2, <2>3 DEF SetsClientKey, Carried
<1>9. ASSUME NEW n \in SessionName, NEW v \in Versions,
             SetsDocumentKey(c, n, v)
      PROVE  Carried'
  <2>1. \A m \in ClientName : One(n, Key(v.new, c))[m] = NoKey
    <3>1. Key(v.new, c) \in RealKeys
      BY VersionsAssumption, KeyIsReal
    <3> QED BY <3>1, OneIsReal
  <2> QED BY <1>9, <2>1 DEF SetsDocumentKey, Goto, Carried
<1> QED BY <1>1, <1>2, <1>3, <1>4, <1>5, <1>6, <1>7, <1>8, <1>9 DEF Step

\* Where a client is, what it carries and which tables hold a key: these facts
\* are inductive together.
LEMMA BasicsStep ==
    ASSUME VersionsAssumption, Basics, [Next]_vars
    PROVE  Basics'
<1>1. CASE Keeps
  BY <1>1 DEF Keeps, Basics, Types, Membership, Separate, Carried
<1>2. ASSUME NEW c \in Client, Step(c) PROVE Basics'
  BY <1>2, TypesStep, MembershipStep, SeparateStep, CarriedStep DEF Basics
<1> QED BY <1>1, <1>2, NextIsStep

THEOREM BasicsHold == Spec => []Basics
BY BasicsInit, BasicsStep, VersionsAssumption, PTL DEF Spec

\* Every variable keeps its type (socket.go:92-96, hub.go:12-28): the keys that
\* are stored, held, carried and sent are keys that somebody set, or removals.
THEOREM TypeCorrect == Spec => []TypeOK
<1>1. Basics /\ sets \in Nat => TypeOK
  <2> SUFFICES ASSUME Basics, sets \in Nat PROVE TypeOK
    OBVIOUS
  <2>1. RealKeys \subseteq Keys
    BY RealKeyFacts DEF RealKeys, Keys, NoKey
  <2> QED BY <2>1 DEF Basics, Types, TypeOK, Stages
<1>2. Init => sets \in Nat
  BY DEF Init
<1>3. sets \in Nat /\ [Next]_vars => (sets \in Nat)'
  BY SetsIsNat
<1>4. Spec => [](sets \in Nat)
  BY <1>2, <1>3, PTL DEF Spec
<1> QED BY <1>1, <1>4, BasicsHold, PTL

-----------------------------------------------------------------------------
(***************************************************************************)
(* Client keys have owners that are connected                              *)
(***************************************************************************)
LEMMA OwnersStep ==
    ASSUME Basics, OwnersAreConnected, NEW c \in Client, Step(c)
    PROVE  OwnersAreConnected'
<1> USE NamesApart DEF Basics, Types, OwnersAreConnected
<1>1. CASE AddClient(c) \/ GetDocumentKeys(c) \/ GetClientKeys(c)
           \/ NotifyKeysFound(c) \/ SetSessionKey(c) \/ SendKeys(c)
  BY <1>1 DEF AddClient, GetDocumentKeys, GetClientKeys, NotifyKeysFound,
              SetSessionKey, SendKeys
<1>2. CASE RemoveClient(c)
  <2>1. \A n \in Name : held'[n].owner # Nobody =>
                            held'[n] = held[n] /\ held[n].owner # c
    BY <1>2 DEF RemoveClient, Owned, NotHeld
  <2> QED BY <1>2, <2>1 DEF RemoveClient
<1>3. ASSUME NEW n \in ClientName, NEW v \in Versions, SetsClientKey(c, n, v)
      PROVE  OwnersAreConnected'
  <2>1. c \in registered
    BY <1>3 DEF SetsClientKey, Membership
  <2> QED BY <1>3, <2>1 DEF SetsClientKey
<1>4. ASSUME NEW n \in SessionName, NEW v \in Versions,
             SetsDocumentKey(c, n, v)
      PROVE  OwnersAreConnected'
  BY <1>4 DEF SetsDocumentKey
<1> QED BY <1>1, <1>2, <1>3, <1>4 DEF Step

\* A client key is held for a client that is connected: whoever set it first, and
\* whoever replaced it, it goes with its last owner (hub.go:120-139, 229-238).
THEOREM OwnersConnected == Spec => []OwnersAreConnected
<1>1. Init => OwnersAreConnected
  BY DEF Init, OwnersAreConnected, NotHeld
<1>2. Basics /\ OwnersAreConnected /\ [Next]_vars => OwnersAreConnected'
  <2> SUFFICES ASSUME Basics, OwnersAreConnected, [Next]_vars
               PROVE  OwnersAreConnected'
    OBVIOUS
  <2>1. CASE Keeps
    BY <2>1 DEF Keeps, OwnersAreConnected
  <2> QED BY <2>1, NextIsStep, OwnersStep
<1> QED BY <1>1, <1>2, BasicsHold, PTL DEF Spec

-----------------------------------------------------------------------------
(***************************************************************************)
(* Versions: Upto is an order under which Newest takes the larger          *)
(***************************************************************************)
LEMMA UptoNewest ==
    ASSUME NEW k, NEW l, NEW s, Upto(k, s), Upto(l, s)
    PROVE  Upto(Newest(k, l), s)
BY DEF Newest

LEMMA UptoNone ==
    ASSUME NEW s \in RealKeys
    PROVE  Upto(NoKey, s) /\ Upto(s, s)
<1>1. s.version \in Nat /\ (s = NoKey \/ s.version > 0)
  BY RealKeyFacts
<1>2. NoKey.version = 0
  BY DEF NoKey
<1> QED BY <1>1, <1>2 DEF Upto

LEMMA UptoNewer ==
    ASSUME NEW k \in RealKeys, NEW s \in RealKeys, NEW t \in RealKeys,
           Upto(k, s), s.version < t.version
    PROVE  Upto(k, t)
<1>1. k.version \in Nat /\ s.version \in Nat /\ t.version \in Nat
  BY RealKeyFacts
<1> QED BY <1>1 DEF Upto

LEMMA NewestAtTop ==
    ASSUME NEW k \in RealKeys, NEW l \in RealKeys, NEW s \in RealKeys,
           Upto(k, s), Upto(l, s), k = s \/ l = s
    PROVE  Newest(k, l) = s
<1>1. k.version \in Nat /\ l.version \in Nat /\ s.version \in Nat
  BY RealKeyFacts
<1> QED BY <1>1 DEF Upto, Newest

(***************************************************************************)
(* What the steps do to one name: the helpers put aside                    *)
(***************************************************************************)
\* The keys read from the database, or none.
LEMMA GetDocumentKeysEffect ==
    ASSUME Types, NEW c \in Client, GetDocumentKeys(c),
           NEW d \in Client, NEW n \in Name
    PROVE  found'[d][n] \in {db[n], NoKey, found[d][n]}
<1> USE DEF Types
<1>1. CASE found' = [found EXCEPT ![c] = db]
  BY <1>1
<1>2. CASE found' = [found EXCEPT ![c] = NoKeys]
  BY <1>2 DEF NoKeys
<1> QED BY <1>1, <1>2 DEF GetDocumentKeys

\* Keys found, at the end of joining.
LEMMA NotifyKeysFoundEffect ==
    ASSUME Basics, NEW c \in Client, NotifyKeysFound(c)
    PROVE  \A d \in Client, n \in Name :
               /\ view'[d][n] = view[d][n]
               /\ found'[d][n] = IF d = c THEN NoKey ELSE found[d][n]
               /\ pending'[d][n] = IF d = c
                                   THEN Newest(pending[c][n], found[c][n])
                                   ELSE pending[d][n]
<1> USE DEF Basics, Types
<1>1. \A d \in Client, n \in Name :
          pending'[d][n] = IF d \in {c} THEN Newest(pending[d][n], found[c][n])
                                        ELSE pending[d][n]
  <2>1. found[c] \in [Name -> RealKeys] /\ Notify({c}, found[c])
    BY DEF NotifyKeysFound
  <2>2. Notified({c}, found[c])
    BY <2>1, NotifyIsNewest
  <2> QED BY <2>2 DEF Notified
<1> QED BY <1>1 DEF NotifyKeysFound, NoKeys

LEMMA SetSessionKeyEffect ==
    ASSUME Basics, NEW c \in Client, SetSessionKey(c)
    PROVE  \A d \in Client, n \in Name :
               /\ view'[d][n] = IF d = c THEN Newest(view[c][n], found[c][n])
                                         ELSE view[d][n]
               /\ found'[d][n] = IF d = c THEN NoKey ELSE found[d][n]
               /\ pending'[d][n] = IF d \in Others(c)
                                   THEN Newest(pending[d][n], found[c][n])
                                   ELSE pending[d][n]
<1> USE DEF Basics, Types
<1>1. \A d \in Client, n \in Name :
          pending'[d][n] = IF d \in Others(c)
                           THEN Newest(pending[d][n], found[c][n])
                           ELSE pending[d][n]
  <2>1. /\ found[c] \in [Name -> RealKeys] /\ Notify(Others(c), found[c])
        /\ Others(c) \in SUBSET Client
    BY DEF SetSessionKey, Others
  <2>2. Notified(Others(c), found[c])
    BY <2>1, NotifyIsNewest
  <2> QED BY <2>2 DEF Notified
<1>2. \A n \in Name : Merge(view[c], found[c])[n] = Newest(view[c][n], found[c][n])
  <2>1. view[c] \in [Name -> RealKeys] /\ found[c] \in [Name -> RealKeys]
    OBVIOUS
  <2> QED BY <2>1, MergeIsNewest
<1>3. view' = [view EXCEPT ![c] = Merge(view[c], found[c])]
  BY DEF SetSessionKey
<1> QED BY <1>1, <1>2, <1>3 DEF SetSessionKey, NoKeys

LEMMA SendKeysEffect ==
    ASSUME Basics, NEW c \in Client, SendKeys(c)
    PROVE  \A d \in Client, n \in Name :
               /\ view'[d][n] = IF d = c THEN Newest(view[c][n], pending[c][n])
                                         ELSE view[d][n]
               /\ pending'[d][n] = IF d = c THEN NoKey ELSE pending[d][n]
<1> USE DEF Basics, Types
<1>2. \A n \in Name :
          Merge(view[c], pending[c])[n] = Newest(view[c][n], pending[c][n])
  <2>1. view[c] \in [Name -> RealKeys] /\ pending[c] \in [Name -> RealKeys]
    OBVIOUS
  <2> QED BY <2>1, MergeIsNewest
<1>3. view' = [view EXCEPT ![c] = Merge(view[c], pending[c])]
  BY DEF SendKeys
<1> QED BY <1>2, <1>3 DEF SendKeys, NoKeys

LEMMA RemoveClientEffect ==
    ASSUME Basics, NEW c \in Client, RemoveClient(c)
    PROVE  /\ \A n \in Name : held'[n] = IF n \in Owned(c) THEN NotHeld
                                                        ELSE held[n]
           /\ \A d \in Client, n \in Name :
                 pending'[d][n] = IF d \in Others(c)
                                  THEN Newest(pending[d][n], Removals(c)[n])
                                  ELSE pending[d][n]
<1> USE DEF Basics, Types
<1>1. Notify(Others(c), Removals(c))
  BY DEF RemoveClient, Removals
<1>2. Removals(c) \in [Name -> RealKeys]
  BY RemovalsAreReal
<1>3. \A d \in Client, n \in Name :
          pending'[d][n] = IF d \in Others(c)
                           THEN Newest(pending[d][n], Removals(c)[n])
                           ELSE pending[d][n]
  <2>1. Others(c) \in SUBSET Client
    BY DEF Others
  <2>2. Notified(Others(c), Removals(c))
    BY <1>1, <1>2, <2>1, NotifyIsNewest
  <2> QED BY <2>2 DEF Notified
<1>4. held' = [n \in Name |-> IF n \in Owned(c) THEN NotHeld ELSE held[n]]
  BY DEF RemoveClient
<1> QED BY <1>3, <1>4

ClientKeySet(c, n, k) ==
    /\ \A m \in Name : held'[m] = IF m = n THEN [key |-> k, owner |-> c]
                                          ELSE held[m]
    /\ \A d \in Client, m \in Name :
          /\ view'[d][m] = IF d = c /\ m = n THEN k ELSE view[d][m]
          /\ pending'[d][m] = IF d \in Others(c) /\ m = n
                              THEN Newest(pending[d][m], k)
                              ELSE pending[d][m]

LEMMA SetsClientKeyEffect ==
    ASSUME VersionsAssumption, Basics, NEW c \in Client, NEW n \in ClientName,
           NEW v \in Versions, SetsClientKey(c, n, v)
    PROVE  ClientKeySet(c, n, Key(v.new, c))
<1> USE NamesApart DEF Basics, Types
<1>1. Key(v.new, c) \in RealKeys
  BY VersionsAssumption, KeyIsReal
<1>2. /\ One(n, Key(v.new, c)) \in [Name -> RealKeys]
      /\ One(n, Key(v.new, c))[n] = Key(v.new, c)
      /\ \A m \in Name : m # n => One(n, Key(v.new, c))[m] = NoKey
  BY <1>1, OneIsReal
<1>3. \A d \in Client, m \in Name :
          pending'[d][m] = IF d \in Others(c)
                           THEN Newest(pending[d][m], One(n, Key(v.new, c))[m])
                           ELSE pending[d][m]
  <2>1. /\ Others(c) \in SUBSET Client
        /\ Notify(Others(c), One(n, Key(v.new, c)))
    BY DEF SetsClientKey, Others
  <2>2. Notified(Others(c), One(n, Key(v.new, c)))
    BY <1>2, <2>1, NotifyIsNewest
  <2> QED BY <2>2 DEF Notified
<1>4. \A d \in Client, m \in Name : Newest(pending[d][m], NoKey) = pending[d][m]
  BY NewestOfNone
<1>5. view' = [view EXCEPT ![c] = [view[c] EXCEPT ![n] = Key(v.new, c)]]
  BY DEF SetsClientKey, Acknowledged
<1> QED BY <1>2, <1>3, <1>4, <1>5 DEF SetsClientKey, ClientKeySet

LEMMA SetsDocumentKeyEffect ==
    ASSUME VersionsAssumption, Basics, NEW c \in Client, NEW n \in SessionName,
           NEW v \in Versions, SetsDocumentKey(c, n, v)
    PROVE  /\ \A m \in Name : db'[m] = IF m = n THEN Key(v.new, c) ELSE db[m]
           /\ \A d \in Client, m \in Name :
                 found'[d][m] = IF d # c THEN found[d][m]
                                ELSE IF m = n THEN Key(v.new, c) ELSE NoKey
<1> USE NamesApart DEF Basics, Types
<1>1. Key(v.new, c) \in RealKeys
  BY VersionsAssumption, KeyIsReal
<1>2. /\ One(n, Key(v.new, c))[n] = Key(v.new, c)
      /\ \A m \in Name : m # n => One(n, Key(v.new, c))[m] = NoKey
  BY <1>1, OneIsReal
<1> QED BY <1>2 DEF SetsDocumentKey

-----------------------------------------------------------------------------
(***************************************************************************)
(* Session keys reach everybody                                            *)
(***************************************************************************)
\* Nobody has anything newer than the database.
LEMMA SessionBoundStep ==
    ASSUME VersionsAssumption, VersionsGrow, Basics, SessionBound,
           NEW c \in Client, Step(c)
    PROVE  SessionBound'
<1> SUFFICES ASSUME NEW d \in Client, NEW n \in SessionName
             PROVE  AllUpto(d, n, db[n])'
  BY DEF SessionBound
<1> USE DEF Basics, Types
<1>n. n \in Name /\ n \notin ClientName
  BY NamesApart
<1>r. /\ db[n] \in RealKeys /\ view[d][n] \in RealKeys
      /\ pending[d][n] \in RealKeys /\ found[d][n] \in RealKeys
      /\ found[c][n] \in RealKeys /\ pending[c][n] \in RealKeys
  BY <1>n
<1>b. /\ Upto(view[d][n], db[n]) /\ Upto(pending[d][n], db[n])
      /\ Upto(found[d][n], db[n]) /\ Upto(found[c][n], db[n])
      /\ Upto(NoKey, db[n]) /\ Upto(db[n], db[n])
  BY <1>r, UptoNone DEF SessionBound, AllUpto
<1>c. /\ Upto(Newest(view[d][n], pending[d][n]), db[n])
      /\ Upto(Newest(view[d][n], found[c][n]), db[n])
      /\ Upto(Newest(pending[d][n], found[c][n]), db[n])
  BY <1>b, UptoNewest
<1>1. CASE AddClient(c)
  BY <1>1, <1>b DEF AddClient, AllUpto
<1>2. CASE GetDocumentKeys(c)
  <2>1. found'[d][n] \in {db[n], NoKey, found[d][n]}
    BY <1>2, <1>n, GetDocumentKeysEffect
  <2>2. Upto(found'[d][n], db[n])
    BY <1>b, <2>1
  <2> QED BY <1>2, <1>b, <2>2 DEF GetDocumentKeys, AllUpto
<1>3. CASE GetClientKeys(c)
  BY <1>3, <1>b, <1>n DEF GetClientKeys, AllUpto
<1>4. CASE NotifyKeysFound(c)
  <2>1. db'[n] = db[n]
    BY <1>4 DEF NotifyKeysFound
  <2>2. /\ view'[d][n] \in {Newest(view[d][n], found[c][n]), view[d][n]}
        /\ pending'[d][n] \in {Newest(pending[d][n], found[c][n]), pending[d][n]}
        /\ found'[d][n] \in {NoKey, found[d][n]}
    BY <1>4, <1>n, NotifyKeysFoundEffect
  <2>3. /\ Upto(view'[d][n], db[n]) /\ Upto(pending'[d][n], db[n])
        /\ Upto(found'[d][n], db[n])
    BY <1>b, <1>c, <2>2
  <2> QED BY <2>1, <2>3 DEF AllUpto
<1>5. CASE SetSessionKey(c)
  <2>1. db'[n] = db[n]
    BY <1>5 DEF SetSessionKey
  <2>2. /\ view'[d][n] \in {Newest(view[d][n], found[c][n]), view[d][n]}
        /\ pending'[d][n] \in {Newest(pending[d][n], found[c][n]), pending[d][n]}
        /\ found'[d][n] \in {NoKey, found[d][n]}
    BY <1>5, <1>n, SetSessionKeyEffect
  <2>3. /\ Upto(view'[d][n], db[n]) /\ Upto(pending'[d][n], db[n])
        /\ Upto(found'[d][n], db[n])
    BY <1>b, <1>c, <2>2
  <2> QED BY <2>1, <2>3 DEF AllUpto
<1>6. CASE SendKeys(c)
  <2>1. db'[n] = db[n] /\ found'[d] = found[d]
    BY <1>6 DEF SendKeys
  <2>2. /\ view'[d][n] \in {Newest(view[d][n], pending[d][n]), view[d][n]}
        /\ pending'[d][n] \in {NoKey, pending[d][n]}
    BY <1>6, <1>n, SendKeysEffect
  <2>3. Upto(view'[d][n], db[n]) /\ Upto(pending'[d][n], db[n])
    BY <1>b, <1>c, <2>2
  <2> QED BY <1>b, <2>1, <2>3 DEF AllUpto
<1>7. CASE RemoveClient(c)
  <2>1. db'[n] = db[n] /\ found'[d] = found[d] /\ view'[d] = view[d]
    BY <1>7 DEF RemoveClient
  <2>2. n \notin Owned(c)
    BY ClientsAssumption DEF Owned, Separate, NotHeld
  <2>3. Removals(c)[n] = NoKey
    BY <1>n, <2>2, RemovalsAreReal
  <2>4. Upto(Newest(pending[d][n], NoKey), db[n])
    BY <1>b, UptoNewest
  <2>5. pending'[d][n] \in {Newest(pending[d][n], Removals(c)[n]), pending[d][n]}
    BY <1>7, <1>n, RemoveClientEffect
  <2>6. Upto(pending'[d][n], db[n])
    BY <1>b, <2>3, <2>4, <2>5
  <2> QED BY <1>b, <2>1, <2>6 DEF AllUpto
<1>8. ASSUME NEW m \in ClientName, NEW v \in Versions, SetsClientKey(c, m, v)
      PROVE  AllUpto(d, n, db[n])'
  <2>1. db'[n] = db[n] /\ found'[d] = found[d] /\ n # m
    BY <1>8, <1>n DEF SetsClientKey
  <2>2. view'[d][n] = view[d][n] /\ pending'[d][n] = pending[d][n]
    <3>1. ClientKeySet(c, m, Key(v.new, c))
      BY <1>8, SetsClientKeyEffect
    <3> QED BY <1>n, <2>1, <3>1 DEF ClientKeySet
  <2> QED BY <1>b, <2>1, <2>2 DEF AllUpto
<1>9. ASSUME NEW m \in SessionName, NEW v \in Versions,
             SetsDocumentKey(c, m, v)
      PROVE  AllUpto(d, n, db[n])'
  <2>0. view'[d] = view[d] /\ pending'[d] = pending[d]
    BY <1>9 DEF SetsDocumentKey
  <2>1. CASE n # m
    <3>1. db'[n] = db[n] /\ found'[d][n] \in {NoKey, found[d][n]}
      BY <1>9, <1>n, <2>1, SetsDocumentKeyEffect
    <3> QED BY <1>b, <2>0, <3>1 DEF AllUpto
  <2>2. CASE n = m
    <3>1. /\ Key(v.new, c) \in RealKeys
          /\ db[n].version < Key(v.new, c).version
      BY <1>9, <2>2, VersionsAssumption, KeyIsReal DEF SetsDocumentKey, VersionsGrow
    <3>2. /\ Upto(view[d][n], Key(v.new, c)) /\ Upto(pending[d][n], Key(v.new, c))
          /\ Upto(found[d][n], Key(v.new, c))
          /\ Upto(Key(v.new, c), Key(v.new, c))
      BY <1>r, <1>b, <3>1, UptoNewer, UptoNone
    <3>3. /\ db'[n] = Key(v.new, c)
          /\ found'[d][n] \in {Key(v.new, c), found[d][n]}
      BY <1>9, <1>n, <2>2, SetsDocumentKeyEffect
    <3> QED BY <2>0, <3>2, <3>3 DEF AllUpto
  <2> QED BY <2>1, <2>2
<1> QED BY <1>1, <1>2, <1>3, <1>4, <1>5, <1>6, <1>7, <1>8, <1>9 DEF Step

\* The key of the database is on its way to whoever has read the keys, or its
\* author has it.
LEMMA SessionCoveredStep ==
    ASSUME VersionsAssumption, Basics, SessionBound, SessionCovered,
           NEW c \in Client, Step(c)
    PROVE  SessionCovered'
<1> SUFFICES ASSUME NEW d \in Client, NEW n \in SessionName,
                    pc'[d] \notin {"join", "session", "gone"}, d \notin unread'
             PROVE  (db[n].value = d \/ Coming(d, n))'
  BY DEF SessionCovered
<1> USE DEF Basics, Types
<1>n. n \in Name /\ n \notin ClientName
  BY NamesApart
<1>r. /\ db[n] \in RealKeys /\ view[d][n] \in RealKeys
      /\ pending[d][n] \in RealKeys /\ found[c][n] \in RealKeys
  BY <1>n
<1>b. /\ Upto(view[d][n], db[n]) /\ Upto(pending[d][n], db[n])
      /\ Upto(found[c][n], db[n])
  BY DEF SessionBound, AllUpto
<1>v. view[d][n] = db[n] \/ pending[d][n] = db[n]
          => Newest(view[d][n], pending[d][n]) = db[n]
  BY <1>r, <1>b, NewestAtTop
<1>w. view[d][n] = db[n] \/ found[c][n] = db[n]
          => Newest(view[d][n], found[c][n]) = db[n]
  BY <1>r, <1>b, NewestAtTop
<1>p. pending[d][n] = db[n] \/ found[c][n] = db[n]
          => Newest(pending[d][n], found[c][n]) = db[n]
  BY <1>r, <1>b, NewestAtTop
<1>u. d \notin unread
  BY DEF Step, AddClient, GetDocumentKeys, GetClientKeys, NotifyKeysFound,
         SetSessionKey, SendKeys, RemoveClient, SetsClientKey, SetsDocumentKey
<1>o. pc[d] \notin {"join", "session", "gone"} =>
          db[n].value = d \/ Coming(d, n)
  BY <1>u DEF SessionCovered
<1>1. CASE AddClient(c)
  BY <1>1, <1>o DEF AddClient, Goto, Coming
<1>2. CASE GetDocumentKeys(c)
  <2>1. CASE d = c
    BY <1>2, <2>1 DEF GetDocumentKeys, Goto, Coming
  <2>2. CASE d # c
    <3>1. /\ db' = db /\ view' = view /\ pending' = pending
          /\ \A e \in Client : e # c => pc'[e] = pc[e] /\ found'[e] = found[e]
          /\ pc[c] = "session"
      BY <1>2 DEF GetDocumentKeys, Goto
    <3> QED BY <1>o, <2>2, <3>1 DEF Coming
  <2> QED BY <2>1, <2>2
<1>3. CASE GetClientKeys(c)
  <2>1. found'[d][n] = found[d][n]
    BY <1>3, <1>n DEF GetClientKeys
  <2>2. \A e \in Client : pc[e] = "announce" =>
            pc'[e] = "announce" /\ found'[e] = found[e]
    BY <1>3 DEF GetClientKeys, Goto
  <2> QED BY <1>3, <1>o, <2>1, <2>2 DEF GetClientKeys, Goto, Coming
<1>4. CASE NotifyKeysFound(c)
  <2>1. /\ db' = db /\ view' = view
        /\ \A e \in Client : pc[e] = "announce" =>
               pc'[e] = "announce" /\ found'[e] = found[e]
    BY <1>4 DEF NotifyKeysFound, Goto
  <2>2. pending'[d][n] = IF d = c THEN Newest(pending[d][n], found[c][n])
                                  ELSE pending[d][n]
    BY <1>4, <1>n, NotifyKeysFoundEffect
  <2>3. d # c => pc'[d] = pc[d] /\ found'[d] = found[d]
    BY <1>4 DEF NotifyKeysFound, Goto
  <2>4. pc[d] \notin {"join", "session", "gone"}
    BY <1>4, <2>3 DEF NotifyKeysFound
  <2> QED BY <1>o, <1>p, <2>1, <2>2, <2>3, <2>4 DEF Coming
<1>5. CASE SetSessionKey(c)
  <2>1. /\ db' = db /\ pc[c] = "announce"
        /\ \A e \in Client : e # c => pc'[e] = pc[e] /\ found'[e] = found[e]
    BY <1>5 DEF SetSessionKey, Goto
  <2>2. /\ view'[d][n] = IF d = c THEN Newest(view[d][n], found[c][n])
                                  ELSE view[d][n]
        /\ pending'[d][n] = IF d \in Others(c)
                            THEN Newest(pending[d][n], found[c][n])
                            ELSE pending[d][n]
    BY <1>5, <1>n, SetSessionKeyEffect
  <2>3. pc[d] \notin {"join", "session", "gone"}
    BY <2>1
  <2>4. d # c => d \in Others(c)
    BY <2>3 DEF Membership, Others
  <2>5. CASE found[c][n] = db[n]
    BY <1>w, <1>p, <2>1, <2>2, <2>4, <2>5 DEF Coming
  <2>6. CASE found[c][n] # db[n]
    <3>1. \/ db[n].value = d \/ view[d][n] = db[n] \/ pending[d][n] = db[n]
          \/ pc[d] \in {"client", "notify"} /\ found[d][n] = db[n]
          \/ \E e \in Client \ {c} : pc[e] = "announce" /\ found[e][n] = db[n]
      BY <1>o, <2>3, <2>6 DEF Coming
    <3>2. (view[d][n] = db[n] => view'[d][n] = db[n])
          /\ (pending[d][n] = db[n] => pending'[d][n] = db[n])
      BY <1>w, <1>p, <2>2
    <3> QED BY <2>1, <3>1, <3>2 DEF Coming
  <2> QED BY <2>5, <2>6
<1>6. CASE SendKeys(c)
  <2>1. db' = db /\ pc' = pc /\ found' = found
    BY <1>6 DEF SendKeys
  <2>2. /\ view'[d][n] = IF d = c THEN Newest(view[d][n], pending[d][n])
                                  ELSE view[d][n]
        /\ d # c => pending'[d][n] = pending[d][n]
    BY <1>6, <1>n, SendKeysEffect
  <2> QED BY <1>o, <1>v, <2>1, <2>2 DEF Coming
<1>7. CASE RemoveClient(c)
  <2>1. /\ db' = db /\ found' = found /\ view' = view
        /\ \A e \in Client : e # c => pc'[e] = pc[e]
        /\ pc[c] = "ready" /\ pc'[c] = "gone"
    BY <1>7 DEF RemoveClient, Goto
  <2>2. n \notin Owned(c)
    BY ClientsAssumption DEF Owned, Separate, NotHeld
  <2>3. Newest(pending[d][n], Removals(c)[n]) = pending[d][n]
    BY <1>n, <1>r, <2>2, RemovalsAreReal, NewestOfNone
  <2>4. pending'[d][n] = pending[d][n]
    BY <1>7, <1>n, <2>3, RemoveClientEffect
  <2>5. d # c
    BY <2>1
  <2> QED BY <1>o, <2>1, <2>4, <2>5 DEF Coming
<1>8. ASSUME NEW m \in ClientName, NEW v \in Versions, SetsClientKey(c, m, v)
      PROVE  (db[n].value = d \/ Coming(d, n))'
  <2>1. db' = db /\ found' = found /\ pc' = pc /\ n # m
    BY <1>8, <1>n DEF SetsClientKey
  <2>2. ClientKeySet(c, m, Key(v.new, c))
    BY <1>8, SetsClientKeyEffect
  <2>3. view'[d][n] = view[d][n] /\ pending'[d][n] = pending[d][n]
    BY <1>n, <2>1, <2>2 DEF ClientKeySet
  <2> QED BY <1>o, <2>1, <2>3 DEF Coming
<1>9. ASSUME NEW m \in SessionName, NEW v \in Versions,
             SetsDocumentKey(c, m, v)
      PROVE  (db[n].value = d \/ Coming(d, n))'
  <2>1. /\ pc[c] = "ready" /\ pc'[c] = "announce"
        /\ view' = view /\ pending' = pending
        /\ \A e \in Client : e # c => pc'[e] = pc[e] /\ found'[e] = found[e]
    BY <1>9 DEF SetsDocumentKey, Goto
  <2>2. CASE n = m
    <3>1. db'[n] = Key(v.new, c) /\ found'[c][n] = Key(v.new, c)
      BY <1>9, <1>n, <2>2, SetsDocumentKeyEffect
    <3> QED BY <2>1, <3>1 DEF Coming
  <2>3. CASE n # m
    <3>1. db'[n] = db[n]
      BY <1>9, <1>n, <2>3, SetsDocumentKeyEffect
    <3>2. pc[d] \notin {"join", "session", "gone"}
      BY <2>1
    <3> QED BY <1>o, <2>1, <3>1, <3>2 DEF Coming
  <2> QED BY <2>2, <2>3
<1> QED BY <1>1, <1>2, <1>3, <1>4, <1>5, <1>6, <1>7, <1>8, <1>9 DEF Step

\* Whoever has joined knows the session key that the DocumentDB holds, set it
\* itself or is about to be told (client.go:108-113, 616-618), when requests
\* name newer versions than they replace; who could not read the session keys
\* when it joined (client.go:111) is excepted.
THEOREM SessionKeysReachAll ==
    ASSUME VersionsGrow PROVE Spec => []SessionKeysReach
<1>1. Init => SessionBound /\ SessionCovered
  <2> SUFFICES ASSUME Init PROVE SessionBound /\ SessionCovered
    OBVIOUS
  <2>1. Upto(NoKey, NoKey)
    BY NoKeysAreReal, UptoNone
  <2>2. SessionBound
    BY <2>1, NamesApart DEF Init, SessionBound, AllUpto, NoKeys
  <2>3. SessionCovered
    BY DEF Init, SessionCovered
  <2> QED BY <2>2, <2>3
<1>2. Basics /\ SessionBound /\ SessionCovered /\ [Next]_vars
          => SessionBound' /\ SessionCovered'
  <2> SUFFICES ASSUME Basics, SessionBound, SessionCovered, [Next]_vars
               PROVE  SessionBound' /\ SessionCovered'
    OBVIOUS
  <2>1. CASE Keeps
    BY <2>1 DEF Keeps, SessionBound, AllUpto, SessionCovered, Coming
  <2>2. ASSUME NEW c \in Client, Step(c)
        PROVE  SessionBound' /\ SessionCovered'
    BY <2>2, VersionsGrow, VersionsAssumption, SessionBoundStep, SessionCoveredStep
  <2> QED BY <2>1, <2>2, NextIsStep
<1>3. Basics /\ SessionBound /\ SessionCovered => SessionKeysReach
  <2> SUFFICES ASSUME Basics, SessionBound, SessionCovered,
                      NEW c \in Joined \ unread, NEW n \in SessionName
               PROVE  \/ db[n].value = c
                      \/ Knows(c, n) = db[n]
                      \/ \E d \in Client : pc[d] = "announce" /\ found[d][n] = db[n]
    BY DEF SessionKeysReach
  <2> USE DEF Basics, Types
  <2>1. /\ c \in Client /\ pc[c] \in {"ready", "announce"} /\ n \in Name
        /\ c \notin unread
    BY NamesApart DEF Joined
  <2>2. db[n].value = c \/ Coming(c, n)
    BY <2>1 DEF SessionCovered
  <2>3. /\ db[n] \in RealKeys /\ view[c][n] \in RealKeys
        /\ pending[c][n] \in RealKeys
        /\ Upto(view[c][n], db[n]) /\ Upto(pending[c][n], db[n])
    BY <2>1 DEF SessionBound, AllUpto
  <2>4. view[c][n] = db[n] \/ pending[c][n] = db[n]
            => Newest(view[c][n], pending[c][n]) = db[n]
    BY <2>3, NewestAtTop
  <2>5. pending[c][n] = NoKey => Newest(view[c][n], pending[c][n]) = view[c][n]
    BY <2>3, NewestOfNone
  <2> QED BY <2>1, <2>2, <2>4, <2>5 DEF Coming, Knows
<1> QED BY <1>1, <1>2, <1>3, BasicsHold, PTL DEF Spec

-----------------------------------------------------------------------------
(***************************************************************************)
(* Client keys reach everybody, until somebody leaves                      *)
(***************************************************************************)
LEMMA LeftForGood ==
    ASSUME Basics, NEW c \in Client, Step(c)
    PROVE  /\ \A d \in Client : pc[d] = "gone" => pc'[d] = "gone"
           /\ AllHere' => AllHere
           /\ OneLeft' => OneLeft
<1>1. \A d \in Client : pc[d] = "gone" => pc'[d] = "gone"
  BY DEF Basics, Types, Step, AddClient, GetDocumentKeys, GetClientKeys,
       NotifyKeysFound, SetSessionKey, SendKeys, RemoveClient, SetsClientKey,
       SetsDocumentKey, Goto
<1> QED BY <1>1 DEF AllHere, OneLeft

\* A key is accepted if it is newer than the one that is held.
LEMMA AcceptedIsNewer ==
    ASSUME VersionsAssumption, VersionsGrow, NEW c \in Client,
           NEW n \in ClientName, NEW v \in Versions, SetsClientKey(c, n, v)
    PROVE  held[n].key.version < Key(v.new, c).version
<1>1. NotHeld.key = NoKey /\ NoKey.version = 0
  BY DEF NotHeld, NoKey
<1>2. held[n].key.version = v.old
  BY <1>1 DEF SetsClientKey, Accepts
<1>3. Key(v.new, c).version = v.new
  BY VersionsAssumption, KeyIsReal
<1> QED BY <1>2, <1>3 DEF VersionsGrow

LEMMA ClientBoundStep ==
    ASSUME VersionsAssumption, VersionsGrow, Basics, ClientBound,
           NEW c \in Client, Step(c)
    PROVE  ClientBound'
<1> SUFFICES ASSUME AllHere', NEW d \in Client, NEW n \in ClientName
             PROVE  AllUpto(d, n, held[n].key)'
  BY DEF ClientBound
<1> USE DEF Basics, Types
<1>n. n \in Name /\ n \notin SessionName
  BY NamesApart
<1>r. /\ held[n].key \in RealKeys /\ view[d][n] \in RealKeys
      /\ pending[d][n] \in RealKeys /\ found[d][n] \in RealKeys
      /\ found[c][n] \in RealKeys /\ db[n] = NoKey
  BY <1>n DEF Separate
<1>b. /\ Upto(view[d][n], held[n].key) /\ Upto(pending[d][n], held[n].key)
      /\ Upto(found[d][n], held[n].key) /\ Upto(found[c][n], held[n].key)
      /\ Upto(NoKey, held[n].key) /\ Upto(held[n].key, held[n].key)
  BY <1>r, LeftForGood, UptoNone DEF ClientBound, AllUpto
<1>c. /\ Upto(Newest(view[d][n], pending[d][n]), held[n].key)
      /\ Upto(Newest(view[d][n], found[c][n]), held[n].key)
      /\ Upto(Newest(pending[d][n], found[c][n]), held[n].key)
  BY <1>b, UptoNewest
<1>1. CASE AddClient(c)
  BY <1>1, <1>b DEF AddClient, AllUpto
<1>2. CASE GetDocumentKeys(c)
  <2>1. found'[d][n] \in {NoKey, found[d][n]}
    BY <1>2, <1>n, <1>r, GetDocumentKeysEffect
  <2>2. Upto(found'[d][n], held[n].key)
    BY <1>b, <2>1
  <2> QED BY <1>2, <1>b, <2>2 DEF GetDocumentKeys, AllUpto
<1>3. CASE GetClientKeys(c)
  <2>1. found'[d][n] \in {held[n].key, found[d][n]}
    BY <1>3, <1>n DEF GetClientKeys
  <2>2. Upto(found'[d][n], held[n].key)
    BY <1>b, <2>1
  <2> QED BY <1>3, <1>b, <2>2 DEF GetClientKeys, AllUpto
<1>4. CASE NotifyKeysFound(c)
  <2>1. held'[n] = held[n]
    BY <1>4 DEF NotifyKeysFound
  <2>2. /\ view'[d][n] \in {Newest(view[d][n], found[c][n]), view[d][n]}
        /\ pending'[d][n] \in {Newest(pending[d][n], found[c][n]), pending[d][n]}
        /\ found'[d][n] \in {NoKey, found[d][n]}
    BY <1>4, <1>n, NotifyKeysFoundEffect
  <2>3. /\ Upto(view'[d][n], held[n].key) /\ Upto(pending'[d][n], held[n].key)
        /\ Upto(found'[d][n], held[n].key)
    BY <1>b, <1>c, <2>2
  <2> QED BY <2>1, <2>3 DEF AllUpto
<1>5. CASE SetSessionKey(c)
  <2>1. held'[n] = held[n]
    BY <1>5 DEF SetSessionKey
  <2>2. /\ view'[d][n] \in {Newest(view[d][n], found[c][n]), view[d][n]}
        /\ pending'[d][n] \in {Newest(pending[d][n], found[c][n]), pending[d][n]}
        /\ found'[d][n] \in {NoKey, found[d][n]}
    BY <1>5, <1>n, SetSessionKeyEffect
  <2>3. /\ Upto(view'[d][n], held[n].key) /\ Upto(pending'[d][n], held[n].key)
        /\ Upto(found'[d][n], held[n].key)
    BY <1>b, <1>c, <2>2
  <2> QED BY <2>1, <2>3 DEF AllUpto
<1>6. CASE SendKeys(c)
  <2>1. held'[n] = held[n] /\ found'[d] = found[d]
    BY <1>6 DEF SendKeys
  <2>2. /\ view'[d][n] \in {Newest(view[d][n], pending[d][n]), view[d][n]}
        /\ pending'[d][n] \in {NoKey, pending[d][n]}
    BY <1>6, <1>n, SendKeysEffect
  <2>3. Upto(view'[d][n], held[n].key) /\ Upto(pending'[d][n], held[n].key)
    BY <1>b, <1>c, <2>2
  <2> QED BY <1>b, <2>1, <2>3 DEF AllUpto
<1>7. CASE RemoveClient(c)
  BY <1>7 DEF RemoveClient, Goto, AllHere
<1>8. ASSUME NEW m \in ClientName, NEW v \in Versions, SetsClientKey(c, m, v)
      PROVE  AllUpto(d, n, held[n].key)'
  <2>1. ClientKeySet(c, m, Key(v.new, c)) /\ found' = found
    BY <1>8, SetsClientKeyEffect DEF SetsClientKey
  <2>2. CASE n # m
    <3>1. /\ held'[n] = held[n] /\ view'[d][n] = view[d][n]
          /\ pending'[d][n] = pending[d][n]
      BY <1>n, <2>1, <2>2 DEF ClientKeySet
    <3> QED BY <1>b, <2>1, <3>1 DEF AllUpto
  <2>3. CASE n = m
    <3> DEFINE k == Key(v.new, c)
    <3>1. k \in RealKeys /\ held[n].key.version < k.version
      BY <1>8, <2>3, VersionsAssumption, KeyIsReal, AcceptedIsNewer
    <3>2. /\ Upto(view[d][n], k) /\ Upto(pending[d][n], k)
          /\ Upto(found[d][n], k) /\ Upto(k, k)
      BY <1>r, <1>b, <3>1, UptoNewer, UptoNone
    <3>3. Upto(Newest(pending[d][n], k), k)
      BY <3>2, UptoNewest
    <3>4. /\ held'[n].key = k /\ view'[d][n] \in {k, view[d][n]}
          /\ pending'[d][n] \in {Newest(pending[d][n], k), pending[d][n]}
      BY <1>n, <2>1, <2>3 DEF ClientKeySet
    <3>5. Upto(view'[d][n], k) /\ Upto(pending'[d][n], k)
      <4> HIDE DEF k
      <4> QED BY <3>2, <3>3, <3>4
    <3>6. Upto(found'[d][n], k)
      BY <2>1, <3>2
    <3> QED BY <3>4, <3>5, <3>6 DEF AllUpto
  <2> QED BY <2>2, <2>3
<1>9. ASSUME NEW m \in SessionName, NEW v \in Versions,
             SetsDocumentKey(c, m, v)
      PROVE  AllUpto(d, n, held[n].key)'
  <2>1. held' = held /\ view' = view /\ pending' = pending
    BY <1>9 DEF SetsDocumentKey
  <2>2. found'[d][n] \in {NoKey, found[d][n]}
    <3>1. n # m
      BY <1>n
    <3>2. /\ found'[c][n] = NoKey
          /\ d # c => found'[d][n] = found[d][n]
      BY <1>9, <1>n, <3>1, SetsDocumentKeyEffect
    <3> QED BY <3>2
  <2>3. Upto(found'[d][n], held[n].key)
    BY <1>b, <2>2
  <2> QED BY <1>b, <2>1, <2>3 DEF AllUpto
<1> QED BY <1>1, <1>2, <1>3, <1>4, <1>5, <1>6, <1>7, <1>8, <1>9 DEF Step

LEMMA ClientCoveredStep ==
    ASSUME VersionsAssumption, VersionsGrow, Basics, ClientBound, ClientCovered,
           NEW c \in Client, Step(c)
    PROVE  ClientCovered'
<1> SUFFICES ASSUME AllHere', NEW d \in Client, NEW n \in ClientName,
                    pc'[d] \in {"notify", "ready", "announce"}
             PROVE  Reaches(d, n)'
  BY DEF ClientCovered
<1> USE DEF Basics, Types
<1>n. n \in Name /\ n \notin SessionName
  BY NamesApart
<1>r. /\ held[n].key \in RealKeys /\ view[d][n] \in RealKeys
      /\ pending[d][n] \in RealKeys /\ found[c][n] \in RealKeys
  BY <1>n
<1>b. /\ Upto(view[d][n], held[n].key) /\ Upto(pending[d][n], held[n].key)
      /\ Upto(found[c][n], held[n].key)
  BY LeftForGood DEF ClientBound, AllUpto
<1>v. view[d][n] = held[n].key \/ pending[d][n] = held[n].key
          => Newest(view[d][n], pending[d][n]) = held[n].key
  BY <1>r, <1>b, NewestAtTop
<1>w. view[d][n] = held[n].key => Newest(view[d][n], found[c][n]) = held[n].key
  BY <1>r, <1>b, NewestAtTop
<1>p. pending[d][n] = held[n].key \/ found[c][n] = held[n].key
          => Newest(pending[d][n], found[c][n]) = held[n].key
  BY <1>r, <1>b, NewestAtTop
<1>o. pc[d] \in {"notify", "ready", "announce"} => Reaches(d, n)
  BY LeftForGood DEF ClientCovered
<1>1. CASE AddClient(c)
  BY <1>1, <1>o DEF AddClient, Goto, Reaches
<1>2. CASE GetDocumentKeys(c)
  <2>1. /\ held' = held /\ view' = view /\ pending' = pending
        /\ pc'[c] = "client" /\ pc[c] = "session"
        /\ d # c => pc'[d] = pc[d] /\ found'[d] = found[d]
    BY <1>2 DEF GetDocumentKeys, Goto
  <2> QED BY <1>o, <2>1 DEF Reaches
<1>3. CASE GetClientKeys(c)
  <2>1. /\ held' = held /\ view' = view /\ pending' = pending
        /\ pc'[c] = "notify"
        /\ d # c => pc'[d] = pc[d] /\ found'[d] = found[d]
    BY <1>3 DEF GetClientKeys, Goto
  <2>2. found'[c][n] = held[n].key
    BY <1>3, <1>n DEF GetClientKeys
  <2> QED BY <1>o, <2>1, <2>2 DEF Reaches
<1>4. CASE NotifyKeysFound(c)
  <2>1. /\ held' = held /\ view' = view /\ pc[c] = "notify"
        /\ d # c => pc'[d] = pc[d] /\ found'[d] = found[d]
    BY <1>4 DEF NotifyKeysFound, Goto
  <2>2. pending'[d][n] = IF d = c THEN Newest(pending[d][n], found[c][n])
                                  ELSE pending[d][n]
    BY <1>4, <1>n, NotifyKeysFoundEffect
  <2> QED BY <1>o, <1>p, <2>1, <2>2 DEF Reaches
<1>5. CASE SetSessionKey(c)
  <2>1. /\ held' = held /\ pc[c] = "announce" /\ pc'[c] = "ready"
        /\ d # c => pc'[d] = pc[d] /\ found'[d] = found[d]
    BY <1>5 DEF SetSessionKey, Goto
  <2>2. /\ view'[d][n] = IF d = c THEN Newest(view[d][n], found[c][n])
                                  ELSE view[d][n]
        /\ pending'[d][n] = IF d \in Others(c)
                            THEN Newest(pending[d][n], found[c][n])
                            ELSE pending[d][n]
    BY <1>5, <1>n, SetSessionKeyEffect
  <2>3. /\ view[d][n] = held[n].key => view'[d][n] = held[n].key
        /\ pending[d][n] = held[n].key => pending'[d][n] = held[n].key
    BY <1>w, <1>p, <2>2
  <2>4. \/ held[n].owner = d \/ view[d][n] = held[n].key
        \/ pending[d][n] = held[n].key
        \/ d # c /\ pc[d] = "notify" /\ found[d][n] = held[n].key
    BY <1>o, <2>1 DEF Reaches
  <2>5. /\ held'[n] = held[n]
        /\ d # c => pc'[d] = pc[d] /\ found'[d][n] = found[d][n]
    BY <2>1
  <2> QED BY <2>3, <2>4, <2>5 DEF Reaches
<1>6. CASE SendKeys(c)
  <2>1. held' = held /\ pc' = pc /\ found' = found
    BY <1>6 DEF SendKeys
  <2>2. /\ view'[d][n] = IF d = c THEN Newest(view[d][n], pending[d][n])
                                  ELSE view[d][n]
        /\ d # c => pending'[d][n] = pending[d][n]
    BY <1>6, <1>n, SendKeysEffect
  <2>3. Reaches(d, n)
    BY <1>o, <2>1
  <2>4. held'[n] = held[n] /\ pc'[d] = pc[d] /\ found'[d][n] = found[d][n]
    BY <2>1
  <2>5. view[d][n] = held[n].key \/ pending[d][n] = held[n].key
            => view'[d][n] = held[n].key \/ pending'[d][n] = held[n].key
    BY <1>v, <2>2
  <2> QED BY <2>3, <2>4, <2>5 DEF Reaches
<1>7. CASE RemoveClient(c)
  BY <1>7 DEF RemoveClient, Goto, AllHere
<1>8. ASSUME NEW m \in ClientName, NEW v \in Versions, SetsClientKey(c, m, v)
      PROVE  Reaches(d, n)'
  <2>1. ClientKeySet(c, m, Key(v.new, c)) /\ found' = found /\ pc' = pc
    BY <1>8, SetsClientKeyEffect DEF SetsClientKey
  <2>2. CASE n # m
    <3>1. /\ held'[n] = held[n] /\ view'[d][n] = view[d][n]
          /\ pending'[d][n] = pending[d][n]
      BY <1>n, <2>1, <2>2 DEF ClientKeySet
    <3> QED BY <1>o, <2>1, <3>1 DEF Reaches
  <2>3. CASE n = m
    <3> DEFINE k == Key(v.new, c)
    <3>1. k \in RealKeys /\ held[n].key.version < k.version
      BY <1>8, <2>3, VersionsAssumption, KeyIsReal, AcceptedIsNewer
    <3>2. /\ Upto(pending[d][n], k) /\ Upto(k, k)
      BY <1>r, <1>b, <3>1, UptoNewer, UptoNone
    <3>3. Newest(pending[d][n], k) = k
      BY <1>r, <3>1, <3>2, NewestAtTop
    <3>4. held'[n] = [key |-> k, owner |-> c]
      BY <1>n, <2>1, <2>3 DEF ClientKeySet
    <3>5. d # c => d \in Others(c)
      BY <2>1 DEF Membership, Others
    <3>6. d # c => pending'[d][n] = Newest(pending[d][n], k)
      BY <1>n, <2>1, <2>3, <3>5 DEF ClientKeySet
    <3> QED BY <3>3, <3>4, <3>6 DEF Reaches
  <2> QED BY <2>2, <2>3
<1>9. ASSUME NEW m \in SessionName, NEW v \in Versions,
             SetsDocumentKey(c, m, v)
      PROVE  Reaches(d, n)'
  <2>1. /\ held' = held /\ view' = view /\ pending' = pending
        /\ pc[c] = "ready"
        /\ d # c => pc'[d] = pc[d] /\ found'[d] = found[d]
    BY <1>9 DEF SetsDocumentKey, Goto
  <2> QED BY <1>o, <2>1 DEF Reaches
<1> QED BY <1>1, <1>2, <1>3, <1>4, <1>5, <1>6, <1>7, <1>8, <1>9 DEF Step

\* Whoever has joined knows the client key that the hub holds for another client
\* (client.go:643-644, hub.go:245-251), until somebody leaves.
THEOREM ClientKeysReachAll ==
    ASSUME VersionsGrow PROVE Spec => []ClientKeysReach
<1>1. Init => ClientBound /\ ClientCovered
  <2> SUFFICES ASSUME Init PROVE ClientBound /\ ClientCovered
    OBVIOUS
  <2>1. Upto(NoKey, NoKey) /\ NotHeld.key = NoKey
    BY NoKeysAreReal, UptoNone DEF NotHeld
  <2>2. ClientBound
    BY <2>1, NamesApart DEF Init, ClientBound, AllUpto, NoKeys
  <2>3. ClientCovered
    BY DEF Init, ClientCovered
  <2> QED BY <2>2, <2>3
<1>2. Basics /\ ClientBound /\ ClientCovered /\ [Next]_vars
          => ClientBound' /\ ClientCovered'
  <2> SUFFICES ASSUME Basics, ClientBound, ClientCovered, [Next]_vars
               PROVE  ClientBound' /\ ClientCovered'
    OBVIOUS
  <2>1. CASE Keeps
    BY <2>1 DEF Keeps, ClientBound, AllUpto, ClientCovered, Reaches, AllHere
  <2>2. ASSUME NEW c \in Client, Step(c)
        PROVE  ClientBound' /\ ClientCovered'
    BY <2>2, VersionsGrow, VersionsAssumption, ClientBoundStep, ClientCoveredStep
  <2> QED BY <2>1, <2>2, NextIsStep
<1>3. Basics /\ ClientBound /\ ClientCovered => ClientKeysReach
  <2> SUFFICES ASSUME Basics, ClientBound, ClientCovered, AllHere,
                      NEW c \in Joined, NEW n \in ClientName,
                      held[n].owner \notin {Nobody, c}
               PROVE  Knows(c, n) = held[n].key
    BY DEF ClientKeysReach, AllHere
  <2> USE DEF Basics, Types
  <2>1. c \in Client /\ pc[c] \in {"ready", "announce"} /\ n \in Name
    BY NamesApart DEF Joined
  <2>2. view[c][n] = held[n].key \/ pending[c][n] = held[n].key
    BY <2>1 DEF ClientCovered, Reaches
  <2>3. /\ held[n].key \in RealKeys /\ view[c][n] \in RealKeys
        /\ pending[c][n] \in RealKeys
        /\ Upto(view[c][n], held[n].key) /\ Upto(pending[c][n], held[n].key)
    BY <2>1 DEF ClientBound, AllUpto
  <2>4. Newest(view[c][n], pending[c][n]) = held[n].key
    BY <2>2, <2>3, NewestAtTop
  <2>5. pending[c][n] = NoKey => Newest(view[c][n], pending[c][n]) = view[c][n]
    BY <2>3, NewestOfNone
  <2> QED BY <2>4, <2>5 DEF Knows
<1> QED BY <1>1, <1>2, <1>3, BasicsHold, PTL DEF Spec

-----------------------------------------------------------------------------
(***************************************************************************)
(* Removed keys vanish, as long as one client has left                     *)
(***************************************************************************)
LEMMA NothingIsNotLive == ~ Live(NoKey)
BY ClientsAssumption DEF Live, NoKey, Nobody

\* A removal is not overtaken where keys are merged.
LEMMA DropsMerge ==
    ASSUME NEW known \in RealKeys, NEW waits \in RealKeys,
           NEW carried \in RealKeys, Drops(known, waits, carried)
    PROVE  /\ Drops(Newest(known, waits), NoKey, carried)
           /\ Drops(known, Newest(waits, carried), NoKey)
           /\ Drops(known, waits, NoKey)
<1>1. \A k \in {known, waits, carried} :
          /\ k.version \in Nat
          /\ Live(k) \/ k.value = Removed \/ k.version = 0
  <2>1. NoKey.version = 0
    BY DEF NoKey
  <2> QED BY <2>1, RealKeyFacts DEF Live
<1>2. /\ ~ Live(NoKey)
      /\ \A k \in {known, waits, carried} : Live(k) => k.value # Removed
  BY NothingIsNotLive, ClientsAssumption DEF Live
<1>3. Drops(known, waits, NoKey)
  BY <1>2 DEF Drops
<1>4. Drops(Newest(known, waits), NoKey, carried)
  <2>1. CASE waits.version >= known.version
    <3>1. ASSUME NEW k \in {waits, carried}, Live(k) PROVE Beats(waits, NoKey, k)
      <4>1. Beats(known, waits, k)
        BY <3>1 DEF Drops
      <4>2. Live(waits) => Beats(known, waits, waits)
        BY DEF Drops
      <4> QED BY <1>1, <1>2, <2>1, <3>1, <4>1, <4>2 DEF Beats
    <3> QED BY <1>2, <2>1, <3>1 DEF Drops, Newest
  <2>2. CASE ~ (waits.version >= known.version)
    <3>1. ASSUME NEW k \in {known, carried}, Live(k) PROVE Beats(known, NoKey, k)
      <4>1. Beats(known, waits, k)
        BY <3>1 DEF Drops
      <4>2. Live(known) => Beats(known, waits, known)
        BY DEF Drops
      <4> QED BY <1>1, <1>2, <2>2, <3>1, <4>1, <4>2 DEF Beats
    <3> QED BY <1>2, <2>2, <3>1 DEF Drops, Newest
  <2> QED BY <2>1, <2>2
<1>5. Drops(known, Newest(waits, carried), NoKey)
  <2>1. CASE carried.version >= waits.version
    <3>1. ASSUME NEW k \in {known, carried}, Live(k) PROVE Beats(known, carried, k)
      <4>1. Beats(known, waits, k)
        BY <3>1 DEF Drops
      <4>2. Live(carried) => Beats(known, waits, carried)
        BY DEF Drops
      <4> QED BY <1>1, <1>2, <2>1, <3>1, <4>1, <4>2 DEF Beats
    <3> QED BY <1>2, <2>1, <3>1 DEF Drops, Newest
  <2>2. CASE ~ (carried.version >= waits.version)
    BY <1>3, <2>2 DEF Newest
  <2> QED BY <2>1, <2>2
<1> QED BY <1>3, <1>4, <1>5

\* A removal that is newer than all that is there beats it.
LEMMA DropsRemoved ==
    ASSUME NEW known \in RealKeys, NEW waits \in RealKeys,
           NEW carried \in RealKeys, NEW removal \in RealKeys,
           removal.value = Removed,
           \A k \in {known, waits, carried} : k.version < removal.version
    PROVE  Drops(known, Newest(waits, removal), carried)
<1>1. /\ waits.version \in Nat /\ removal.version \in Nat
  BY RealKeyFacts
<1>2. Newest(waits, removal) = removal
  BY <1>1 DEF Newest
<1>3. ~ Live(removal)
  BY ClientsAssumption DEF Live
<1> QED BY <1>2, <1>3 DEF Drops, Beats

LEMMA ClientDroppedStep ==
    ASSUME VersionsAssumption, VersionsGrow, Basics, ClientBound, ClientDropped,
           NEW c \in Client, Step(c)
    PROVE  ClientDropped'
<1> SUFFICES ASSUME OneLeft', NEW d \in registered', NEW n \in ClientName,
                    held'[n] = NotHeld
             PROVE  Dropped(d, n)'
  BY DEF ClientDropped
<1> USE DEF Basics, Types
<1>n. n \in Name /\ n \notin SessionName
  BY NamesApart
<1>d. d \in Client /\ (d # c => d \in registered)
  BY DEF Step, AddClient, GetDocumentKeys, GetClientKeys, NotifyKeysFound,
         SetSessionKey, SendKeys, RemoveClient, SetsClientKey, SetsDocumentKey
<1>r. /\ view[d][n] \in RealKeys /\ pending[d][n] \in RealKeys
      /\ found[d][n] \in RealKeys /\ db[n] = NoKey /\ NotHeld.key = NoKey
  BY <1>n, <1>d DEF Separate, NotHeld
<1>o. d \in registered /\ held[n] = NotHeld
          => Drops(view[d][n], pending[d][n], found[d][n])
  BY LeftForGood DEF ClientDropped, Dropped
<1>m. d \in registered /\ held[n] = NotHeld
          => /\ Drops(Newest(view[d][n], pending[d][n]), NoKey, found[d][n])
             /\ Drops(view[d][n], Newest(pending[d][n], found[d][n]), NoKey)
             /\ Drops(view[d][n], pending[d][n], NoKey)
  BY <1>o, <1>r, DropsMerge
<1>1. CASE AddClient(c)
  <2>1. held' = held /\ view' = view /\ pending' = pending /\ found' = found
    BY <1>1 DEF AddClient
  <2>2. d = c => view[d][n] = NoKey /\ pending[d][n] = NoKey /\ found[d][n] = NoKey
    BY <1>1, <1>n DEF AddClient, Carried
  <2>3. Drops(NoKey, NoKey, NoKey)
    BY NothingIsNotLive DEF Drops
  <2>4. Drops(view[d][n], pending[d][n], found[d][n])
    BY <1>d, <1>o, <2>1, <2>2, <2>3
  <2> QED BY <2>1, <2>4 DEF Dropped
<1>2. CASE GetDocumentKeys(c)
  <2>1. /\ held' = held /\ view' = view /\ pending' = pending
        /\ registered' = registered
    BY <1>2 DEF GetDocumentKeys
  <2>2. found'[d][n] \in {NoKey, found[d][n]}
    BY <1>2, <1>d, <1>n, <1>r, GetDocumentKeysEffect
  <2>3. Drops(view[d][n], pending[d][n], found'[d][n])
    BY <1>o, <1>m, <2>1, <2>2
  <2> QED BY <2>1, <2>3 DEF Dropped
<1>3. CASE GetClientKeys(c)
  <2>1. /\ held' = held /\ view' = view /\ pending' = pending
        /\ registered' = registered
    BY <1>3 DEF GetClientKeys
  <2>2. found'[d][n] \in {NoKey, found[d][n]}
    BY <1>3, <1>d, <1>n, <1>r, <2>1 DEF GetClientKeys
  <2>3. Drops(view[d][n], pending[d][n], found'[d][n])
    BY <1>o, <1>m, <2>1, <2>2
  <2> QED BY <2>1, <2>3 DEF Dropped
<1>4. CASE NotifyKeysFound(c)
  <2>1. held' = held /\ registered' = registered
    BY <1>4 DEF NotifyKeysFound
  <2>2. /\ view'[d][n] = view[d][n]
        /\ found'[d][n] = IF d = c THEN NoKey ELSE found[d][n]
        /\ pending'[d][n] = IF d = c THEN Newest(pending[d][n], found[d][n])
                                     ELSE pending[d][n]
    BY <1>4, <1>d, <1>n, NotifyKeysFoundEffect
  <2>3. Drops(view[d][n], pending'[d][n], found'[d][n])
    BY <1>o, <1>m, <2>1, <2>2
  <2> QED BY <2>2, <2>3 DEF Dropped
<1>5. CASE SetSessionKey(c)
  <2>1. held' = held /\ registered' = registered
    BY <1>5 DEF SetSessionKey
  <2>2. found[c][n] = NoKey
    BY <1>5 DEF SetSessionKey, Carried
  <2>3. /\ Newest(view[d][n], NoKey) = view[d][n]
        /\ Newest(pending[d][n], NoKey) = pending[d][n]
    BY <1>r, NewestOfNone
  <2>4. /\ view'[d][n] = IF d = c THEN Newest(view[d][n], found[c][n])
                                  ELSE view[d][n]
        /\ found'[d][n] = IF d = c THEN NoKey ELSE found[d][n]
        /\ pending'[d][n] = IF d \in Others(c)
                            THEN Newest(pending[d][n], found[c][n])
                            ELSE pending[d][n]
    BY <1>5, <1>d, <1>n, SetSessionKeyEffect
  <2>5. /\ view'[d][n] = view[d][n] /\ pending'[d][n] = pending[d][n]
        /\ found'[d][n] \in {NoKey, found[d][n]}
    BY <2>2, <2>3, <2>4
  <2>6. Drops(view[d][n], pending[d][n], found'[d][n])
    BY <1>o, <1>m, <2>1, <2>5
  <2> QED BY <2>5, <2>6 DEF Dropped
<1>6. CASE SendKeys(c)
  <2>1. held' = held /\ registered' = registered /\ found' = found
    BY <1>6 DEF SendKeys
  <2>2. /\ view'[d][n] = IF d = c THEN Newest(view[d][n], pending[d][n])
                                  ELSE view[d][n]
        /\ pending'[d][n] = IF d = c THEN NoKey ELSE pending[d][n]
    BY <1>6, <1>d, <1>n, SendKeysEffect
  <2>3. Drops(view'[d][n], pending'[d][n], found[d][n])
    BY <1>o, <1>m, <2>1, <2>2
  <2> QED BY <2>1, <2>3 DEF Dropped
<1>7. CASE RemoveClient(c)
  <2>1. /\ view' = view /\ found' = found /\ registered' = registered \ {c}
        /\ pc[c] = "ready" /\ pc' = [pc EXCEPT ![c] = "gone"]
    BY <1>7 DEF RemoveClient, Goto
  <2>2. d \in Others(c) /\ d \in registered
    BY <2>1 DEF Others
  <2>3. pending'[d][n] = Newest(pending[d][n], Removals(c)[n])
    BY <1>7, <1>d, <1>n, <2>2, RemoveClientEffect
  <2>4. Removals(c)[n] \in RealKeys
    BY <1>n, RemovalsAreReal
  <2>5. CASE n \in Owned(c)
    <3>1. /\ Removals(c)[n].version = held[n].key.version + 1
          /\ Removals(c)[n].value = Removed
      BY <1>n, <2>5, RemovalsAreReal
    <3>2. AllHere
      <4>1. \A e \in Client : pc[e] = "gone" => e # c /\ pc'[e] = "gone"
        BY <2>1
      <4>2. pc'[c] = "gone"
        BY <2>1
      <4> QED BY <4>1, <4>2 DEF OneLeft, AllHere
    <3>3. AllUpto(d, n, held[n].key)
      BY <1>d, <3>2 DEF ClientBound
    <3>4. \A k \in {view[d][n], pending[d][n], found[d][n]} :
              k.version \in Nat /\ k.version <= held[n].key.version
      BY <1>r, <3>3, RealKeyFacts DEF AllUpto, Upto
    <3>5. held[n].key.version \in Nat
      BY <1>n, RealKeyFacts
    <3>6. \A k \in {view[d][n], pending[d][n], found[d][n]} :
              k.version < Removals(c)[n].version
      BY <3>1, <3>4, <3>5
    <3>7. Drops(view[d][n], Newest(pending[d][n], Removals(c)[n]), found[d][n])
      BY <1>r, <2>4, <3>1, <3>6, DropsRemoved
    <3> QED BY <2>1, <2>3, <3>7 DEF Dropped
  <2>6. CASE n \notin Owned(c)
    <3>1. held'[n] = held[n]
      BY <1>7, <1>n, <2>6, RemoveClientEffect
    <3>2. Removals(c)[n] = NoKey
      BY <1>n, <2>6, RemovalsAreReal
    <3>3. pending'[d][n] = pending[d][n]
      BY <1>r, <2>3, <3>2, NewestOfNone
    <3>4. Drops(view[d][n], pending[d][n], found[d][n])
      BY <1>o, <2>2, <3>1
    <3> QED BY <2>1, <3>3, <3>4 DEF Dropped
  <2> QED BY <2>5, <2>6
<1>8. ASSUME NEW m \in ClientName, NEW v \in Versions, SetsClientKey(c, m, v)
      PROVE  Dropped(d, n)'
  <2>1. /\ ClientKeySet(c, m, Key(v.new, c)) /\ found' = found
        /\ registered' = registered
    BY <1>8, SetsClientKeyEffect DEF SetsClientKey
  <2>2. NotHeld.owner # c
    BY ClientsAssumption DEF NotHeld
  <2>3. n # m
    BY <1>n, <2>1, <2>2 DEF ClientKeySet
  <2>4. /\ held'[n] = held[n] /\ view'[d][n] = view[d][n]
        /\ pending'[d][n] = pending[d][n]
    BY <1>d, <1>n, <2>1, <2>3 DEF ClientKeySet
  <2>5. Drops(view[d][n], pending[d][n], found[d][n])
    BY <1>o, <2>1, <2>4
  <2> QED BY <2>1, <2>4, <2>5 DEF Dropped
<1>9. ASSUME NEW m \in SessionName, NEW v \in Versions,
             SetsDocumentKey(c, m, v)
      PROVE  Dropped(d, n)'
  <2>1. /\ held' = held /\ view' = view /\ pending' = pending
        /\ registered' = registered
    BY <1>9 DEF SetsDocumentKey
  <2>2. found'[d][n] \in {NoKey, found[d][n]}
    BY <1>9, <1>d, <1>n, SetsDocumentKeyEffect
  <2>3. Drops(view[d][n], pending[d][n], found'[d][n])
    BY <1>o, <1>m, <2>1, <2>2
  <2> QED BY <2>1, <2>3 DEF Dropped
<1> QED BY <1>1, <1>2, <1>3, <1>4, <1>5, <1>6, <1>7, <1>8, <1>9 DEF Step

\* Whoever has joined knows that a client key is gone (hub.go:120-139), as long
\* as one client has left: the removal is newer than every key of that name that
\* waits or that a joining reader still carries, and wins over it.
THEOREM RemovedKeysVanishAll ==
    ASSUME VersionsGrow PROVE Spec => []RemovedKeysVanish
<1>1. Init => ClientBound /\ ClientDropped
  <2> SUFFICES ASSUME Init PROVE ClientBound /\ ClientDropped
    OBVIOUS
  <2>1. Upto(NoKey, NoKey) /\ NotHeld.key = NoKey
    BY NoKeysAreReal, UptoNone DEF NotHeld
  <2>2. ClientBound
    BY <2>1, NamesApart DEF Init, ClientBound, AllUpto, NoKeys
  <2>3. ClientDropped
    BY DEF Init, ClientDropped
  <2> QED BY <2>2, <2>3
<1>2. Basics /\ ClientBound /\ ClientDropped /\ [Next]_vars
          => ClientBound' /\ ClientDropped'
  <2> SUFFICES ASSUME Basics, ClientBound, ClientDropped, [Next]_vars
               PROVE  ClientBound' /\ ClientDropped'
    OBVIOUS
  <2>1. CASE Keeps
    BY <2>1 DEF Keeps, ClientBound, AllUpto, ClientDropped, Dropped, AllHere, OneLeft
  <2>2. ASSUME NEW c \in Client, Step(c)
        PROVE  ClientBound' /\ ClientDropped'
    BY <2>2, VersionsGrow, VersionsAssumption, ClientBoundStep, ClientDroppedStep
  <2> QED BY <2>1, <2>2, NextIsStep
<1>3. Basics /\ ClientDropped => RemovedKeysVanish
  <2> SUFFICES ASSUME Basics, ClientDropped, OneLeft,
                      NEW c \in Joined, NEW n \in ClientName, held[n] = NotHeld
               PROVE  Knows(c, n).value \in {"", Removed}
    BY DEF RemovedKeysVanish, OneLeft
  <2> USE DEF Basics, Types
  <2>1. c \in Client /\ c \in registered /\ n \in Name
    BY NamesApart DEF Joined
  <2>2. /\ view[c][n] \in RealKeys /\ pending[c][n] \in RealKeys
        /\ found[c][n] \in RealKeys
        /\ Drops(view[c][n], pending[c][n], found[c][n])
    BY <2>1 DEF ClientDropped, Dropped
  <2>3. Knows(c, n) = Newest(view[c][n], pending[c][n])
    BY <2>2, NewestOfNone DEF Knows
  <2>4. Drops(Newest(view[c][n], pending[c][n]), NoKey, found[c][n])
    BY <2>2, DropsMerge
  <2>5. Knows(c, n) \in RealKeys
    BY <2>2, <2>3, NewestIsReal
  <2>6. ~ Live(Knows(c, n))
    <3>1. Live(Knows(c, n)) => Beats(Knows(c, n), NoKey, Knows(c, n))
      BY <2>3, <2>4 DEF Drops
    <3>2. ~ Beats(Knows(c, n), NoKey, Knows(c, n))
      <4>1. NoKey.value # Removed
        BY DEF NoKey, Removed
      <4>2. Knows(c, n).version \in Nat
        BY <2>5, RealKeyFacts
      <4> QED BY <4>1, <4>2 DEF Beats
    <3> QED BY <3>1, <3>2
  <2> QED BY <2>5, <2>6, RealKeyFacts DEF Live
<1> QED BY <1>1, <1>2, <1>3, BasicsHold, PTL DEF Spec
=============================================================================
