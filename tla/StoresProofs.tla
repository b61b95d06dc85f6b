---------------------------- MODULE StoresProofs ----------------------------
(***************************************************************************)
(* Theorems about the stores of a server, for any documents, tokens, keys, *)
(* callers, periods and bounds.                                            *)
(*                                                                         *)
(* First MemoryDB: its maps keep their types, and it implements Documents. *)
(* What clean deletes must be stale when it deletes it; the time of the    *)
(* last access, which clean looks at, is never behind that of the last     *)
(* use.                                                                    *)
(*                                                                         *)
(* Then the three together: whichever store a server has, it keeps what    *)
(* the theorems about the store promise.                                   *)
(***************************************************************************)
EXTENDS Stores, TLAPS

Rows ==
    /\ DOMAIN docs \subseteq DocID
    /\ docs \in [DOMAIN docs -> Seq(Unit)]
    /\ lastAccess \in [DOMAIN docs -> Nat]
    /\ used \in [DocID -> Nat]
    /\ \A d \in DOMAIN docs : used[d] <= lastAccess[d]
    /\ now \in Nat /\ lastClean \in Nat

Token == [doc: DocID, user: User, permissions: Permission, expiration: Nat]

Lists == /\ keys \in [DocID -> Seq(Key)]
         /\ DOMAIN tokens \subseteq TokenID
         /\ tokens \in [DOMAIN tokens -> Token]

-----------------------------------------------------------------------------
(***************************************************************************)
(* The steps on rows: one is written, or some are taken away.              *)
(***************************************************************************)
LEMMA WithoutIsMap ==
    ASSUME NEW f, NEW D, NEW T, NEW S, f \in [D -> T]
    PROVE  /\ Without(f, S) \in [D \ S -> T]
           /\ \A x \in D \ S : Without(f, S)[x] = f[x]
BY DEF Without, Restrict

LEMMA WithIsMap ==
    ASSUME NEW f, NEW D, NEW T, NEW x, NEW y \in T, f \in [D -> T]
    PROVE  /\ Docs!With(f, x, y) \in [D \cup {x} -> T]
           /\ Docs!With(f, x, y)[x] = y
           /\ \A z \in D \ {x} : Docs!With(f, x, y)[z] = f[z]
BY DEF Docs!With

\* The rows that are there after clean.
FreshRows ==
    /\ Fresh \in [DOMAIN docs \ Expired -> Seq(Unit)]
    /\ FreshAccess \in [DOMAIN docs \ Expired -> Nat]
    /\ \A d \in DOMAIN docs \ Expired : used[d] <= FreshAccess[d]
    /\ DOMAIN Fresh = DOMAIN docs \ Expired

LEMMA CleanLeavesRows ==
    ASSUME Rows PROVE FreshRows
<1>1. /\ Fresh \in [DOMAIN docs \ Expired -> Seq(Unit)]
      /\ FreshAccess \in [DOMAIN docs \ Expired -> Nat]
      /\ \A d \in DOMAIN docs \ Expired : FreshAccess[d] = lastAccess[d]
  <2>1. docs \in [DOMAIN docs -> Seq(Unit)] /\ lastAccess \in [DOMAIN docs -> Nat]
    BY DEF Rows
  <2>2. Without(docs, Expired) \in [DOMAIN docs \ Expired -> Seq(Unit)]
    BY <2>1, WithoutIsMap
  <2>3. /\ Without(lastAccess, Expired) \in [DOMAIN docs \ Expired -> Nat]
        /\ \A d \in DOMAIN docs \ Expired :
              Without(lastAccess, Expired)[d] = lastAccess[d]
    BY <2>1 DEF Without, Restrict
  <2> QED BY <2>2, <2>3 DEF Fresh, FreshAccess
<1> QED BY <1>1 DEF Rows, FreshRows

\* Clean takes only what is stale.
LEMMA ExpiredIsStale ==
    ASSUME Rows PROVE Expired \subseteq Stale
<1> SUFFICES ASSUME NEW d \in Expired PROVE d \in Stale
  OBVIOUS
<1>1. /\ d \in DOMAIN docs /\ now - lastAccess[d] > Expiration /\ Expiration # 0
  BY DEF Expired, MustClean
<1>2. /\ lastAccess[d] \in Nat /\ used[d] \in Nat /\ used[d] <= lastAccess[d]
      /\ now \in Nat /\ Expiration \in Nat
  BY <1>1, TimeAssumption DEF Rows
<1>3. now - used[d] > Expiration
  BY <1>1, <1>2
<1> QED BY <1>1, <1>3 DEF Stale

\* The documents after clean are documents that Documents may keep.
LEMMA FreshIsKept ==
    ASSUME Rows
    PROVE  \E K \in Docs!Kept : Fresh = Docs!Restrict(docs, K)
<1>1. DOMAIN docs \ Expired \in Docs!Kept
  BY ExpiredIsStale DEF Docs!Kept, Docs!Expiring
<1>2. Fresh = Docs!Restrict(docs, DOMAIN docs \ Expired)
  BY DEF Fresh, Without, Restrict, Docs!Restrict
<1> QED BY <1>1, <1>2

LEMMA AllIsKept ==
    ASSUME Rows
    PROVE  \E K \in Docs!Kept : docs = Docs!Restrict(docs, K)
<1>1. DOMAIN docs \in Docs!Kept
  BY DEF Docs!Kept
<1>2. docs = Docs!Restrict(docs, DOMAIN docs)
  BY DEF Rows, Docs!Restrict
<1> QED BY <1>1, <1>2

\* A call writes a row: with what clean left, or with all rows.
LEMMA WriteKeepsRows ==
    ASSUME Rows, NEW from, from \in [DOMAIN from -> Seq(Unit)],
           NEW access, access \in [DOMAIN from -> Nat],
           DOMAIN from \subseteq DOMAIN docs,
           \A e \in DOMAIN from : used[e] <= access[e],
           NEW d \in DocID, NEW data \in Seq(Unit),
           docs' = Docs!With(from, d, data),
           lastAccess' = Docs!With(access, d, now),
           used' = [used EXCEPT ![d] = now],
           now' = now, lastClean' \in Nat
    PROVE  Rows'
<1>1. now \in Nat
  BY DEF Rows
<1>2. /\ docs' \in [DOMAIN from \cup {d} -> Seq(Unit)]
      /\ lastAccess' \in [DOMAIN from \cup {d} -> Nat]
      /\ lastAccess'[d] = now
      /\ \A e \in DOMAIN from \ {d} : lastAccess'[e] = access[e]
  <2>1. /\ from \in [DOMAIN from -> Seq(Unit)]
        /\ access \in [DOMAIN from -> Nat]
    OBVIOUS
  <2>2. docs' \in [DOMAIN from \cup {d} -> Seq(Unit)]
    BY <2>1, WithIsMap
  <2>3. /\ lastAccess' \in [DOMAIN from \cup {d} -> Nat]
        /\ lastAccess'[d] = now
        /\ \A e \in DOMAIN from \ {d} : lastAccess'[e] = access[e]
    BY <1>1, <2>1 DEF Docs!With
  <2> QED BY <2>2, <2>3
<1>3. /\ used' \in [DocID -> Nat] /\ used'[d] = now
      /\ \A e \in DocID \ {d} : used'[e] = used[e]
  BY <1>1 DEF Rows
<1>4. DOMAIN docs' = DOMAIN from \cup {d} /\ DOMAIN from \subseteq DocID
  BY <1>2 DEF Rows
<1>5. \A e \in DOMAIN docs' : used'[e] <= lastAccess'[e]
  BY <1>1, <1>2, <1>3, <1>4
<1> QED BY <1>1, <1>2, <1>3, <1>4, <1>5 DEF Rows

\* A call leaves what clean left.
LEMMA FreshKeepsRows ==
    ASSUME Rows, docs' = Fresh, lastAccess' = FreshAccess,
           used' = used, now' = now, lastClean' \in Nat
    PROVE  Rows'
BY CleanLeavesRows DEF FreshRows, Rows

LEMMA CleanKeepsLists ==
    ASSUME Lists, Rows, Clean
    PROVE  Lists' /\ lastClean' \in Nat
<1>1. keys' \in [DocID -> Seq(Key)]
  BY DEF Clean, Lists
<1>2. tokens' \in [DOMAIN tokens \ DroppedTokens -> Token]
  BY WithoutIsMap DEF Clean, Lists
<1>3. lastClean' \in Nat
  BY DEF Clean, Rows
<1> QED BY <1>1, <1>2, <1>3 DEF Lists

-----------------------------------------------------------------------------
(***************************************************************************)
(* Every step keeps the rows and the lists, and is a step of Documents.    *)
(***************************************************************************)
LEMMA CallIsStep ==
    ASSUME NEW from, \E K \in Docs!Kept : from = Docs!Restrict(docs, K),
           Docs!Call(from)
    PROVE  Docs!Next
BY DEF Docs!Next

LEMMA GetDocumentIsCall ==
    ASSUME Rows, Lists, NEW d \in DocID, NEW mode \in Docs!Modes,
           NEW init \in Contents, GetDocument(d, mode, init)
    PROVE  Rows' /\ Lists' /\ Docs!GetDocument(Fresh, d, mode, init)
<1>1. Lists' /\ lastClean' \in Nat /\ now' = now
  BY CleanKeepsLists DEF GetDocument
<1>2. FreshRows
  BY CleanLeavesRows
<1>3. CASE /\ d \notin DOMAIN Fresh /\ mode = "never"
           /\ docs' = Fresh /\ lastAccess' = FreshAccess
           /\ reply' = Docs!Got(d, mode, init, "missing", <<>>)
           /\ UNCHANGED used
  <2>1. Rows'
    BY <1>1, <1>3, FreshKeepsRows
  <2> QED BY <1>1, <1>3, <2>1 DEF Docs!GetDocument
<1>4. CASE /\ d \in DOMAIN Fresh /\ mode = "always"
           /\ docs' = Fresh /\ lastAccess' = FreshAccess
           /\ reply' = Docs!Got(d, mode, init, "exists", <<>>)
           /\ UNCHANGED used
  <2>1. Rows'
    BY <1>1, <1>4, FreshKeepsRows
  <2> QED BY <1>1, <1>4, <2>1 DEF Docs!GetDocument
<1>5. CASE /\ d \in DOMAIN Fresh /\ mode # "always"
           /\ docs' = Fresh
           /\ lastAccess' = Docs!With(FreshAccess, d, now)
           /\ reply' = Docs!Got(d, mode, init, "ok", docs'[d])
           /\ used' = [used EXCEPT ![d] = now]
  <2>1. Fresh[d] \in Seq(Unit) /\ Fresh = Docs!With(Fresh, d, Fresh[d])
    BY <1>2, <1>5 DEF FreshRows, Docs!With
  <2>2. Rows'
    BY <1>1, <1>2, <1>5, <2>1, WriteKeepsRows DEF FreshRows
  <2> QED BY <1>1, <1>5, <2>2 DEF Docs!GetDocument
<1>6. CASE /\ d \notin DOMAIN Fresh /\ mode # "never"
           /\ docs' = Docs!With(Fresh, d, init)
           /\ lastAccess' = Docs!With(FreshAccess, d, now)
           /\ reply' = Docs!Got(d, mode, init, "created", docs'[d])
           /\ used' = [used EXCEPT ![d] = now]
  <2>1. init \in Seq(Unit)
    BY ContentsAssumption
  <2>2. Rows'
    BY <1>1, <1>2, <1>6, <2>1, WriteKeepsRows DEF FreshRows
  <2>3. docs'[d] = init
    BY <1>6 DEF Docs!With
  <2> QED BY <1>1, <1>6, <2>2, <2>3 DEF Docs!GetDocument
<1> QED BY <1>3, <1>4, <1>5, <1>6 DEF GetDocument

LEMMA AppendDocumentIsCall ==
    ASSUME Rows, Lists, NEW d \in DocID, NEW offset \in Nat,
           NEW new \in Contents, AppendDocument(d, offset, new)
    PROVE  Rows' /\ Lists' /\ Docs!AppendDocument(Fresh, d, offset, new)
<1>1. Lists' /\ lastClean' \in Nat /\ now' = now
  BY CleanKeepsLists DEF AppendDocument
<1>2. FreshRows
  BY CleanLeavesRows
<1>3. CASE /\ d \notin DOMAIN Fresh
           /\ docs' = Fresh /\ lastAccess' = FreshAccess
           /\ reply' = Docs!Appended(d, offset, new, "missing", 0)
           /\ UNCHANGED used
  <2>1. Rows'
    BY <1>1, <1>3, FreshKeepsRows
  <2> QED BY <1>1, <1>3, <2>1 DEF Docs!AppendDocument
<1>4. CASE /\ d \in DOMAIN Fresh /\ offset # Len(Fresh[d])
           /\ docs' = Fresh /\ lastAccess' = FreshAccess
           /\ reply' = Docs!Appended(d, offset, new, "conflict", Len(Fresh[d]))
           /\ UNCHANGED used
  <2>1. Rows'
    BY <1>1, <1>4, FreshKeepsRows
  <2> QED BY <1>1, <1>4, <2>1 DEF Docs!AppendDocument, Docs!Data
<1>5. CASE /\ d \in DOMAIN Fresh /\ offset = Len(Fresh[d])
           /\ docs' = Docs!With(Fresh, d, Fresh[d] \o new)
           /\ lastAccess' = Docs!With(FreshAccess, d, now)
           /\ reply' = Docs!Appended(d, offset, new, "ok", Len(Fresh[d] \o new))
           /\ used' = [used EXCEPT ![d] = now]
  <2>1. Fresh[d] \in Seq(Unit) /\ new \in Seq(Unit)
    BY <1>2, <1>5, ContentsAssumption DEF FreshRows
  <2>2. Fresh[d] \o new \in Seq(Unit) /\ Len(Fresh[d] \o new) = offset + Len(new)
    BY <1>5, <2>1
  <2>3. Rows'
    BY <1>1, <1>2, <1>5, <2>2, WriteKeepsRows DEF FreshRows
  <2>4. reply' = Docs!Appended(d, offset, new, "ok", offset + Len(new))
    BY <1>5, <2>2
  <2> QED BY <1>1, <1>5, <2>3, <2>4 DEF Docs!AppendDocument, Docs!Data
<1> QED BY <1>3, <1>4, <1>5 DEF AppendDocument, AtEnd

LEMMA DeleteDocumentIsCall ==
    ASSUME Rows, Lists, NEW d \in DocID, DeleteDocument(d)
    PROVE  Rows' /\ Lists' /\ Docs!DeleteDocument(docs, d)
<1>1. /\ docs' \in [DOMAIN docs \ {d} -> Seq(Unit)]
      /\ lastAccess' \in [DOMAIN docs \ {d} -> Nat]
      /\ \A e \in DOMAIN docs \ {d} : lastAccess'[e] = lastAccess[e]
  <2>1. docs \in [DOMAIN docs -> Seq(Unit)] /\ lastAccess \in [DOMAIN docs -> Nat]
    BY DEF Rows
  <2>2. Without(docs, {d}) \in [DOMAIN docs \ {d} -> Seq(Unit)]
    BY <2>1, WithoutIsMap
  <2>3. /\ Without(lastAccess, {d}) \in [DOMAIN docs \ {d} -> Nat]
        /\ \A e \in DOMAIN docs \ {d} : Without(lastAccess, {d})[e] = lastAccess[e]
    BY <2>1 DEF Without, Restrict
  <2> QED BY <2>2, <2>3 DEF DeleteDocument
<1>2. Rows'
  BY <1>1 DEF Rows, DeleteDocument
<1>3. keys' \in [DocID -> Seq(Key)] /\ UNCHANGED tokens
  BY DEF DeleteDocument, Lists
<1> QED
  BY <1>2, <1>3 DEF DeleteDocument, Docs!DeleteDocument, Lists, Without, Restrict,
                    Docs!Restrict

\* What is added to the list of keys and to the tokens has its type.
LEMMA SetDocumentKeyKeepsLists ==
    ASSUME Lists, NEW d \in DocID, NEW v, NEW name \in KeyName,
           NEW w \in 1..MaxVersion, SetDocumentKey(d, v, name, w)
    PROVE  Lists'
<1>1. NewKey(name, v, w) \in Key /\ keys[d] \in Seq(Key)
  BY DEF NewKey, Key, Lists
<1>2. Append(keys[d], NewKey(name, v, w)) \in Seq(Key)
  BY <1>1
<1>3. /\ keys' = [keys EXCEPT ![d] = Append(keys[d], NewKey(name, v, w))]
      /\ UNCHANGED tokens
  BY DEF SetDocumentKey
<1> QED BY <1>2, <1>3 DEF Lists

LEMMA AddTokenIsCall ==
    ASSUME Rows, Lists, NEW t \in TokenID, NEW d \in DocID, NEW u \in User,
           NEW p \in Permission, NEW e \in Nat, NEW contents \in Contents,
           AddToken(t, d, u, p, e, contents)
    PROVE  Rows' /\ Lists' /\ Docs!AddContents(docs, d, contents)
<1>1. UNCHANGED <<keys, lastClean, now>>
  BY DEF AddToken
<1>2. CASE /\ d \in DOMAIN docs
           /\ reply' = Docs!Put(d, contents, "conflict")
           /\ UNCHANGED <<docs, lastAccess, tokens, used>>
  BY <1>1, <1>2 DEF Rows, Lists, Docs!AddContents
<1>3. CASE /\ tokens' = Docs!With(tokens, t, [doc |-> d, user |-> u,
                                  permissions |-> p, expiration |-> e])
           /\ docs' = Docs!With(docs, d, contents)
           /\ lastAccess' = Docs!With(lastAccess, d, now)
           /\ reply' = Docs!Put(d, contents, "ok")
           /\ used' = [used EXCEPT ![d] = now]
  <2>1. contents \in Seq(Unit) /\ lastClean' \in Nat
    BY <1>1, ContentsAssumption DEF Rows
  <2>2. Rows'
    BY <1>1, <1>3, <2>1, WriteKeepsRows DEF Rows
  <2>3. [doc |-> d, user |-> u, permissions |-> p, expiration |-> e] \in Token
    BY DEF Token
  <2>4. tokens' \in [DOMAIN tokens \cup {t} -> Token]
    <3>1. tokens \in [DOMAIN tokens -> Token]
      BY DEF Lists
    <3> QED BY <1>3, <2>3, <3>1 DEF Docs!With
  <2>5. Lists'
    BY <1>1, <2>4 DEF Lists
  <2> QED BY <1>3, <2>2, <2>5 DEF Docs!AddContents
<1> QED BY <1>2, <1>3 DEF AddToken

LEMMA UpdateUserKeepsLists ==
    ASSUME Lists, NEW u, NEW p \in Permission, UpdateUser(u, p)
    PROVE  Lists'
<1>1. \A t \in DOMAIN tokens : [tokens[t] EXCEPT !.permissions = p] \in Token
  BY DEF Lists, Token
<1>2. tokens' \in [DOMAIN tokens -> Token]
  BY <1>1 DEF UpdateUser, Lists
<1> QED BY <1>2 DEF UpdateUser, Lists

LEMMA RestKeepsRows ==
    ASSUME Rows, UNCHANGED <<docs, lastAccess, lastClean, used>>, now' \in Nat
    PROVE  Rows'
BY DEF Rows

Inv == Rows /\ Lists

LEMMA InvInit == Init => Inv
<1> SUFFICES ASSUME Init PROVE Inv
  OBVIOUS
<1>1. Rows
  BY TimeAssumption DEF Init, Rows, Empty
<1>2. Lists
  BY DEF Init, Lists, Empty
<1> QED BY <1>1, <1>2 DEF Inv

LEMMA Step ==
    ASSUME Inv, [Next]_vars
    PROVE  Inv' /\ [Docs!Next]_<<docs, reply>>
<1> DEFINE Goal == Inv' /\ [Docs!Next]_<<docs, reply>>
<1> USE DEF Inv
<1>1. ASSUME NEW d \in DocID, NEW mode \in Docs!Modes, NEW init \in Contents,
             GetDocument(d, mode, init)
      PROVE  Goal
  <2>1. Rows' /\ Lists' /\ Docs!GetDocument(Fresh, d, mode, init)
    BY <1>1, GetDocumentIsCall
  <2>2. Docs!Call(Fresh)
    BY <2>1 DEF Docs!Call
  <2> QED BY <2>1, <2>2, FreshIsKept, CallIsStep
<1>2. ASSUME NEW d \in DocID, NEW offset \in 0..(MaxLength + 1),
             NEW new \in Contents, AppendDocument(d, offset, new)
      PROVE  Goal
  <2>1. offset \in Nat
    BY BoundsAssumption
  <2>2. Rows' /\ Lists' /\ Docs!AppendDocument(Fresh, d, offset, new)
    BY <1>2, <2>1, AppendDocumentIsCall
  <2>3. Docs!Call(Fresh)
    BY <2>2 DEF Docs!Call
  <2> QED BY <2>2, <2>3, FreshIsKept, CallIsStep
<1>3. ASSUME NEW d \in DocID, DeleteDocument(d) PROVE Goal
  <2>1. Rows' /\ Lists' /\ Docs!DeleteDocument(docs, d)
    BY <1>3, DeleteDocumentIsCall
  <2>2. Docs!Call(docs)
    BY <2>1 DEF Docs!Call
  <2> QED BY <2>1, <2>2, AllIsKept, CallIsStep
<1>4. ASSUME NEW d \in DocID, NEW name \in KeyName, NEW v \in 0..MaxVersion,
             NEW w \in 1..MaxVersion, SetDocumentKey(d, v, name, w)
      PROVE  Goal
  <2>1. UNCHANGED <<docs, lastAccess, lastClean, used, now, reply>>
    BY <1>4 DEF SetDocumentKey
  <2>2. Lists'
    BY <1>4, SetDocumentKeyKeepsLists
  <2>3. Rows'
    BY <2>1, RestKeepsRows DEF Rows
  <2> QED BY <2>1, <2>2, <2>3
<1>5. ASSUME NEW d \in DocID, NEW t \in TokenID, NEW u \in User,
             NEW p \in Permission, NEW e \in {now, MaxTime},
             NEW contents \in Contents, AddToken(t, d, u, p, e, contents)
      PROVE  Goal
  <2>1. e \in Nat
    BY TimeAssumption DEF Rows
  <2>2. Rows' /\ Lists' /\ Docs!AddContents(docs, d, contents)
    BY <1>5, <2>1, AddTokenIsCall
  <2>3. Docs!Call(docs)
    BY <2>2 DEF Docs!Call
  <2> QED BY <2>2, <2>3, AllIsKept, CallIsStep
<1>6. ASSUME NEW u \in User, NEW p \in Permission, UpdateUser(u, p) PROVE Goal
  <2>1. UNCHANGED <<docs, lastAccess, lastClean, used, now, reply>>
    BY <1>6 DEF UpdateUser
  <2>2. Rows'
    BY <2>1, RestKeepsRows DEF Rows
  <2> QED BY <1>6, <2>1, <2>2, UpdateUserKeepsLists
<1>7. ASSUME Tick \/ UNCHANGED vars PROVE Goal
  <2>1. UNCHANGED <<docs, lastAccess, lastClean, used, keys, tokens, reply>>
    BY <1>7 DEF Tick, vars
  <2>2. now' \in Nat
    BY <1>7 DEF Tick, vars, Rows
  <2>3. Rows' /\ Lists'
    BY <2>1, <2>2, RestKeepsRows DEF Lists
  <2> QED BY <2>1, <2>3
<1> HIDE DEF Goal, Inv
<1>8. Goal
  BY <1>1, <1>2, <1>3, <1>4, <1>5, <1>6, <1>7 DEF Next
<1> QED BY <1>8 DEF Goal

\* The maps of MemoryDocumentDB keep their types (memorydb.go:10-30): every
\* document has a time of its last access, and only documents have one.
THEOREM TypeCorrect == Spec => []TypeOK
<1>1. Inv => TypeOK
  BY DEF Inv, Rows, Lists, TypeOK, Token
<1>2. Inv /\ [Next]_vars => Inv'
  BY Step
<1> QED BY <1>1, <1>2, InvInit, PTL DEF Spec

\* MemoryDocumentDB is a DocumentDB as far as documents go, but that AddToken may
\* replace one (socket.go:48-89, memorydb.go:32-134, 164-195): its calls answer from what the calls before
\* them left, and clean forgets only documents that nobody has used for the time
\* of expiration, so that GetDocument and AppendDocument may clean first.
THEOREM ImplementsDocuments == Spec => IsDocumentDB
<1>1. Init => Docs!Init
  <2> SUFFICES ASSUME Init PROVE Docs!Init
    OBVIOUS
  <2>1. docs = [d \in {} |-> <<>>]
    BY DEF Init, Empty
  <2> QED BY <2>1 DEF Init, Docs!Init
<1>2. Inv /\ [Next]_vars => Inv' /\ [Docs!Next]_<<docs, reply>>
  BY Step
<1> QED BY <1>1, <1>2, InvInit, PTL DEF Spec, IsDocumentDB, Docs!Spec

-----------------------------------------------------------------------------
(***************************************************************************)
(* A server with one of three stores runs each of them: the one it has,    *)
(* and two that nobody calls.                                              *)
(***************************************************************************)
LEMMA StoresRun == StoresSpec => Spec /\ SQL!Spec /\ Redis!Spec
<1>1. StoresInit => Init /\ SQL!Init /\ Redis!Init
  BY DEF StoresInit
<1>2. [StoresNext]_<<store, vars, sqlVars, redisVars>> =>
          [Next]_vars /\ [SQL!Next]_SQL!vars /\ [Redis!Next]_Redis!vars
  <2>1. UNCHANGED sqlVars => UNCHANGED SQL!vars
    BY DEF sqlVars, SQL!vars, SQL!tables
  <2>2. UNCHANGED redisVars => UNCHANGED Redis!vars
    BY DEF redisVars, Redis!vars, Redis!store
  <2> QED BY <2>1, <2>2 DEF StoresNext
<1> QED BY <1>1, <1>2, PTL DEF StoresSpec, Spec, SQL!Spec, Redis!Spec

\* What the theorems about SQLDB and RedisDB assume of their constants.
LEMMA StoresAssume ==
    /\ {SQLExpiration, SQLCleanInterval, SQLMaxTime} \subseteq Nat
    /\ {Expiration, CleanInterval, RedisMaxTime} \subseteq Nat
    /\ {MaxVersion, MaxLength} \subseteq Nat
    /\ Contents \subseteq Seq(SQL!Unit)
    /\ Contents \subseteq Seq(Redis!Unit)
BY TimeAssumption, StoresAssumption, BoundsAssumption, ContentsAssumption
   DEF Unit, SQL!Unit, Redis!Unit, Range, SQL!Range, Redis!Range

\* On a server with a SQL database its tables and callers keep their types
\* (sqlxdb.go:11-15, sqlitedb.go:8-33); a token's permissions may be the name of
\* a user, where UpdateUser put it (sqlxdb.go:283).
THEOREM SQLTypeCorrect == StoresSpec => []SQLTypeOK
<1>1. SQL!Spec => []SQL!TypeOK
  BY SQL!TypeCorrect, StoresAssume
<1> QED BY <1>1, StoresRun, PTL DEF SQLTypeOK

\* On a server with a SQL database no key outlives its document, so that one
\* that is created again finds none (sqlitedb.go:17-24, sqlxdb.go:69, 182-225).
THEOREM KeysHaveDocumentsAlways == StoresSpec => []KeysHaveDocuments
<1>1. SQL!Spec => []SQL!KeysHaveDocuments
  BY SQL!KeysHaveDocumentsAlways, StoresAssume
<1> QED BY <1>1, StoresRun, PTL DEF KeysHaveDocuments

\* On a server with a SQL database a token that has not expired stays valid,
\* whoever cleans (sqlxdb.go:57-73, 258-276).
THEOREM SQLTokensLastAlways == StoresSpec => SQLTokensLast
<1>1. SQL!Spec => SQL!TokensLast
  BY SQL!TokensLastAlways, StoresAssume
<1> QED BY <1>1, StoresRun, PTL DEF SQLTokensLast

\* A server with a SQL database that commits has a DocumentDB (socket.go:48-89,
\* sqlxdb.go:57-150).
THEOREM SQLImplementsDocuments == StoresSpec => SQLIsDocumentDB
<1>1. SQL!Spec => SQL!IsDocumentDB
  BY SQL!ImplementsDocuments, StoresAssume
<1> QED BY <1>1, StoresRun, PTL DEF SQLIsDocumentDB

\* On a server with Redis keys, callers and the maintenance goroutines of all its
\* servers keep their types (redisdb.go:13-27).
THEOREM RedisTypeCorrect == StoresSpec => []RedisTypeOK
<1>1. Redis!Spec => []Redis!TypeOK
  BY Redis!TypeCorrect, StoresAssume
<1> QED BY <1>1, StoresRun, PTL DEF RedisTypeOK

\* On a server with Redis UpdateUser finds every valid token, but for those that
\* were added while some server's runMaintenance was at work (redisdb.go:373-479).
THEOREM IndexCompleteAlways == StoresSpec => []IndexComplete
<1>1. Redis!Spec => []Redis!IndexComplete
  BY Redis!IndexCompleteAlways, StoresAssume
<1> QED BY <1>1, StoresRun, PTL DEF IndexComplete

\* On a server with Redis a key is written over the version that the caller
\* named, whoever else writes it (redisdb.go:203-253, 264-275).
THEOREM KeysAreComparedAlways == StoresSpec => KeysAreCompared
<1>1. Redis!Spec => Redis!KeysAreCompared
  BY Redis!KeysAreComparedAlways, StoresAssume
<1> QED BY <1>1, StoresRun, PTL DEF KeysAreCompared

\* On a server with Redis the calls on documents take place one at a time, by
\* WATCH and retry (redisdb.go:89-180, 264-275), and keep the promises of
\* DocumentDB (socket.go:48-89) but for three: an append may make a document,
\* contents may replace one, and only writes keep a document from expiring.
THEOREM RedisImplementsDocuments == StoresSpec => RedisIsDocumentDB
<1>1. Redis!Spec => Redis!IsDocumentDB
  BY Redis!ImplementsDocuments, StoresAssume
<1> QED BY <1>1, StoresRun, PTL DEF RedisIsDocumentDB
=============================================================================
