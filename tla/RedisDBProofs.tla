--------------------------- MODULE RedisDBProofs ----------------------------
(***************************************************************************)
(* Theorems about RedisDB, for any documents, keys, tokens, users, callers *)
(* and bounds: its keys and callers keep their types, a key is written     *)
(* over the version that the caller named, the index of tokens is          *)
(* complete, and it implements Documents.                                  *)
(*                                                                         *)
(* Most of it rests on what WATCH is for: as long as what a caller watches *)
(* was not written, what it has read is still so (Held).                   *)
(***************************************************************************)
EXTENDS RedisDB, TLAPS

Stage == {"idle", "read", "write", "each", "set"}
Token == [user: User \cup {Ghost}, permissions: Permission]

\* How far a server's runMaintenance is, and what it knows.
Round == [at: {"rest", "listed", "checked"},
          listed: [User -> SUBSET TokenID], have: SUBSET TokenID]

\* f is a partial function from S to T.
Table(f, S, T) == DOMAIN f \subseteq S /\ f \in [DOMAIN f -> T]

(***************************************************************************)
(* The invariants                                                          *)
(***************************************************************************)
Rows ==
    /\ Table(docs, DocID, Seq(Unit))
    /\ keys = [d \in DocID |-> keys[d]]
    /\ \A d \in DocID : Table(keys[d], KeyName, 1..MaxVersion)
    /\ Table(tokens, TokenID, Token)
    /\ docDue \in [DocID -> Nat] /\ keysDue \in [DocID -> Nat]
    /\ tokenDue \in [TokenID -> Nat]
    /\ index \in [User -> SUBSET TokenID]
    /\ now \in Nat
    /\ written \in [DocID -> Nat]
    /\ opened \subseteq DocID
    /\ maintenance \in [Server -> Round]

Kinds == {"get", "append", "setkey", "addtoken", "updateuser", "delete"}
Watching == {"get", "append", "setkey", "addtoken"}

\* r is a request, with the parameters of its kind.
RequestOK(r) ==
    /\ r.call \in Kinds
    /\ r.call \in {"get", "append", "setkey", "addtoken", "delete"} => r.doc \in DocID
    /\ r.call \in {"get", "append", "addtoken"} => r.data \in Contents
    /\ r.call = "get" => r.mode \in Docs!Modes
    /\ r.call = "append" => r.offset \in 0..MaxLength
    /\ r.call = "setkey" => /\ r.name \in KeyName
                            /\ r.version \in 1..MaxVersion
    /\ r.call = "addtoken" => r.token \in TokenID /\ r.due \in Nat
    /\ r.call \in {"addtoken", "updateuser"} => /\ r.user \in User
                                                /\ r.permissions \in Permission

\* A caller may be at a stage with request r and the tokens s left.
CallOK(at, r, s) ==
    /\ at \in {"read", "write"} => RequestOK(r)
    /\ at = "write" => r.call \in Watching
    /\ at \in {"each", "set"} => r.permissions \in Permission
    /\ at = "set" => r.token \in s

Callers ==
    /\ pc \in [Caller -> Stage]
    /\ dirty \in [Caller -> {"no", "yes"}]
    /\ todo \in [Caller -> SUBSET TokenID]
    /\ call = [c \in Caller |-> call[c]]
    /\ \A c \in Caller : /\ CallOK(pc[c], call[c], todo[c])
                         /\ pc[c] # "write" => dirty[c] = "no"

\* What c has read is so.
StillSo(c) ==
    LET r == call[c] IN
    /\ r.call = "get" => r.doc \notin DOMAIN docs /\ r.mode # "never"
    /\ r.call = "append" => Length(r.doc) = r.offset
    /\ r.call = "setkey" => Version(r.doc, r.name) = r.old

Held == \A c \in Caller : pc[c] = "write" /\ dirty[c] = "no" => StillSo(c)

\* No document is due before the expiration time has passed since it was written.
Dues ==
    \A d \in DocID : docDue[d] # 0 =>
        /\ Expiration # 0
        /\ d \in DOMAIN docs => written[d] + Expiration <= docDue[d]

\* t belongs to a user and was not added while maintenance was under way.
Listable(t) == t \in DOMAIN tokens /\ tokens[t].user # Ghost /\ t \notin late

\* A round of maintenance knows of the tokens that are valid.
Knows(m) ==
    /\ m.at # "rest" => \A t \in DOMAIN tokens :
           Listable(t) => t \in m.listed[tokens[t].user]
    /\ m.at = "checked" => \A t \in DOMAIN tokens :
           Listable(t) => t \in m.have

Listed ==
    /\ \A t \in DOMAIN tokens : Listable(t) => t \in index[tokens[t].user]
    /\ \A s \in Server : Knows(maintenance[s])

Inv == Rows /\ Callers /\ Held /\ Dues /\ Listed

-----------------------------------------------------------------------------
(***************************************************************************)
(* Partial functions                                                       *)
(***************************************************************************)
LEMMA EmptyIsTable ==
    ASSUME NEW S, NEW T
    PROVE  Table(Empty, S, T) /\ DOMAIN Empty = {}
BY DEF Table, Empty

LEMMA WithIsTable ==
    ASSUME NEW f, NEW S, NEW T, Table(f, S, T), NEW x \in S, NEW y \in T
    PROVE  Table(Docs!With(f, x, y), S, T)
BY DEF Table, Docs!With

LEMMA WithoutIsTable ==
    ASSUME NEW f, NEW S, NEW T, Table(f, S, T), NEW gone
    PROVE  Table(Without(f, gone), S, T)
BY DEF Table, Without, Restrict

LEMMA WithoutValue ==
    ASSUME NEW f, NEW gone
    PROVE  /\ DOMAIN Without(f, gone) = DOMAIN f \ gone
           /\ \A z \in DOMAIN f \ gone : Without(f, gone)[z] = f[z]
BY DEF Without, Restrict

LEMMA ContentsAreData == \A new \in Contents : new \in Seq(Unit)
BY ContentsAssumption

LEMMA InvInit == Init => Inv
<1> SUFFICES ASSUME Init PROVE Inv
  OBVIOUS
<1>1. Rows
  <2>1. /\ Table(docs, DocID, Seq(Unit))
        /\ Table(tokens, TokenID, Token)
        /\ \A d \in DocID : Table(keys[d], KeyName, 1..MaxVersion)
    BY EmptyIsTable DEF Init
  <2>2. maintenance \in [Server -> Round]
    BY DEF Init, AtRest, Round
  <2> QED BY <2>1, <2>2 DEF Init, Rows
<1>2. Callers
  BY DEF Init, Callers, CallOK, Stage
<1>3. Held /\ Dues
  BY DEF Init, Held, Dues
<1>4. Listed
  <2>1. DOMAIN tokens = {}
    BY EmptyIsTable DEF Init
  <2> QED BY <2>1 DEF Listed, Knows
<1> QED BY <1>1, <1>2, <1>3, <1>4 DEF Inv

-----------------------------------------------------------------------------
(***************************************************************************)
(* Types                                                                   *)
(***************************************************************************)
LEMMA DueType == Rows => Due \in Nat
BY TimeAssumption DEF Due, Rows

LEMMA RequestTypes ==
    ASSUME Rows, NEW r \in Requests
    PROVE  RequestOK(r)
<1>1. CASE r \in [call: {"get"}, doc: DocID, mode: Docs!Modes, data: Contents]
  BY <1>1 DEF RequestOK, Kinds
<1>2. CASE r \in [call: {"append"}, doc: opened, offset: 0..MaxLength, data: Contents]
  BY <1>2 DEF RequestOK, Kinds, Rows
<1>3. CASE r \in [call: {"setkey"}, doc: opened, name: KeyName,
                  old: 0..MaxVersion, version: 1..MaxVersion]
  BY <1>3 DEF RequestOK, Kinds, Rows
<1>4. CASE r \in [call: {"addtoken"}, token: TokenID, doc: DocID, user: User,
                  permissions: Permission, due: (now + 1)..MaxTime,
                  data: Contents]
  <2>1. now \in Nat /\ MaxTime \in Nat
    BY TimeAssumption DEF Rows
  <2>2. r.due \in Nat
    BY <1>4, <2>1
  <2> QED BY <1>4, <2>2 DEF RequestOK, Kinds
<1>5. CASE r \in [call: {"updateuser"}, user: User, permissions: Permission]
  BY <1>5 DEF RequestOK, Kinds
<1>6. CASE r \in [call: {"delete"}, doc: DocID]
  BY <1>6 DEF RequestOK, Kinds
<1> QED BY <1>1, <1>2, <1>3, <1>4, <1>5, <1>6 DEF Requests

\* A caller that is about to read or to write has a request.
LEMMA RequestOf ==
    ASSUME Callers, NEW c \in Caller, pc[c] \in {"read", "write"}
    PROVE  RequestOK(call[c])
BY DEF Callers, CallOK

\* What the server stores, and time.
rows == <<docs, docDue, keys, keysDue, tokens, tokenDue, index, now,
          maintenance, written>>

LEMMA SameRows ==
    ASSUME Rows, UNCHANGED rows, opened' \subseteq DocID
    PROVE  Rows'
BY DEF Rows, rows

\* A caller reads, or starts or ends a call.
Reading(c) ==
    \/ Begin(c) \/ Retry(c) \/ Fails(c)
    \/ GetDocumentReads(c) \/ AppendDocumentReads(c) \/ SetDocumentKeyReads(c) \/ AddTokenReads(c) \/ UpdateUserLists(c)
    \/ UpdateUserChecks(c) \/ UpdateUserEnds(c)

LEMMA ReadingKeepsRows ==
    ASSUME NEW c \in Caller, Reading(c)
    PROVE  UNCHANGED <<rows, late>>
<1>1. CASE Begin(c) \/ Retry(c) \/ Fails(c)
  BY <1>1 DEF Begin, Retry, Fails, rows, store
<1>2. CASE GetDocumentReads(c) \/ AppendDocumentReads(c)
  BY <1>2 DEF GetDocumentReads, AppendDocumentReads, rows, store
<1>3. CASE SetDocumentKeyReads(c) \/ AddTokenReads(c)
  BY <1>3 DEF SetDocumentKeyReads, AddTokenReads, rows, store
<1>4. CASE UpdateUserLists(c) \/ UpdateUserChecks(c) \/ UpdateUserEnds(c)
  BY <1>4 DEF UpdateUserLists, UpdateUserChecks, UpdateUserEnds, rows, store
<1> QED BY <1>1, <1>2, <1>3, <1>4 DEF Reading

\* runMaintenance works on the index.
LEMMA MaintenanceKeeps ==
    ASSUME NEW s \in Server, Maintenance(s)
    PROVE  UNCHANGED <<docs, docDue, keys, keysDue, tokens, tokenDue, now, pc,
                       call, dirty, todo, reply, written, late, opened>>
<1>1. CASE MaintenanceLists(s) \/ MaintenanceChecks(s) \/ MaintenanceFails(s)
  BY <1>1 DEF MaintenanceLists, MaintenanceChecks, MaintenanceFails, store
<1>2. CASE MaintenanceRemoves(s)
  BY <1>2 DEF MaintenanceRemoves
<1> QED BY <1>1, <1>2 DEF Maintenance

LEMMA OpenedStep ==
    ASSUME Rows, Callers, [Next]_vars
    PROVE  opened' \subseteq DocID
<1>1. CASE UNCHANGED opened
  BY <1>1 DEF Rows
<1>2. ASSUME NEW c \in Caller, pc[c] \in {"read", "write"}, call[c].call = "get",
             opened' = opened \cup {call[c].doc}
      PROVE  opened' \subseteq DocID
  <2>1. call[c].doc \in DocID
    BY <1>2, RequestOf DEF RequestOK
  <2> QED BY <1>2, <2>1 DEF Rows
<1>3. ASSUME NEW c \in Caller, GetDocumentReads(c)
      PROVE  opened' \subseteq DocID
  BY <1>1, <1>2, <1>3 DEF GetDocumentReads, Reads
<1>4. ASSUME NEW c \in Caller, GetDocumentCreates(c)
      PROVE  opened' \subseteq DocID
  <2>1. opened' \in {opened, opened \cup {call[c].doc}}
    BY <1>4 DEF GetDocumentCreates
  <2>2. pc[c] = "write" /\ call[c].call = "get"
    BY <1>4 DEF GetDocumentCreates, Commits
  <2> QED BY <1>1, <1>2, <2>1, <2>2
<1>5. ASSUME NEW c \in Caller, Begin(c) \/ Retry(c) \/ Fails(c)
                               \/ AppendDocumentReads(c)
                               \/ AppendDocumentWrites(c) \/ DeleteDocument(c)
      PROVE  UNCHANGED opened
  BY <1>5 DEF Begin, Retry, Fails, AppendDocumentReads, AppendDocumentWrites,
              DeleteDocument
<1>6. ASSUME NEW c \in Caller, SetDocumentKeyReads(c) \/ SetDocumentKeyWrites(c)
                               \/ AddTokenReads(c) \/ AddTokenWrites(c)
      PROVE  UNCHANGED opened
  BY <1>6 DEF SetDocumentKeyReads, SetDocumentKeyWrites, AddTokenReads,
              AddTokenWrites
<1>7. ASSUME NEW c \in Caller, UpdateUserLists(c) \/ UpdateUserChecks(c)
                               \/ UpdateUserSets(c) \/ UpdateUserEnds(c)
      PROVE  UNCHANGED opened
  BY <1>7 DEF UpdateUserLists, UpdateUserChecks, UpdateUserSets, UpdateUserEnds
<1>8. ASSUME \/ \E s \in Server : Maintenance(s)
             \/ Tick \/ Idle \/ UNCHANGED vars
      PROVE  opened' \subseteq DocID
  <2>1. UNCHANGED opened
    BY <1>8, MaintenanceKeeps DEF Tick, Idle, vars
  <2> QED BY <2>1, <1>1
<1>9. ASSUME NEW c \in Caller, Step(c) PROVE opened' \subseteq DocID
  BY <1>1, <1>3, <1>4, <1>5, <1>6, <1>7, <1>9 DEF Step
<1> QED BY <1>8, <1>9 DEF Next

LEMMA RowsStep ==
    ASSUME Rows, Callers, [Next]_vars
    PROVE  Rows'
<1>o. opened' \subseteq DocID
  BY OpenedStep
<1>d. /\ Due \in Nat /\ now \in Nat /\ 0 \in Nat
      /\ docDue \in [DocID -> Nat] /\ keysDue \in [DocID -> Nat]
      /\ written \in [DocID -> Nat]
  BY DueType DEF Rows
<1>1. ASSUME NEW c \in Caller, Reading(c) PROVE Rows'
  BY <1>1, <1>o, ReadingKeepsRows, SameRows
<1>2. ASSUME NEW d \in DocID, NEW data \in Seq(Unit), NEW due \in [DocID -> Nat],
             docs' = Docs!With(docs, d, data),
             docDue' \in {docDue, [docDue EXCEPT ![d] = Due]}, keysDue' = due,
             written' = [written EXCEPT ![d] = now],
             UNCHANGED <<keys, tokens, tokenDue, index, now, maintenance>>
      PROVE  Rows'
  <2>1. Table(docs', DocID, Seq(Unit))
    BY <1>2, WithIsTable DEF Rows
  <2>2. docDue' \in [DocID -> Nat] /\ written' \in [DocID -> Nat]
    BY <1>2, <1>d
  <2> QED BY <1>2, <1>o, <2>1, <2>2 DEF Rows
<1>3. ASSUME NEW c \in Caller, GetDocumentCreates(c) PROVE Rows'
  <2>1. call[c].doc \in DocID /\ call[c].data \in Contents
    BY <1>3, RequestOf DEF GetDocumentCreates, Commits, RequestOK
  <2> QED BY <1>2, <1>3, <1>d, <2>1, ContentsAreData DEF GetDocumentCreates
<1>4. ASSUME NEW c \in Caller, AppendDocumentWrites(c) PROVE Rows'
  <2> DEFINE d == call[c].doc
             old == IF d \in DOMAIN docs THEN docs[d] ELSE <<>>
             data == old \o call[c].data
  <2>1. d \in DocID /\ call[c].data \in Contents
    BY <1>4, RequestOf DEF AppendDocumentWrites, Commits, RequestOK
  <2>2. old \in Seq(Unit)
    BY DEF Rows, Table
  <2>3. data \in Seq(Unit)
    BY <2>1, <2>2, ContentsAreData
  <2>4. keysDue' \in [DocID -> Nat]
    BY <1>4, <1>d DEF AppendDocumentWrites
  <2>5. /\ docs' = Docs!With(docs, d, data)
        /\ docDue' \in {docDue, [docDue EXCEPT ![d] = Due]}
        /\ written' = [written EXCEPT ![d] = now]
        /\ UNCHANGED <<keys, tokens, tokenDue, index, now, maintenance>>
    BY <1>4 DEF AppendDocumentWrites
  <2> HIDE DEF d, data
  <2> QED BY <1>2, <2>1, <2>3, <2>4, <2>5
<1>5. ASSUME NEW c \in Caller, DeleteDocument(c) PROVE Rows'
  <2>1. Table(docs', DocID, Seq(Unit))
    BY <1>5, WithoutIsTable DEF DeleteDocument, Rows
  <2>2. docDue' \in [DocID -> Nat] /\ keysDue' \in [DocID -> Nat]
    BY <1>5, <1>d DEF DeleteDocument
  <2>3. /\ keys' = [d \in DocID |-> keys'[d]]
        /\ \A d \in DocID : keys'[d] \in {Empty, keys[d]}
    BY <1>5 DEF DeleteDocument, Rows
  <2>4. \A d \in DocID : Table(keys'[d], KeyName, 1..MaxVersion)
    <3>1. Table(Empty, KeyName, 1..MaxVersion)
      BY EmptyIsTable
    <3>2. \A d \in DocID : Table(keys[d], KeyName, 1..MaxVersion)
      BY DEF Rows
    <3> QED BY <2>3, <3>1, <3>2
  <2>5. UNCHANGED <<tokens, tokenDue, index, now, maintenance, written>>
    BY <1>5 DEF DeleteDocument
  <2> QED BY <1>o, <2>1, <2>2, <2>3, <2>4, <2>5 DEF Rows
<1>6. ASSUME NEW c \in Caller, SetDocumentKeyWrites(c) PROVE Rows'
  <2> DEFINE r == call[c]
             new == Docs!With(keys[r.doc], r.name, r.version)
  <2>1. r.doc \in DocID /\ r.name \in KeyName /\ r.version \in 1..MaxVersion
    BY <1>6, RequestOf DEF SetDocumentKeyWrites, Commits, RequestOK
  <2>2. Table(new, KeyName, 1..MaxVersion)
    BY <2>1, WithIsTable DEF Rows
  <2>3. keys' = [keys EXCEPT ![r.doc] = new]
    BY <1>6 DEF SetDocumentKeyWrites, NewVersion
  <2>4. keysDue' \in [DocID -> Nat]
    BY <1>6, <1>d DEF SetDocumentKeyWrites
  <2>5. UNCHANGED <<docs, docDue, tokens, tokenDue, index, now, maintenance, written>>
    BY <1>6 DEF SetDocumentKeyWrites
  <2> HIDE DEF r, new
  <2>6. /\ keys' = [d \in DocID |-> keys'[d]]
        /\ \A d \in DocID : keys'[d] \in {new, keys[d]}
    BY <2>3 DEF Rows
  <2>7. \A d \in DocID : Table(keys'[d], KeyName, 1..MaxVersion)
    BY <2>2, <2>6 DEF Rows
  <2> QED BY <1>o, <2>4, <2>5, <2>6, <2>7 DEF Rows
<1>7. ASSUME NEW c \in Caller, AddTokenWrites(c) PROVE Rows'
  <2> DEFINE r == call[c]
             token == [user |-> r.user, permissions |-> r.permissions]
  <2>1. /\ r.doc \in DocID /\ r.data \in Contents /\ r.token \in TokenID
        /\ r.due \in Nat /\ r.user \in User /\ token \in Token
    BY <1>7, RequestOf DEF AddTokenWrites, Commits, RequestOK, Token
  <2>2. tokens' \in {Docs!With(tokens, r.token, token), Without(tokens, {r.token})}
    BY <1>7 DEF AddTokenWrites
  <2>3. tokenDue' \in [TokenID -> Nat]
    BY <1>7, <2>1 DEF AddTokenWrites, Rows
  <2>4. index' \in [User -> SUBSET TokenID]
    BY <1>7, <2>1 DEF AddTokenWrites, Rows, Indexed
  <2>5. /\ UNCHANGED <<keys, keysDue, now, maintenance>>
        /\ \/ UNCHANGED <<docs, docDue, written>>
           \/ /\ docs' = Docs!With(docs, r.doc, r.data)
              /\ docDue' = [docDue EXCEPT ![r.doc] = Due]
              /\ written' = [written EXCEPT ![r.doc] = now]
    BY <1>7 DEF AddTokenWrites
  <2> HIDE DEF r, token
  <2>6. Table(tokens', TokenID, Token)
    <3>1. /\ Table(Docs!With(tokens, r.token, token), TokenID, Token)
          /\ Table(Without(tokens, {r.token}), TokenID, Token)
      BY <2>1, WithIsTable, WithoutIsTable DEF Rows
    <3> QED BY <2>2, <3>1
  <2>7. Table(docs', DocID, Seq(Unit))
    <3>1. Table(Docs!With(docs, r.doc, r.data), DocID, Seq(Unit))
      BY <2>1, ContentsAreData, WithIsTable DEF Rows
    <3> QED BY <2>5, <3>1 DEF Rows
  <2>8. docDue' \in [DocID -> Nat] /\ written' \in [DocID -> Nat]
    BY <1>d, <2>1, <2>5
  <2> QED BY <1>o, <2>3, <2>4, <2>5, <2>6, <2>7, <2>8 DEF Rows
<1>8. ASSUME NEW c \in Caller, UpdateUserSets(c) PROVE Rows'
  <2> DEFINE t == call[c].token
             p == call[c].permissions
             ghost == [user |-> Ghost, permissions |-> p]
  <2>1. t \in TokenID /\ p \in Permission
    BY <1>8 DEF UpdateUserSets, Callers, CallOK
  <2>2. ghost \in Token
    BY <2>1 DEF Token
  <2>3. t \in DOMAIN tokens => [tokens[t] EXCEPT !.permissions = p] \in Token
    BY <2>1 DEF Rows, Table, Token
  <2>4. \/ UNCHANGED tokens
        \/ t \in DOMAIN tokens
           /\ tokens' = [tokens EXCEPT ![t] = [tokens[t] EXCEPT !.permissions = p]]
        \/ tokens' = Docs!With(tokens, t, ghost)
    BY <1>8 DEF UpdateUserSets
  <2>5. UNCHANGED <<docs, docDue, keys, keysDue, tokenDue, index, now,
                    maintenance, written>>
    BY <1>8 DEF UpdateUserSets
  <2> HIDE DEF t, p, ghost
  <2>6. Table(tokens', TokenID, Token)
    <3>1. CASE tokens' = Docs!With(tokens, t, ghost)
      BY <2>1, <2>2, <3>1, WithIsTable DEF Rows
    <3>2. CASE t \in DOMAIN tokens
               /\ tokens' = [tokens EXCEPT ![t] = [tokens[t] EXCEPT !.permissions = p]]
      BY <2>3, <3>2 DEF Rows, Table
    <3>3. CASE UNCHANGED tokens
      BY <3>3 DEF Rows
    <3> QED BY <2>4, <3>1, <3>2, <3>3
  <2> QED BY <1>o, <2>5, <2>6 DEF Rows
<1>9. ASSUME NEW s \in Server, Maintenance(s) PROVE Rows'
  <2>1. UNCHANGED <<docs, docDue, keys, keysDue, tokens, tokenDue, now, written>>
    BY <1>9, MaintenanceKeeps
  <2>2. \E m \in Round : maintenance' = [maintenance EXCEPT ![s] = m]
    <3>1. CASE MaintenanceLists(s)
      <4>1. [at |-> "listed", listed |-> index, have |-> {}] \in Round
        BY DEF Round, Rows
      <4> QED BY <3>1, <4>1 DEF MaintenanceLists
    <3>2. CASE MaintenanceChecks(s)
      <4> DEFINE m == [maintenance[s] EXCEPT !.at = "checked",
                                             !.have = DOMAIN tokens]
      <4>1. maintenance' = [maintenance EXCEPT ![s] = m]
        BY <3>2 DEF MaintenanceChecks
      <4>2. m \in Round
        <5>1. maintenance[s] \in Round /\ DOMAIN tokens \subseteq TokenID
          BY DEF Rows, Table
        <5> QED BY <5>1 DEF Round
      <4> HIDE DEF m
      <4> QED BY <4>1, <4>2
    <3>3. CASE MaintenanceRemoves(s) \/ MaintenanceFails(s)
      <4>1. AtRest \in Round
        BY DEF AtRest, Round
      <4> QED BY <3>3, <4>1 DEF MaintenanceRemoves, MaintenanceFails
    <3> QED BY <1>9, <3>1, <3>2, <3>3 DEF Maintenance
  <2>3. maintenance' \in [Server -> Round]
    BY <2>2 DEF Rows
  <2>4. index' \in [User -> SUBSET TokenID]
    <3>1. CASE MaintenanceLists(s) \/ MaintenanceChecks(s) \/ MaintenanceFails(s)
      BY <3>1 DEF MaintenanceLists, MaintenanceChecks, MaintenanceFails, store,
                  Rows
    <3>2. CASE MaintenanceRemoves(s)
      BY <3>2 DEF MaintenanceRemoves, Rows
    <3> QED BY <1>9, <3>1, <3>2 DEF Maintenance
  <2> QED BY <1>o, <2>1, <2>3, <2>4 DEF Rows
<1>10. CASE Tick
  <2>1. Table(docs', DocID, Seq(Unit)) /\ Table(tokens', TokenID, Token)
    BY <1>10, WithoutIsTable DEF Tick, Rows
  <2>2. /\ docDue' \in [DocID -> Nat] /\ keysDue' \in [DocID -> Nat]
        /\ tokenDue' \in [TokenID -> Nat]
    BY <1>10 DEF Tick, Rows
  <2>3. /\ keys' = [d \in DocID |-> keys'[d]]
        /\ \A d \in DocID : keys'[d] \in {Empty, keys[d]}
    BY <1>10 DEF Tick, Rows
  <2>4. \A d \in DocID : Table(keys'[d], KeyName, 1..MaxVersion)
    <3>1. Table(Empty, KeyName, 1..MaxVersion)
      BY EmptyIsTable
    <3>2. \A d \in DocID : Table(keys[d], KeyName, 1..MaxVersion)
      BY DEF Rows
    <3> QED BY <2>3, <3>1, <3>2
  <2>5. now' \in Nat /\ UNCHANGED <<index, maintenance, written>>
    BY <1>10, <1>d DEF Tick
  <2> QED BY <1>o, <2>1, <2>2, <2>3, <2>4, <2>5 DEF Rows
<1>11. CASE Idle \/ UNCHANGED vars
  BY <1>11, <1>o, SameRows DEF Idle, vars, store, rows
<1>12. ASSUME NEW c \in Caller, Step(c) PROVE Rows'
  BY <1>1, <1>3, <1>4, <1>5, <1>6, <1>7, <1>8, <1>12 DEF Step, Reading
<1> QED BY <1>9, <1>10, <1>11, <1>12 DEF Next

-----------------------------------------------------------------------------
(***************************************************************************)
(* Callers                                                                 *)
(***************************************************************************)
LEMMA CallerMoves ==
    ASSUME Callers, NEW c \in Caller, NEW at \in Stage, NEW r,
           NEW s \in SUBSET TokenID, CallOK(at, r, s),
           pc' = [pc EXCEPT ![c] = at], call' = [call EXCEPT ![c] = r],
           todo' = [todo EXCEPT ![c] = s],
           dirty' \in [Caller -> {"no", "yes"}],
           \A x \in Caller : pc'[x] # "write" => dirty'[x] = "no"
    PROVE  Callers'
<1>1. pc' \in [Caller -> Stage] /\ todo' \in [Caller -> SUBSET TokenID]
  BY DEF Callers
<1>2. call' = [x \in Caller |-> call'[x]]
  BY DEF Callers
<1>3. ASSUME NEW x \in Caller PROVE CallOK(pc'[x], call'[x], todo'[x])
  <2>1. CASE x = c
    <3>1. pc'[x] = at /\ call'[x] = r /\ todo'[x] = s
      BY <2>1 DEF Callers
    <3> QED BY <3>1
  <2>2. CASE x # c
    <3>1. pc'[x] = pc[x] /\ call'[x] = call[x] /\ todo'[x] = todo[x]
      BY <2>2 DEF Callers
    <3> QED BY <3>1 DEF Callers
  <2> QED BY <2>1, <2>2
<1> QED BY <1>1, <1>2, <1>3 DEF Callers

\* The caller reads.
LEMMA ReaderMoves ==
    ASSUME Callers, NEW c \in Caller, NEW at \in Stage, NEW r,
           NEW s \in SUBSET TokenID, CallOK(at, r, s),
           pc' = [pc EXCEPT ![c] = at], call' = [call EXCEPT ![c] = r],
           todo' = [todo EXCEPT ![c] = s],
           UNCHANGED dirty, pc[c] # "write"
    PROVE  Callers'
<1>1. \A x \in Caller : pc'[x] # "write" => dirty'[x] = "no"
  BY DEF Callers
<1> QED BY <1>1, CallerMoves DEF Callers

\* The caller writes the keys S.
LEMMA WriterMoves ==
    ASSUME Callers, NEW c \in Caller, NEW at \in Stage \ {"write"}, NEW r,
           NEW s \in SUBSET TokenID, CallOK(at, r, s), NEW S,
           pc' = [pc EXCEPT ![c] = at], call' = [call EXCEPT ![c] = r],
           todo' = [todo EXCEPT ![c] = s],
           Touch(Caller \ {c}, S), dirty[c] = "no"
    PROVE  Callers'
<1>1. dirty' \in [Caller -> {"no", "yes"}]
  BY DEF Touch, Callers
<1>2. \A x \in Caller : pc'[x] # "write" => dirty'[x] = "no"
  <2>1. dirty'[c] = "no"
    BY DEF Touch
  <2>2. \A x \in Caller \ {c} : pc'[x] # "write" => dirty'[x] = "no"
    BY DEF Touch, Callers
  <2> QED BY <2>1, <2>2
<1> QED BY <1>1, <1>2, CallerMoves

\* UNCHANGED in the form of the lemmas.
LEMMA SameCall ==
    ASSUME Callers, NEW c \in Caller
    PROVE  /\ call = [call EXCEPT ![c] = call[c]]
           /\ todo = [todo EXCEPT ![c] = todo[c]]
           /\ todo[c] \in SUBSET TokenID
BY DEF Callers

\* Callers that return, go on to write, or have written.
LEMMA ReaderReturns ==
    ASSUME Callers, NEW c \in Caller, pc[c] # "write", Return(c),
           UNCHANGED <<dirty, todo>>
    PROVE  Callers'
BY SameCall, ReaderMoves DEF Return, CallOK, Stage

LEMMA ReaderWillWrite ==
    ASSUME Callers, NEW c \in Caller, pc[c] = "read", call[c].call \in Watching,
           ToWrite(c), UNCHANGED <<dirty, todo>>
    PROVE  Callers'
<1>1. CallOK("write", call[c], todo[c])
  BY RequestOf DEF CallOK
<1>2. "write" \in Stage
  BY DEF Stage
<1> QED BY <1>1, <1>2, SameCall, ReaderMoves DEF ToWrite

LEMMA WriterReturns ==
    ASSUME Callers, NEW c \in Caller, NEW S, dirty[c] = "no",
           Touch(Caller \ {c}, S), Return(c), UNCHANGED todo
    PROVE  Callers'
<1>1. CallOK("idle", NoCall, todo[c]) /\ "idle" \in Stage \ {"write"}
  BY DEF CallOK, Stage
<1> QED BY <1>1, SameCall, WriterMoves DEF Return

LEMMA CallersStep ==
    ASSUME Rows, Callers, [Next]_vars
    PROVE  Callers'
<1>1. ASSUME NEW c \in Caller, Begin(c) PROVE Callers'
  <2>1. PICK r \in Requests : call' = [call EXCEPT ![c] = r]
    BY <1>1 DEF Begin
  <2>2. CallOK("read", r, todo[c]) /\ "read" \in Stage
    BY RequestTypes DEF CallOK, Stage
  <2>3. /\ pc' = [pc EXCEPT ![c] = "read"] /\ UNCHANGED <<todo, dirty>>
        /\ pc[c] # "write"
    BY <1>1 DEF Begin
  <2> QED BY <2>1, <2>2, <2>3, SameCall, ReaderMoves
<1>2. ASSUME NEW c \in Caller, Retry(c) PROVE Callers'
  <2> DEFINE r == call[c]
             s == todo[c]
  <2>1. /\ pc' = [pc EXCEPT ![c] = "read"] /\ UNCHANGED <<todo, call>>
        /\ dirty' = [dirty EXCEPT ![c] = "no"] /\ pc[c] = "write"
    BY <1>2 DEF Retry
  <2>2. CallOK("read", r, s) /\ "read" \in Stage
    BY <2>1, RequestOf DEF CallOK, Stage
  <2>3. dirty' \in [Caller -> {"no", "yes"}]
    BY <2>1 DEF Callers
  <2>4. \A x \in Caller : pc'[x] # "write" => dirty'[x] = "no"
    BY <2>1 DEF Callers
  <2>5. /\ call' = [call EXCEPT ![c] = r] /\ todo' = [todo EXCEPT ![c] = s]
        /\ s \in SUBSET TokenID
    BY <2>1, SameCall
  <2>6. pc' = [pc EXCEPT ![c] = "read"]
    BY <2>1
  <2> HIDE DEF r, s
  <2> QED BY <2>2, <2>3, <2>4, <2>5, <2>6, CallerMoves
<1>f. ASSUME NEW c \in Caller, Fails(c) PROVE Callers'
  <2>1. /\ pc' = [pc EXCEPT ![c] = "idle"] /\ call' = [call EXCEPT ![c] = NoCall]
        /\ todo' = [todo EXCEPT ![c] = {}] /\ dirty' = [dirty EXCEPT ![c] = "no"]
    BY <1>f DEF Fails, Return
  <2>2. CallOK("idle", NoCall, {}) /\ "idle" \in Stage /\ {} \in SUBSET TokenID
    BY DEF CallOK, Stage
  <2>3. dirty' \in [Caller -> {"no", "yes"}]
    BY <2>1 DEF Callers
  <2>4. \A x \in Caller : pc'[x] # "write" => dirty'[x] = "no"
    BY <2>1 DEF Callers
  <2> QED BY <2>1, <2>2, <2>3, <2>4, CallerMoves
<1>3. ASSUME NEW c \in Caller, GetDocumentReads(c) PROVE Callers'
  BY <1>3, ReaderReturns, ReaderWillWrite DEF GetDocumentReads, Reads, Watching
<1>4. ASSUME NEW c \in Caller, AppendDocumentReads(c) PROVE Callers'
  BY <1>4, ReaderReturns, ReaderWillWrite DEF AppendDocumentReads, Reads, Watching
<1>5. ASSUME NEW c \in Caller, SetDocumentKeyReads(c) PROVE Callers'
  BY <1>5, ReaderReturns, ReaderWillWrite DEF SetDocumentKeyReads, Reads, Watching
<1>6. ASSUME NEW c \in Caller, AddTokenReads(c) PROVE Callers'
  BY <1>6, ReaderReturns, ReaderWillWrite DEF AddTokenReads, Reads, Watching
<1>7. ASSUME NEW c \in Caller, GetDocumentCreates(c) PROVE Callers'
  BY <1>7, WriterReturns DEF GetDocumentCreates, Commits
<1>8. ASSUME NEW c \in Caller, AppendDocumentWrites(c) PROVE Callers'
  BY <1>8, WriterReturns DEF AppendDocumentWrites, Commits
<1>9. ASSUME NEW c \in Caller, SetDocumentKeyWrites(c) PROVE Callers'
  BY <1>9, WriterReturns DEF SetDocumentKeyWrites, Commits
<1>10. ASSUME NEW c \in Caller, AddTokenWrites(c) PROVE Callers'
  BY <1>10, WriterReturns DEF AddTokenWrites, Commits
<1>11. ASSUME NEW c \in Caller, DeleteDocument(c) PROVE Callers'
  <2>1. dirty[c] = "no"
    BY <1>11 DEF DeleteDocument, Reads, Callers
  <2> QED BY <1>11, <2>1, WriterReturns DEF DeleteDocument
<1>12. ASSUME NEW c \in Caller, UpdateUserLists(c) PROVE Callers'
  <2> DEFINE s == index[call[c].user]
  <2>1. RequestOK(call[c]) /\ call[c].call = "updateuser"
    BY <1>12, RequestOf DEF UpdateUserLists, Reads
  <2>2. CallOK("each", call[c], s) /\ "each" \in Stage
    BY <2>1 DEF RequestOK, CallOK, Stage
  <2>3. s \in SUBSET TokenID
    BY <2>1 DEF RequestOK, Rows
  <2>4. /\ pc' = [pc EXCEPT ![c] = "each"] /\ todo' = [todo EXCEPT ![c] = s]
        /\ UNCHANGED <<call, dirty>> /\ pc[c] # "write"
    BY <1>12 DEF UpdateUserLists, Reads
  <2> HIDE DEF s
  <2> QED BY <2>2, <2>3, <2>4, SameCall, ReaderMoves
<1>13. ASSUME NEW c \in Caller, UpdateUserChecks(c) PROVE Callers'
  <2>1. pc[c] = "each" /\ UNCHANGED dirty /\ pc = [pc EXCEPT ![c] = "each"]
        /\ call[c].permissions \in Permission
    BY <1>13 DEF UpdateUserChecks, Callers, CallOK
  <2>2. PICK t \in todo[c] :
          IF t \in DOMAIN tokens
          THEN /\ pc' = [pc EXCEPT ![c] = "set"]
               /\ call' = [call EXCEPT ![c] = [call |-> "updateuser",
                              permissions |-> call[c].permissions, token |-> t]]
               /\ UNCHANGED todo
          ELSE /\ todo' = [todo EXCEPT ![c] = @ \ {t}]
               /\ UNCHANGED <<pc, call>>
    BY <1>13 DEF UpdateUserChecks
  <2>3. CASE t \in DOMAIN tokens
    <3> DEFINE r == [call |-> "updateuser", permissions |-> call[c].permissions,
                     token |-> t]
    <3>1. CallOK("set", r, todo[c]) /\ "set" \in Stage
      BY <2>1 DEF CallOK, Stage
    <3>2. pc' = [pc EXCEPT ![c] = "set"] /\ call' = [call EXCEPT ![c] = r]
          /\ UNCHANGED todo
      BY <2>2, <2>3
    <3> HIDE DEF r
    <3> QED BY <2>1, <3>1, <3>2, SameCall, ReaderMoves
  <2>4. CASE t \notin DOMAIN tokens
    <3> DEFINE s == todo[c] \ {t}
    <3>1. CallOK("each", call[c], s) /\ "each" \in Stage
      BY <2>1 DEF CallOK, Stage
    <3>2. s \in SUBSET TokenID
      BY SameCall
    <3>3. todo' = [todo EXCEPT ![c] = s] /\ UNCHANGED <<pc, call>>
      BY <2>2, <2>4
    <3> HIDE DEF s
    <3> QED BY <2>1, <3>1, <3>2, <3>3, SameCall, ReaderMoves
  <2> QED BY <2>3, <2>4
<1>14. ASSUME NEW c \in Caller, UpdateUserSets(c) PROVE Callers'
  <2> DEFINE s == todo[c] \ {call[c].token}
             S == {<<"token", call[c].token>>}
  <2>1. /\ pc[c] = "set" /\ pc' = [pc EXCEPT ![c] = "each"]
        /\ todo' = [todo EXCEPT ![c] = s] /\ UNCHANGED call
        /\ UNCHANGED dirty \/ Touch(Caller \ {c}, S)
    BY <1>14 DEF UpdateUserSets
  <2>2. dirty[c] = "no" /\ call[c].permissions \in Permission
    BY <2>1 DEF Callers, CallOK
  <2>3. CallOK("each", call[c], s) /\ "each" \in Stage \ {"write"}
    BY <2>2 DEF CallOK, Stage
  <2>4. s \in SUBSET TokenID
    BY SameCall
  <2> HIDE DEF s, S
  <2>5. CASE UNCHANGED dirty
    BY <2>1, <2>3, <2>4, <2>5, SameCall, ReaderMoves
  <2>6. CASE Touch(Caller \ {c}, S)
    BY <2>1, <2>2, <2>3, <2>4, <2>6, SameCall, WriterMoves
  <2> QED BY <2>1, <2>5, <2>6
<1>15. ASSUME NEW c \in Caller, UpdateUserEnds(c) PROVE Callers'
  BY <1>15, ReaderReturns DEF UpdateUserEnds
<1>16. CASE Tick
  <2>1. PICK S : Touch(Caller, S)
    BY <1>16 DEF Tick
  <2>2. dirty' \in [Caller -> {"no", "yes"}]
        /\ \A x \in Caller : pc[x] # "write" => dirty'[x] = "no"
    BY <2>1 DEF Touch, Callers
  <2>3. UNCHANGED <<pc, call, todo>>
    BY <1>16 DEF Tick
  <2> QED BY <2>2, <2>3 DEF Callers
<1>17. ASSUME (\E s \in Server : Maintenance(s)) \/ Idle \/ UNCHANGED vars
       PROVE  Callers'
  <2>1. UNCHANGED <<pc, call, dirty, todo>>
    BY <1>17, MaintenanceKeeps DEF Idle, vars
  <2> QED BY <2>1 DEF Callers
<1>18. ASSUME NEW c \in Caller, Step(c) PROVE Callers'
  BY <1>1, <1>2, <1>f, <1>3, <1>4, <1>5, <1>6, <1>7, <1>8, <1>9, <1>10, <1>11,
     <1>12, <1>13, <1>14, <1>15, <1>18 DEF Step
<1> QED BY <1>16, <1>17, <1>18 DEF Next

-----------------------------------------------------------------------------
(***************************************************************************)
(* WATCH: what a caller has read is so until somebody writes it, and who   *)
(* writes it is noticed.                                                   *)
(***************************************************************************)

\* At most the keys S are written.
OnlyWrites(S) ==
    /\ \A d \in DocID : <<"doc", d>> \notin S =>
           /\ d \in DOMAIN docs' <=> d \in DOMAIN docs
           /\ d \in DOMAIN docs => docs'[d] = docs[d]
    /\ \A d \in DocID : <<"keys", d>> \notin S => keys'[d] = keys[d]
    /\ \A t \in TokenID : <<"token", t>> \notin S =>
           (t \in DOMAIN tokens' <=> t \in DOMAIN tokens)

LEMMA StaysSo ==
    ASSUME Callers, NEW c \in Caller, pc[c] = "write", StillSo(c),
           NEW S, OnlyWrites(S), Watched(c) \notin S, call'[c] = call[c]
    PROVE  StillSo(c)'
<1>1. RequestOK(call[c]) /\ call[c].call \in Watching
  BY RequestOf DEF Callers, CallOK
<1>2. CASE call[c].call = "get"
  <2>1. call[c].doc \in DocID /\ <<"doc", call[c].doc>> \notin S
    BY <1>1, <1>2 DEF RequestOK, Watched
  <2>2. call[c].doc \in DOMAIN docs' <=> call[c].doc \in DOMAIN docs
    BY <2>1 DEF OnlyWrites
  <2> QED BY <1>2, <2>2 DEF StillSo
<1>3. CASE call[c].call = "append"
  <2>1. call[c].doc \in DocID /\ <<"doc", call[c].doc>> \notin S
    BY <1>1, <1>3 DEF RequestOK, Watched
  <2>2. /\ call[c].doc \in DOMAIN docs' <=> call[c].doc \in DOMAIN docs
        /\ call[c].doc \in DOMAIN docs => docs'[call[c].doc] = docs[call[c].doc]
    BY <2>1 DEF OnlyWrites
  <2> QED BY <1>3, <2>2 DEF StillSo, Length
<1>4. CASE call[c].call = "setkey"
  <2>1. call[c].doc \in DocID /\ <<"keys", call[c].doc>> \notin S
    BY <1>1, <1>4 DEF RequestOK, Watched
  <2>2. keys'[call[c].doc] = keys[call[c].doc]
    BY <2>1 DEF OnlyWrites
  <2> QED BY <1>4, <2>2 DEF StillSo, Version
<1>5. CASE call[c].call = "addtoken"
  BY <1>5 DEF StillSo
<1> QED BY <1>1, <1>2, <1>3, <1>4, <1>5 DEF Watching

\* A write by somebody else keeps what the others have read, or marks them.
LEMMA WritesAreNoticed ==
    ASSUME Callers, Held, NEW callers, NEW S, Touch(callers, S), OnlyWrites(S),
           \A c \in Caller : pc'[c] = "write" =>
               c \in callers /\ pc[c] = "write" /\ call'[c] = call[c]
    PROVE  Held'
<1> SUFFICES ASSUME NEW c \in Caller, pc'[c] = "write", dirty'[c] = "no"
             PROVE  StillSo(c)'
  BY DEF Held
<1>1. c \in callers /\ pc[c] = "write" /\ call'[c] = call[c]
  OBVIOUS
<1>2. Watched(c) \notin S /\ dirty[c] = "no"
  <2> HIDE DEF Watched
  <2> QED BY <1>1 DEF Touch
<1> QED BY <1>1, <1>2, StaysSo DEF Held

\* Nothing is written; whoever goes on to write has just read.
LEMMA ReadsAreHeld ==
    ASSUME Callers, Held, NEW c \in Caller,
           UNCHANGED <<docs, keys, tokens>>,
           pc'[c] = "write" => StillSo(c)',
           \A x \in Caller \ {c} : UNCHANGED <<pc[x], call[x], dirty[x]>>
    PROVE  Held'
<1> SUFFICES ASSUME NEW x \in Caller, x # c, pc'[x] = "write", dirty'[x] = "no"
             PROVE  StillSo(x)'
  BY DEF Held
<1>1. pc[x] = "write" /\ dirty[x] = "no" /\ call'[x] = call[x]
  OBVIOUS
<1>2. OnlyWrites({})
  BY DEF OnlyWrites
<1> QED BY <1>1, <1>2, StaysSo DEF Held

\* What Return and ToWrite leave alone.
LEMMA OthersStay ==
    ASSUME Callers, NEW c \in Caller
    PROVE  /\ Return(c) =>
                  /\ pc'[c] = "idle"
                  /\ \A x \in Caller \ {c} : UNCHANGED <<pc[x], call[x]>>
           /\ ToWrite(c) =>
                  /\ pc'[c] = "write" /\ call'[c] = call[c]
                  /\ \A x \in Caller \ {c} : UNCHANGED <<pc[x], call[x]>>
BY DEF Callers, Return, ToWrite

LEMMA WriterIsNoticed ==
    ASSUME Callers, Held, NEW c \in Caller, NEW S, Touch(Caller \ {c}, S),
           OnlyWrites(S), Return(c)
    PROVE  Held'
<1>1. \A x \in Caller : pc'[x] = "write" =>
          x \in Caller \ {c} /\ pc[x] = "write" /\ call'[x] = call[x]
  BY OthersStay
<1> QED BY <1>1, WritesAreNoticed

LEMMA HeldStep ==
    ASSUME Rows, Callers, Held, [Next]_vars
    PROVE  Held'
<1>1. ASSUME NEW c \in Caller, UNCHANGED <<docs, keys, tokens>>,
             pc'[c] # "write",
             \A x \in Caller \ {c} : UNCHANGED <<pc[x], call[x], dirty[x]>>
      PROVE  Held'
  BY <1>1, ReadsAreHeld
<1>2. ASSUME NEW c \in Caller, UNCHANGED <<docs, keys, tokens, dirty>>,
             Return(c) \/ (ToWrite(c) /\ StillSo(c)')
      PROVE  Held'
  <2>1. \A x \in Caller \ {c} : UNCHANGED <<pc[x], call[x], dirty[x]>>
    BY <1>2, OthersStay
  <2>2. pc'[c] = "write" => StillSo(c)'
    BY <1>2, OthersStay
  <2> QED BY <1>2, <2>1, <2>2, ReadsAreHeld
<1>3. ASSUME NEW c \in Caller,
             \/ Begin(c) \/ Retry(c) \/ Fails(c) \/ UpdateUserLists(c)
             \/ UpdateUserChecks(c) \/ UpdateUserEnds(c)
      PROVE  Held'
  <2>1. /\ UNCHANGED <<docs, keys, tokens>>
        /\ \A x \in Caller \ {c} : UNCHANGED <<pc[x], call[x], dirty[x]>>
    BY <1>3 DEF Begin, Retry, Fails, UpdateUserLists, UpdateUserChecks,
                UpdateUserEnds, Return, Callers, store
  <2>2. pc'[c] # "write"
    BY <1>3 DEF Begin, Retry, Fails, UpdateUserLists, UpdateUserChecks,
                UpdateUserEnds, Return, Callers
  <2> QED BY <2>1, <2>2, <1>1
<1>4. ASSUME NEW c \in Caller, GetDocumentReads(c) PROVE Held'
  <2>1. UNCHANGED <<docs, keys, tokens, dirty>>
    BY <1>4 DEF GetDocumentReads, store
  <2>2. /\ call[c].call = "get"
        /\ \/ Return(c)
           \/ /\ ToWrite(c) /\ call[c].doc \notin DOMAIN docs
              /\ call[c].mode # "never"
    BY <1>4 DEF GetDocumentReads, Reads
  <2>3. ASSUME ToWrite(c), call[c].doc \notin DOMAIN docs, call[c].mode # "never"
        PROVE  StillSo(c)'
    BY <2>1, <2>2, <2>3, OthersStay DEF StillSo
  <2> QED BY <2>1, <2>2, <2>3, <1>2
<1>5. ASSUME NEW c \in Caller, AppendDocumentReads(c) PROVE Held'
  <2>1. UNCHANGED <<docs, keys, tokens, dirty>>
    BY <1>5 DEF AppendDocumentReads, store
  <2>2. /\ call[c].call = "append"
        /\ Return(c) \/ (ToWrite(c) /\ Length(call[c].doc) = call[c].offset)
    BY <1>5 DEF AppendDocumentReads, Reads
  <2>3. ASSUME ToWrite(c), Length(call[c].doc) = call[c].offset
        PROVE  StillSo(c)'
    BY <2>1, <2>2, <2>3, OthersStay DEF StillSo, Length
  <2> QED BY <2>1, <2>2, <2>3, <1>2
<1>6. ASSUME NEW c \in Caller, SetDocumentKeyReads(c) PROVE Held'
  <2>1. UNCHANGED <<docs, keys, tokens, dirty>>
    BY <1>6 DEF SetDocumentKeyReads, store
  <2>2. /\ call[c].call = "setkey"
        /\ \/ Return(c)
           \/ ToWrite(c) /\ Version(call[c].doc, call[c].name) = call[c].old
    BY <1>6 DEF SetDocumentKeyReads, Reads
  <2>3. ASSUME ToWrite(c), Version(call[c].doc, call[c].name) = call[c].old
        PROVE  StillSo(c)'
    BY <2>1, <2>2, <2>3, OthersStay DEF StillSo, Version
  <2> QED BY <2>1, <2>2, <2>3, <1>2
<1>7. ASSUME NEW c \in Caller, AddTokenReads(c) PROVE Held'
  <2>1. UNCHANGED <<docs, keys, tokens, dirty>>
    BY <1>7 DEF AddTokenReads, store
  <2>2. /\ call[c].call = "addtoken"
        /\ Return(c) \/ ToWrite(c)
    BY <1>7 DEF AddTokenReads, Reads
  <2>3. ASSUME ToWrite(c)
        PROVE  StillSo(c)'
    BY <2>2, <2>3, OthersStay DEF StillSo
  <2> QED BY <2>1, <2>2, <2>3, <1>2
<1>8. ASSUME NEW c \in Caller, GetDocumentCreates(c) PROVE Held'
  <2> DEFINE S == {<<"doc", call[c].doc>>}
  <2>1. /\ DOMAIN docs' = DOMAIN docs \cup {call[c].doc}
        /\ \A e \in DOMAIN docs : e # call[c].doc => docs'[e] = docs[e]
        /\ UNCHANGED <<keys, tokens>>
    BY <1>8 DEF GetDocumentCreates, Docs!With
  <2>2. Touch(Caller \ {c}, S) /\ Return(c)
    BY <1>8 DEF GetDocumentCreates
  <2>3. \A e \in DocID : <<"doc", e>> \notin S => e # call[c].doc
    OBVIOUS
  <2> HIDE DEF S
  <2>4. OnlyWrites(S)
    BY <2>1, <2>3 DEF OnlyWrites
  <2> QED BY <2>2, <2>4, WriterIsNoticed
<1>9. ASSUME NEW c \in Caller, AppendDocumentWrites(c) PROVE Held'
  <2> DEFINE d == call[c].doc
             S == {<<"doc", d>>} \cup
                      (IF Expiration = 0 \/ keys[d] = Empty THEN {}
                       ELSE {<<"keys", d>>})
  <2>1. PICK data : docs' = Docs!With(docs, d, data)
    BY <1>9 DEF AppendDocumentWrites
  <2>2. UNCHANGED <<keys, tokens>>
    BY <1>9 DEF AppendDocumentWrites
  <2>3. \A e \in DocID : <<"doc", e>> \notin S => e # d
    OBVIOUS
  <2>4. Touch(Caller \ {c}, S) /\ Return(c)
    BY <1>9 DEF AppendDocumentWrites
  <2> HIDE DEF S, d
  <2>5. /\ DOMAIN docs' = DOMAIN docs \cup {d}
        /\ \A e \in DOMAIN docs : e # d => docs'[e] = docs[e]
    BY <2>1 DEF Docs!With
  <2>6. OnlyWrites(S)
    BY <2>2, <2>3, <2>5 DEF OnlyWrites
  <2> QED BY <2>4, <2>6, WriterIsNoticed
<1>10. ASSUME NEW c \in Caller, DeleteDocument(c) PROVE Held'
  <2> DEFINE d == call[c].doc
             S == {<<"doc", d>>, <<"keys", d>>}
  <2>1. /\ docs' = Without(docs, {d}) /\ keys' = [keys EXCEPT ![d] = Empty]
        /\ UNCHANGED tokens
    BY <1>10 DEF DeleteDocument
  <2>2. Touch(Caller \ {c}, S) /\ Return(c)
    BY <1>10 DEF DeleteDocument
  <2>3. \A e \in DocID : e = d \/ (<<"doc", e>> \notin S /\ <<"keys", e>> \notin S)
    OBVIOUS
  <2>4. <<"doc", d>> \in S /\ <<"keys", d>> \in S
    OBVIOUS
  <2> HIDE DEF S, d
  <2>5. /\ DOMAIN docs' = DOMAIN docs \ {d}
        /\ \A e \in DOMAIN docs \ {d} : docs'[e] = docs[e]
    <3>1. /\ DOMAIN Without(docs, {d}) = DOMAIN docs \ {d}
          /\ \A e \in DOMAIN docs \ {d} : Without(docs, {d})[e] = docs[e]
      BY WithoutValue
    <3> QED BY <2>1, <3>1
  <2>6. \A e \in DocID : e # d => keys'[e] = keys[e]
    BY <2>1 DEF Rows
  <2>7. OnlyWrites(S)
    BY <2>1, <2>3, <2>4, <2>5, <2>6 DEF OnlyWrites
  <2> QED BY <2>2, <2>7, WriterIsNoticed
<1>11. ASSUME NEW c \in Caller, SetDocumentKeyWrites(c) PROVE Held'
  <2> DEFINE S == {<<"keys", call[c].doc>>}
  <2>1. /\ UNCHANGED <<docs, tokens>>
        /\ \A e \in DocID : e # call[c].doc => keys'[e] = keys[e]
    BY <1>11 DEF SetDocumentKeyWrites, Rows
  <2>2. OnlyWrites(S)
    BY <2>1 DEF OnlyWrites
  <2>3. Touch(Caller \ {c}, S) /\ Return(c)
    BY <1>11 DEF SetDocumentKeyWrites
  <2> HIDE DEF S
  <2> QED BY <2>2, <2>3, WriterIsNoticed
<1>12. ASSUME NEW c \in Caller, AddTokenWrites(c) PROVE Held'
  <2> DEFINE r == call[c]
             token == [user |-> r.user, permissions |-> r.permissions]
             S == {<<"token", r.token>>} \cup
                      (IF r.data = <<>> THEN {} ELSE {<<"doc", r.doc>>})
  <2>1. /\ \/ UNCHANGED docs
           \/ r.data # <<>> /\ docs' = Docs!With(docs, r.doc, r.data)
        /\ tokens' \in {Docs!With(tokens, r.token, token),
                        Without(tokens, {r.token})}
        /\ UNCHANGED keys
    BY <1>12 DEF AddTokenWrites
  <2>2. Touch(Caller \ {c}, S) /\ Return(c)
    BY <1>12 DEF AddTokenWrites
  <2>3. /\ \A e \in DocID : r.data # <<>> /\ <<"doc", e>> \notin S => e # r.doc
        /\ \A t \in TokenID : <<"token", t>> \notin S => t # r.token
    OBVIOUS
  <2> HIDE DEF S, r, token
  <2>4. \A t \in TokenID : t # r.token => (t \in DOMAIN tokens' <=> t \in DOMAIN tokens)
    <3>1. /\ DOMAIN Docs!With(tokens, r.token, token) = DOMAIN tokens \cup {r.token}
          /\ DOMAIN Without(tokens, {r.token}) = DOMAIN tokens \ {r.token}
      BY DEF Docs!With, Without, Restrict
    <3> QED BY <2>1, <3>1
  <2>5. \A e \in DOMAIN docs \cup DOMAIN docs' : <<"doc", e>> \notin S /\ e \in DocID =>
            e \in DOMAIN docs /\ e \in DOMAIN docs' /\ docs'[e] = docs[e]
    BY <2>1, <2>3 DEF Docs!With
  <2>6. OnlyWrites(S)
    BY <2>1, <2>3, <2>4, <2>5 DEF OnlyWrites
  <2> QED BY <2>2, <2>6, WriterIsNoticed
<1>13. ASSUME NEW c \in Caller, UpdateUserSets(c) PROVE Held'
  <2> DEFINE t == call[c].token
             S == {<<"token", t>>}
  <2>1. /\ UNCHANGED <<docs, keys>>
        /\ \/ UNCHANGED <<tokens, dirty>>
           \/ /\ \/ DOMAIN tokens' = DOMAIN tokens
                 \/ \E new : tokens' = Docs!With(tokens, t, new)
              /\ Touch(Caller \ {c}, S)
    BY <1>13 DEF UpdateUserSets
  <2>2. /\ pc'[c] # "write"
        /\ \A x \in Caller \ {c} : UNCHANGED <<pc[x], call[x]>>
    BY <1>13 DEF UpdateUserSets, Callers
  <2>3. \A x \in TokenID : <<"token", x>> \notin S => x # t
    OBVIOUS
  <2> HIDE DEF S, t
  <2>4. CASE UNCHANGED <<tokens, dirty>>
    BY <1>1, <2>1, <2>2, <2>4
  <2>5. ASSUME \/ DOMAIN tokens' = DOMAIN tokens
               \/ \E new : tokens' = Docs!With(tokens, t, new),
               Touch(Caller \ {c}, S)
        PROVE  Held'
    <3>1. \A x \in TokenID :
              x # t => (x \in DOMAIN tokens' <=> x \in DOMAIN tokens)
      BY <2>5 DEF Docs!With
    <3>2. OnlyWrites(S)
      BY <2>1, <2>3, <3>1 DEF OnlyWrites
    <3>3. \A x \in Caller : pc'[x] = "write" =>
              x \in Caller \ {c} /\ pc[x] = "write" /\ call'[x] = call[x]
      BY <2>2
    <3> QED BY <2>5, <3>2, <3>3, WritesAreNoticed
  <2> QED BY <2>1, <2>4, <2>5
<1>14. CASE Tick
  <2> DEFINE due(f) == {x \in DOMAIN f : f[x] = now + 1}
             d == due(docDue)
             k == due(keysDue)
             t == due(tokenDue)
             S == {<<"doc", x>> : x \in d} \cup {<<"keys", x>> : x \in k}
                      \cup {<<"token", x>> : x \in t}
  <2>1. /\ docs' = Without(docs, d)
        /\ keys' = [x \in DocID |-> IF x \in k THEN Empty ELSE keys[x]]
        /\ tokens' = Without(tokens, t)
        /\ Touch(Caller, S) /\ UNCHANGED <<pc, call>>
    BY <1>14 DEF Tick
  <2> HIDE DEF due, d, k, t
  <2>2. \A x : /\ x \in d => <<"doc", x>> \in S
               /\ x \in k => <<"keys", x>> \in S
               /\ x \in t => <<"token", x>> \in S
    OBVIOUS
  <2> HIDE DEF S
  <2>3. /\ DOMAIN Without(docs, d) = DOMAIN docs \ d
        /\ \A e \in DOMAIN docs \ d : Without(docs, d)[e] = docs[e]
    BY WithoutValue
  <2>4. DOMAIN Without(tokens, t) = DOMAIN tokens \ t
    BY WithoutValue
  <2>5. \A e \in DocID : <<"doc", e>> \notin S =>
           /\ e \in DOMAIN docs' <=> e \in DOMAIN docs
           /\ e \in DOMAIN docs => docs'[e] = docs[e]
    BY <2>1, <2>2, <2>3
  <2>6. \A e \in DocID : <<"keys", e>> \notin S => keys'[e] = keys[e]
    BY <2>1, <2>2
  <2>7. \A e \in TokenID : <<"token", e>> \notin S =>
           (e \in DOMAIN tokens' <=> e \in DOMAIN tokens)
    BY <2>1, <2>2, <2>4
  <2>8. OnlyWrites(S)
    BY <2>5, <2>6, <2>7 DEF OnlyWrites
  <2> QED BY <2>1, <2>8, WritesAreNoticed
<1>15. ASSUME (\E s \in Server : Maintenance(s)) \/ Idle \/ UNCHANGED vars
       PROVE  Held'
  <2>1. UNCHANGED <<docs, keys, tokens, pc, call, dirty>>
    BY <1>15, MaintenanceKeeps DEF Idle, vars, store
  <2> QED BY <2>1 DEF Held, StillSo, Length, Version
<1>16. ASSUME NEW c \in Caller, Step(c) PROVE Held'
  BY <1>3, <1>4, <1>5, <1>6, <1>7, <1>8, <1>9, <1>10, <1>11, <1>12, <1>13, <1>16
     DEF Step
<1> QED BY <1>14, <1>15, <1>16 DEF Next

-----------------------------------------------------------------------------
(***************************************************************************)
(* Expiry, and the index of tokens                                         *)
(***************************************************************************)

\* A document is written, and due the expiration time later.
LEMMA WrittenIsDue ==
    ASSUME Rows, Dues, NEW d \in DocID, NEW data,
           docs' = Docs!With(docs, d, data), written' = [written EXCEPT ![d] = now],
           \/ docDue' = [docDue EXCEPT ![d] = Due]
           \/ Expiration = 0 /\ UNCHANGED docDue
    PROVE  Dues'
<1> SUFFICES ASSUME NEW e \in DocID, docDue'[e] # 0
             PROVE  /\ Expiration # 0
                    /\ e \in DOMAIN docs' => written'[e] + Expiration <= docDue'[e]
  BY DEF Dues
<1>1. DOMAIN docs' = DOMAIN docs \cup {d}
  BY DEF Docs!With
<1>2. CASE e = d /\ docDue' = [docDue EXCEPT ![d] = Due]
  <2>1. docDue'[e] = Due /\ written'[e] = now
    BY <1>2 DEF Rows
  <2> QED BY <2>1, TimeAssumption DEF Due, Rows
<1>3. CASE e # d /\ docDue' = [docDue EXCEPT ![d] = Due]
  <2>1. docDue'[e] = docDue[e] /\ written'[e] = written[e]
    BY <1>3 DEF Rows
  <2> QED BY <1>1, <1>3, <2>1 DEF Dues
<1>4. CASE Expiration = 0 /\ UNCHANGED docDue
  BY <1>4 DEF Dues
<1> QED BY <1>2, <1>3, <1>4

\* Documents go, and what goes is not due any more.
LEMMA GoneIsNotDue ==
    ASSUME Dues, UNCHANGED written, DOMAIN docs' \subseteq DOMAIN docs,
           \A d \in DocID : docDue'[d] \in {0, docDue[d]}
    PROVE  Dues'
BY DEF Dues

LEMMA DuesStep ==
    ASSUME Rows, Callers, Dues, [Next]_vars
    PROVE  Dues'
<1>1. ASSUME UNCHANGED <<docs, docDue, written>> PROVE Dues'
  BY <1>1 DEF Dues
<1>2. ASSUME NEW c \in Caller, Reading(c) PROVE Dues'
  BY <1>1, <1>2, ReadingKeepsRows DEF rows
<1>3. ASSUME NEW c \in Caller, GetDocumentCreates(c) PROVE Dues'
  <2>1. call[c].doc \in DocID
    BY <1>3, RequestOf DEF GetDocumentCreates, Commits, RequestOK
  <2> QED BY <1>3, <2>1, WrittenIsDue DEF GetDocumentCreates
<1>4. ASSUME NEW c \in Caller, AppendDocumentWrites(c) PROVE Dues'
  <2>1. call[c].doc \in DocID
    BY <1>4, RequestOf DEF AppendDocumentWrites, Commits, RequestOK
  <2>2. /\ \E data : docs' = Docs!With(docs, call[c].doc, data)
        /\ written' = [written EXCEPT ![call[c].doc] = now]
        /\ \/ docDue' = [docDue EXCEPT ![call[c].doc] = Due]
           \/ Expiration = 0 /\ UNCHANGED docDue
    BY <1>4 DEF AppendDocumentWrites
  <2> QED BY <2>1, <2>2, WrittenIsDue
<1>5. ASSUME NEW c \in Caller, AddTokenWrites(c) PROVE Dues'
  <2>1. call[c].doc \in DocID
    BY <1>5, RequestOf DEF AddTokenWrites, Commits, RequestOK
  <2> QED BY <1>1, <1>5, <2>1, WrittenIsDue DEF AddTokenWrites
<1>6. ASSUME NEW c \in Caller, DeleteDocument(c) PROVE Dues'
  <2>1. UNCHANGED written /\ docDue' = [docDue EXCEPT ![call[c].doc] = 0]
        /\ docs' = Without(docs, {call[c].doc})
    BY <1>6 DEF DeleteDocument
  <2>2. DOMAIN docs' \subseteq DOMAIN docs
    BY <2>1 DEF Without, Restrict
  <2>3. \A d \in DocID : docDue'[d] \in {0, docDue[d]}
    BY <2>1 DEF Rows
  <2> QED BY <2>1, <2>2, <2>3, GoneIsNotDue
<1>7. CASE Tick
  <2>1. UNCHANGED written /\ \A d \in DocID : docDue'[d] \in {0, docDue[d]}
    BY <1>7 DEF Tick
  <2>2. DOMAIN docs' \subseteq DOMAIN docs
    BY <1>7 DEF Tick, Without, Restrict
  <2> QED BY <2>1, <2>2, GoneIsNotDue
<1>8. ASSUME NEW c \in Caller, SetDocumentKeyWrites(c) \/ UpdateUserSets(c)
      PROVE  Dues'
  BY <1>1, <1>8 DEF SetDocumentKeyWrites, UpdateUserSets
<1>9. ASSUME (\E s \in Server : Maintenance(s)) \/ Idle \/ UNCHANGED vars
      PROVE  Dues'
  BY <1>1, <1>9, MaintenanceKeeps DEF Idle, vars, store
<1>10. ASSUME NEW c \in Caller, Step(c) PROVE Dues'
  BY <1>2, <1>3, <1>4, <1>5, <1>6, <1>8, <1>10 DEF Step, Reading
<1> QED BY <1>7, <1>9, <1>10 DEF Next

\* Tokens go or keep their users; one that comes has none.
LEMMA TokensGo ==
    ASSUME Listed, UNCHANGED <<index, maintenance, late>>,
           \A t \in DOMAIN tokens' :
               \/ tokens'[t].user = Ghost
               \/ t \in DOMAIN tokens /\ tokens'[t].user = tokens[t].user
    PROVE  Listed'
BY DEF Listed, Knows, Listable

LEMMA ListedStep ==
    ASSUME Rows, Callers, Listed, [Next]_vars
    PROVE  Listed'
<1>1. ASSUME UNCHANGED <<tokens, index, maintenance, late>> PROVE Listed'
  BY <1>1 DEF Listed, Knows, Listable
<1>2. ASSUME NEW c \in Caller, Reading(c) PROVE Listed'
  BY <1>1, <1>2, ReadingKeepsRows DEF rows
<1>3. ASSUME NEW c \in Caller,
             \/ GetDocumentCreates(c) \/ AppendDocumentWrites(c)
             \/ DeleteDocument(c) \/ SetDocumentKeyWrites(c)
      PROVE  Listed'
  BY <1>1, <1>3 DEF GetDocumentCreates, AppendDocumentWrites, DeleteDocument,
                    SetDocumentKeyWrites
<1>4. ASSUME NEW c \in Caller, AddTokenWrites(c) PROVE Listed'
  <2> DEFINE r == call[c]
             token == [user |-> r.user, permissions |-> r.permissions]
  <2>1. r.user \in User /\ token.user = r.user
    BY <1>4, RequestOf DEF AddTokenWrites, Commits, RequestOK
  <2>2. /\ tokens' \in {Docs!With(tokens, r.token, token),
                        Without(tokens, {r.token})}
        /\ index' = [index EXCEPT ![r.user] = @ \cup {r.token}]
        /\ late' = IF \A s \in Server : maintenance[s].at = "rest" THEN late
                   ELSE late \cup {r.token}
        /\ UNCHANGED maintenance
    BY <1>4 DEF AddTokenWrites, Indexed
  <2> HIDE DEF r, token
  <2>3. \A t \in DOMAIN tokens' :
            \/ t = r.token /\ tokens'[t] = token
            \/ t # r.token /\ t \in DOMAIN tokens /\ tokens'[t] = tokens[t]
    BY <2>2 DEF Docs!With, Without, Restrict
  <2>4. /\ r.token \in index'[r.user]
        /\ \A u \in User : index[u] \subseteq index'[u]
    BY <2>1, <2>2 DEF Rows
  <2>5. ASSUME NEW t \in DOMAIN tokens', Listable(t)'
        PROVE  t \in index'[tokens'[t].user]
    <3>1. CASE t = r.token /\ tokens'[t] = token
      BY <2>1, <2>4, <3>1
    <3>2. CASE t \in DOMAIN tokens /\ tokens'[t] = tokens[t]
      <4>1. Listable(t)
        BY <2>2, <2>5, <3>2 DEF Listable
      <4>2. tokens[t].user \in User
        BY <4>1 DEF Listable, Rows, Table, Token
      <4> QED BY <2>4, <3>2, <4>1, <4>2 DEF Listed
    <3> QED BY <2>3, <3>1, <3>2
  <2>6. ASSUME NEW s \in Server PROVE Knows(maintenance[s])'
    <3>1. ASSUME maintenance[s].at # "rest", NEW t \in DOMAIN tokens', Listable(t)'
          PROVE  t \in DOMAIN tokens /\ tokens'[t] = tokens[t] /\ Listable(t)
      BY <2>2, <2>3, <3>1 DEF Listable
    <3>2. maintenance'[s] = maintenance[s] /\ Knows(maintenance[s])
      BY <2>2 DEF Listed
    <3> QED BY <3>1, <3>2 DEF Knows
  <2> QED BY <2>5, <2>6 DEF Listed
<1>5. ASSUME NEW c \in Caller, UpdateUserSets(c) PROVE Listed'
  <2> DEFINE t == call[c].token
             p == call[c].permissions
             ghost == [user |-> Ghost, permissions |-> p]
  <2>1. UNCHANGED <<index, maintenance, late>> /\ ghost.user = Ghost
    BY <1>5 DEF UpdateUserSets
  <2>2. CASE t \in DOMAIN tokens
             /\ tokens' = [tokens EXCEPT ![t].permissions = p]
    <3>1. DOMAIN tokens' = DOMAIN tokens
      BY <2>2
    <3>2. ASSUME NEW x \in DOMAIN tokens
          PROVE  tokens'[x].user = tokens[x].user
      <4>1. tokens[x] \in Token
        BY DEF Rows, Table
      <4> QED BY <2>2, <4>1 DEF Token
    <3> QED BY <2>1, <3>1, <3>2, TokensGo
  <2>3. CASE tokens' = Docs!With(tokens, t, ghost)
    <3> HIDE DEF t, ghost
    <3>1. \A x \in DOMAIN tokens' :
              tokens'[x] = ghost \/ (x \in DOMAIN tokens /\ tokens'[x] = tokens[x])
      BY <2>3 DEF Docs!With
    <3>2. \A x \in DOMAIN tokens' :
              \/ tokens'[x].user = Ghost
              \/ x \in DOMAIN tokens /\ tokens'[x].user = tokens[x].user
      BY <2>1, <3>1
    <3> QED BY <2>1, <3>2, TokensGo
  <2>4. CASE UNCHANGED tokens
    BY <2>1, <2>4, <1>1
  <2> QED BY <1>5, <2>2, <2>3, <2>4 DEF UpdateUserSets
<1>6. ASSUME NEW s \in Server, MaintenanceLists(s) \/ MaintenanceChecks(s)
                               \/ MaintenanceFails(s)
      PROVE  Listed'
  <2>1. UNCHANGED <<tokens, index, late>>
    BY <1>6 DEF MaintenanceLists, MaintenanceChecks, MaintenanceFails, store
  <2>2. Knows(maintenance'[s])
    <3>1. CASE MaintenanceLists(s)
      <4>1. maintenance'[s].listed = index /\ maintenance'[s].at = "listed"
        BY <3>1 DEF MaintenanceLists, Rows
      <4> QED BY <4>1 DEF Listed, Knows
    <3>2. CASE MaintenanceChecks(s)
      <4>1. /\ maintenance[s].at = "listed" /\ maintenance[s] \in Round
            /\ maintenance'[s] = [maintenance[s] EXCEPT !.at = "checked",
                                                        !.have = DOMAIN tokens]
        BY <3>2 DEF MaintenanceChecks, Rows
      <4>2. /\ maintenance'[s].listed = maintenance[s].listed
            /\ maintenance'[s].have = DOMAIN tokens
            /\ maintenance'[s].at = "checked"
        BY <4>1 DEF Round
      <4>3. Knows(maintenance[s])
        BY DEF Listed
      <4> QED BY <4>1, <4>2, <4>3 DEF Knows
    <3>3. CASE MaintenanceFails(s)
      <4>1. maintenance'[s].at = "rest"
        BY <3>3 DEF MaintenanceFails, Rows, AtRest
      <4> QED BY <4>1 DEF Knows
    <3> QED BY <1>6, <3>1, <3>2, <3>3
  <2>3. \A x \in Server : x # s => maintenance'[x] = maintenance[x]
    BY <1>6 DEF MaintenanceLists, MaintenanceChecks, MaintenanceFails, Rows
  <2>4. \A x \in Server : Knows(maintenance'[x])
    BY <2>2, <2>3 DEF Listed
  <2> QED BY <2>1, <2>4 DEF Listed, Knows, Listable
<1>8. ASSUME NEW s \in Server, MaintenanceRemoves(s) PROVE Listed'
  <2> DEFINE m == maintenance[s]
             gone(u) == m.listed[u] \ m.have
  <2>1. /\ UNCHANGED <<tokens, late>> /\ m.at = "checked"
        /\ index' = [u \in User |->
                        IF m.listed[u] # {} /\ gone(u) = m.listed[u]
                        THEN {} ELSE index[u] \ gone(u)]
    BY <1>8 DEF MaintenanceRemoves
  <2>2. ASSUME NEW t \in DOMAIN tokens, Listable(t)
        PROVE  t \in index'[tokens[t].user]
    <3> DEFINE u == tokens[t].user
    <3>1. u \in User
      BY <2>2 DEF Listable, Rows, Table, Token
    <3>2. t \in m.listed[u] /\ t \in m.have /\ t \in index[u]
      BY <2>1, <2>2 DEF Listed, Knows
    <3>3. t \notin gone(u) /\ gone(u) # m.listed[u]
      BY <3>2
    <3> HIDE DEF u, gone
    <3>4. t \in index'[u]
      BY <2>1, <3>1, <3>2, <3>3
    <3> QED BY <3>4 DEF u
  <2>3. \A x \in Server : Knows(maintenance'[x])
    <3>1. maintenance'[s].at = "rest"
      BY <1>8 DEF MaintenanceRemoves, Rows, AtRest
    <3>2. \A x \in Server : x # s => maintenance'[x] = maintenance[x]
      BY <1>8 DEF MaintenanceRemoves, Rows
    <3>3. Knows(maintenance'[s])
      BY <3>1 DEF Knows
    <3> QED BY <3>2, <3>3 DEF Listed
  <2> QED BY <2>1, <2>2, <2>3 DEF Listed, Knows, Listable
<1>9. CASE Tick
  <2>1. UNCHANGED <<index, maintenance, late>>
    BY <1>9 DEF Tick
  <2>2. \A t \in DOMAIN tokens' : t \in DOMAIN tokens /\ tokens'[t] = tokens[t]
    BY <1>9 DEF Tick, Without, Restrict
  <2> QED BY <2>1, <2>2, TokensGo
<1>10. CASE Idle \/ UNCHANGED vars
  BY <1>1, <1>10 DEF Idle, vars, store
<1>11. ASSUME NEW c \in Caller, Step(c) PROVE Listed'
  BY <1>2, <1>3, <1>4, <1>5, <1>11 DEF Step, Reading
<1> QED BY <1>6, <1>8, <1>9, <1>10, <1>11 DEF Next, Maintenance

-----------------------------------------------------------------------------
LEMMA InvStep == Inv /\ [Next]_vars => Inv'
BY RowsStep, CallersStep, HeldStep, DuesStep, ListedStep DEF Inv

\* Keys, callers and every server's maintenance goroutine keep their types
\* (redisdb.go:13-27), whoever writes, retries, fails or expires in between.
THEOREM TypeCorrect == Spec => []TypeOK
<1>1. Inv => TypeOK
  BY DEF Inv, Rows, Round, Callers, CallOK, Table, Token, Stage, TypeOK
<1> QED BY <1>1, InvInit, InvStep, PTL DEF Spec

\* UpdateUser finds every token that is valid, for any number of callers, users,
\* tokens and servers, but for those that were added while some server's
\* runMaintenance worked on an old list of what is gone (redisdb.go:373-479).
THEOREM IndexCompleteAlways == Spec => []IndexComplete
<1>1. Inv => IndexComplete
  BY DEF Inv, Listed, Listable, IndexComplete
<1> QED BY <1>1, InvInit, InvStep, PTL DEF Spec

-----------------------------------------------------------------------------
(***************************************************************************)
(* Keys are compared                                                       *)
(***************************************************************************)
\* EXEC goes through only over what WATCH has kept.
LEMMA WritesCompare ==
    ASSUME Held, NEW c \in Caller, SetDocumentKeyWrites(c)
    PROVE  Version(call[c].doc, call[c].name) = call[c].old
<1>1. pc[c] = "write" /\ dirty[c] = "no" /\ call[c].call = "setkey"
  BY DEF SetDocumentKeyWrites, Commits
<1> QED BY <1>1 DEF Held, StillSo

\* Of several callers that replace the same version of a key one succeeds, for
\* any number of callers, documents and keys, and also when keys expire or
\* commands fail on the way: a key is written over the version that its caller
\* named (redisdb.go:203-253, 264-275).
THEOREM KeysAreComparedAlways == Spec => KeysAreCompared
<1>1. Inv /\ [Next]_vars =>
          [\A c \in Caller : SetDocumentKeyWrites(c) =>
              Version(call[c].doc, call[c].name) = call[c].old]_vars
  BY WritesCompare DEF Inv
<1> QED BY <1>1, InvInit, InvStep, PTL DEF Spec, KeysAreCompared

-----------------------------------------------------------------------------
(***************************************************************************)
(* RedisDB implements Documents: a call on documents takes place when its  *)
(* EXEC goes through, or when it reads what makes it return.               *)
(***************************************************************************)
LEMMA CallIsStep ==
    ASSUME Docs!Call(docs), docs = [d \in DOMAIN docs |-> docs[d]]
    PROVE  Docs!Next
<1>1. DOMAIN docs \in Docs!Kept /\ Docs!Restrict(docs, DOMAIN docs) = docs
  BY DEF Docs!Kept, Docs!Restrict
<1>2. Docs!Call(Docs!Restrict(docs, DOMAIN docs))
  BY <1>1
<1> QED BY <1>1, <1>2 DEF Docs!Next

LEMMA FailIsStep ==
    ASSUME Docs!Fail(docs), docs = [d \in DOMAIN docs |-> docs[d]]
    PROVE  Docs!Next
<1>1. DOMAIN docs \in Docs!Kept /\ Docs!Restrict(docs, DOMAIN docs) = docs
  BY DEF Docs!Kept, Docs!Restrict
<1>2. Docs!Fail(Docs!Restrict(docs, DOMAIN docs))
  BY <1>1
<1> QED BY <1>1, <1>2 DEF Docs!Next

\* A call fails and was not done, or was done.
LEMMA FailsUndone ==
    ASSUME UNCHANGED docs, reply' = Docs!Failed
    PROVE  Docs!Fail(docs)
BY DEF Docs!Fail

LEMMA FailsDone ==
    ASSUME NEW d \in DocID, NEW new \in Contents, reply' = Docs!Failed,
           \/ docs' = Docs!With(docs, d, new)
           \/ docs' = Docs!With(docs, d, Docs!Data(docs, d) \o new)
    PROVE  Docs!Fail(docs)
BY DEF Docs!Fail

LEMMA DeleteFailsDone ==
    ASSUME NEW d \in DocID, reply' = Docs!Failed,
           docs' = Docs!Restrict(docs, DOMAIN docs \ {d})
    PROVE  Docs!Fail(docs)
BY DEF Docs!Fail

LEMMA GetIsCall ==
    ASSUME NEW d \in DocID, NEW mode \in Docs!Modes, NEW data \in Contents,
           Docs!GetDocument(docs, d, mode, data)
    PROVE  Docs!Call(docs)
BY DEF Docs!Call

LEMMA AppendIsCall ==
    ASSUME NEW d \in DocID, NEW offset \in 0..MaxLength, NEW data \in Contents,
           Docs!AppendDocument(docs, d, offset, data)
    PROVE  Docs!Call(docs)
<1>1. offset \in 0..(MaxLength + 1)
  BY BoundsAssumption
<1> QED BY <1>1 DEF Docs!Call

LEMMA AddIsCall ==
    ASSUME NEW d \in DocID, NEW data \in Contents,
           Docs!AddContents(docs, d, data)
    PROVE  Docs!Call(docs)
BY DEF Docs!Call

LEMMA LengthOfData ==
    ASSUME Rows, NEW d
    PROVE  Length(d) = Len(Docs!Data(docs, d))
BY DEF Length, Docs!Data

\* What expires was not written to for the expiration time.
LEMMA TickIsStep ==
    ASSUME Rows, Dues, Tick
    PROVE  Docs!Next
<1> DEFINE due == {d \in DOMAIN docDue : docDue[d] = now + 1}
           K == DOMAIN docs \ due
<1>1. docs' = Without(docs, due) /\ UNCHANGED reply
  BY DEF Tick
<1>2. ASSUME NEW d \in DOMAIN docs, d \in due PROVE d \in Docs!Expiring
  <2>1. d \in DocID /\ now \in Nat /\ docDue[d] = now + 1 /\ written[d] \in Nat
    BY <1>2 DEF Rows, Table
  <2>2. Expiration # 0 /\ written[d] + Expiration <= now + 1
    BY <2>1 DEF Dues
  <2>3. now + 1 - written[d] >= Expiration
    BY <2>1, <2>2, TimeAssumption
  <2> QED BY <1>2, <2>2, <2>3 DEF Docs!Expiring, Unwritten, Ago
<1>3. K \in Docs!Kept
  BY <1>2 DEF Docs!Kept
<1>4. docs' = Docs!Restrict(docs, K)
  BY <1>1 DEF Without, Restrict, Docs!Restrict
<1> QED BY <1>1, <1>3, <1>4 DEF Docs!Next

LEMMA DocumentsStep ==
    ASSUME Inv, [Next]_vars
    PROVE  [Docs!Next]_<<docs, reply>>
<1> DEFINE Goal == [Docs!Next]_<<docs, reply>>
<1>o. Rows /\ Callers /\ Held /\ Dues /\ docs = [d \in DOMAIN docs |-> docs[d]]
  BY DEF Inv, Rows, Table
<1>c. Docs!Call(docs) => Goal
  BY <1>o, CallIsStep
<1>u. UNCHANGED <<docs, reply>> => Goal
  OBVIOUS
<1>f. Docs!Fail(docs) => Goal
  BY <1>o, FailIsStep
<1>d. UNCHANGED docs /\ reply' = Docs!Failed => Goal
  BY <1>f, FailsUndone
<1> HIDE DEF Goal
<1>1. ASSUME NEW c \in Caller, GetDocumentReads(c) PROVE Goal
  <2> DEFINE r == call[c]
  <2>1. r.doc \in DocID /\ r.mode \in Docs!Modes /\ r.data \in Contents
    BY <1>o, <1>1, RequestOf DEF GetDocumentReads, Reads, RequestOK
  <2>2. UNCHANGED docs
    BY <1>1 DEF GetDocumentReads, store
  <2>3. \/ UNCHANGED reply
        \/ r.doc \in DOMAIN docs
           /\ reply' = IF r.mode = "always"
                       THEN Docs!Got(r.doc, r.mode, r.data, "exists", <<>>)
                       ELSE Docs!Got(r.doc, r.mode, r.data, "ok", docs[r.doc])
        \/ /\ r.doc \notin DOMAIN docs /\ r.mode = "never"
           /\ reply' = Docs!Got(r.doc, r.mode, r.data, "missing", <<>>)
    BY <1>1 DEF GetDocumentReads
  <2> HIDE DEF r
  <2>4. UNCHANGED reply \/ Docs!GetDocument(docs, r.doc, r.mode, r.data)
    BY <2>2, <2>3 DEF Docs!GetDocument
  <2> QED BY <2>1, <2>2, <2>4, <1>c, <1>u, GetIsCall
<1>2. ASSUME NEW c \in Caller, GetDocumentCreates(c) PROVE Goal
  <2> DEFINE r == call[c]
  <2>1. r.doc \in DocID /\ r.mode \in Docs!Modes /\ r.data \in Contents
    BY <1>o, <1>2, RequestOf DEF GetDocumentCreates, Commits, RequestOK
  <2>2. r.doc \notin DOMAIN docs /\ r.mode # "never"
    BY <1>o, <1>2 DEF GetDocumentCreates, Commits, Held, StillSo
  <2>3. /\ docs' = Docs!With(docs, r.doc, r.data)
        /\ \/ reply' = Docs!Got(r.doc, r.mode, r.data, "created", r.data)
           \/ reply' = Docs!Failed
    BY <1>2 DEF GetDocumentCreates, Answers
  <2> HIDE DEF r
  <2>4. Docs!GetDocument(docs, r.doc, r.mode, r.data) \/ Docs!Fail(docs)
    BY <2>1, <2>2, <2>3, FailsDone DEF Docs!GetDocument
  <2> QED BY <2>1, <2>4, <1>c, <1>f, GetIsCall
<1>3. ASSUME NEW c \in Caller, AppendDocumentReads(c) PROVE Goal
  <2> DEFINE r == call[c]
  <2>1. r.doc \in DocID /\ r.offset \in 0..MaxLength /\ r.data \in Contents
    BY <1>o, <1>3, RequestOf DEF AppendDocumentReads, Reads, RequestOK
  <2>2. UNCHANGED docs
    BY <1>3 DEF AppendDocumentReads, store
  <2>3. \/ UNCHANGED reply
        \/ /\ Length(r.doc) # r.offset
           /\ reply' = Docs!Appended(r.doc, r.offset, r.data, "conflict",
                                     Length(r.doc))
    BY <1>3 DEF AppendDocumentReads
  <2>4. Length(r.doc) = Len(Docs!Data(docs, r.doc))
    BY <1>o, LengthOfData
  <2> HIDE DEF r
  <2>5. UNCHANGED reply \/ Docs!AppendDocument(docs, r.doc, r.offset, r.data)
    BY <2>2, <2>3, <2>4 DEF Docs!AppendDocument
  <2> QED BY <2>1, <2>2, <2>5, <1>c, <1>u, AppendIsCall
<1>4. ASSUME NEW c \in Caller, AppendDocumentWrites(c) PROVE Goal
  <2> DEFINE r == call[c]
  <2>1. r.doc \in DocID /\ r.offset \in 0..MaxLength /\ r.data \in Contents
    BY <1>o, <1>4, RequestOf DEF AppendDocumentWrites, Commits, RequestOK
  <2>2. Length(r.doc) = r.offset
    BY <1>o, <1>4 DEF AppendDocumentWrites, Commits, Held, StillSo
  <2>3. /\ docs' = Docs!With(docs, r.doc, Docs!Data(docs, r.doc) \o r.data)
        /\ \/ reply' = Docs!Appended(r.doc, r.offset, r.data, "ok",
                                     r.offset + Len(r.data))
           \/ reply' = Docs!Failed
    BY <1>4 DEF AppendDocumentWrites, Answers, Docs!Data
  <2>4. r.offset = Len(Docs!Data(docs, r.doc))
    BY <1>o, <2>2, LengthOfData
  <2> HIDE DEF r
  <2>5. Docs!AppendDocument(docs, r.doc, r.offset, r.data) \/ Docs!Fail(docs)
    BY <2>1, <2>3, <2>4, FailsDone DEF Docs!AppendDocument
  <2> QED BY <2>1, <2>5, <1>c, <1>f, AppendIsCall
<1>5. ASSUME NEW c \in Caller, DeleteDocument(c) PROVE Goal
  <2> DEFINE d == call[c].doc
  <2>1. d \in DocID
    BY <1>o, <1>5, RequestOf DEF DeleteDocument, Reads, RequestOK
  <2>2. docs' = Without(docs, {d}) /\ reply' \in {Docs!Deleted(d), Docs!Failed}
    BY <1>5 DEF DeleteDocument, Answers
  <2> HIDE DEF d
  <2>3. docs' = Docs!Restrict(docs, DOMAIN docs \ {d})
    BY <2>2 DEF Without, Restrict, Docs!Restrict
  <2>4. Docs!DeleteDocument(docs, d) \/ Docs!Fail(docs)
    BY <2>1, <2>2, <2>3, DeleteFailsDone DEF Docs!DeleteDocument
  <2> QED BY <2>1, <2>4, <1>c, <1>f DEF Docs!Call
<1>6. ASSUME NEW c \in Caller, AddTokenReads(c) PROVE Goal
  <2> DEFINE r == call[c]
  <2>1. r.doc \in DocID /\ r.data \in Contents
    BY <1>o, <1>6, RequestOf DEF AddTokenReads, Reads, RequestOK
  <2>2. UNCHANGED docs
    BY <1>6 DEF AddTokenReads, store
  <2>3. \/ UNCHANGED reply
        \/ /\ r.doc \in DOMAIN docs
           /\ reply' = Docs!Put(r.doc, r.data, "conflict")
    BY <1>6 DEF AddTokenReads
  <2> HIDE DEF r
  <2>4. UNCHANGED reply \/ Docs!AddContents(docs, r.doc, r.data)
    BY <2>2, <2>3 DEF Docs!AddContents
  <2> QED BY <2>1, <2>2, <2>4, <1>c, <1>u, AddIsCall
<1>7. ASSUME NEW c \in Caller, AddTokenWrites(c) PROVE Goal
  <2> DEFINE r == call[c]
  <2>1. r.doc \in DocID /\ r.data \in Contents
    BY <1>o, <1>7, RequestOf DEF AddTokenWrites, Commits, RequestOK
  <2>2. \/ UNCHANGED docs /\ reply' \in {reply, Docs!Failed}
        \/ /\ docs' = Docs!With(docs, r.doc, r.data)
           /\ reply' \in {Docs!Put(r.doc, r.data, "ok"), Docs!Failed}
    BY <1>7 DEF AddTokenWrites, Answers
  <2> HIDE DEF r
  <2>3. \/ UNCHANGED docs /\ reply' \in {reply, Docs!Failed}
        \/ Docs!AddContents(docs, r.doc, r.data) \/ Docs!Fail(docs)
    BY <2>1, <2>2, FailsDone DEF Docs!AddContents
  <2> QED BY <2>1, <2>3, <1>c, <1>u, <1>f, <1>d, AddIsCall
<1>8. ASSUME NEW c \in Caller,
             \/ Begin(c) \/ Retry(c) \/ Fails(c) \/ SetDocumentKeyReads(c)
             \/ SetDocumentKeyWrites(c)
      PROVE  Goal
  <2>1. UNCHANGED docs /\ reply' \in {reply, Docs!Failed}
    BY <1>8 DEF Begin, Retry, Fails, SetDocumentKeyReads, SetDocumentKeyWrites,
                Answers, store
  <2> QED BY <2>1, <1>u, <1>d
<1>9. ASSUME NEW c \in Caller,
             \/ UpdateUserLists(c) \/ UpdateUserChecks(c) \/ UpdateUserSets(c)
             \/ UpdateUserEnds(c)
      PROVE  Goal
  BY <1>9, <1>u DEF UpdateUserLists, UpdateUserChecks, UpdateUserSets,
                    UpdateUserEnds, store
<1>10. ASSUME Tick PROVE Goal
  BY <1>o, <1>10, TickIsStep DEF Goal
<1>11. ASSUME (\E s \in Server : Maintenance(s)) \/ Idle \/ UNCHANGED vars
       PROVE  Goal
  BY <1>11, <1>u, MaintenanceKeeps DEF Idle, vars, store
<1>12. ASSUME NEW c \in Caller, Step(c) PROVE Goal
  BY <1>1, <1>2, <1>3, <1>4, <1>5, <1>6, <1>7, <1>8, <1>9, <1>12 DEF Step
<1>13. Goal
  BY <1>10, <1>11, <1>12 DEF Next
<1> QED BY <1>13 DEF Goal

\* However its callers interleave, retry, find documents expired and lose their
\* connections, calls on documents take place one at a time (redisdb.go:89-180,
\* 264-275): RedisDocumentDB keeps the promises of DocumentDB (socket.go:48-89)
\* but for three, that an append may make a document, that contents may replace
\* one, and that a document is forgotten although it is read, when nothing was
\* written to it for the expiration time.
THEOREM ImplementsDocuments == Spec => IsDocumentDB
<1>1. Init => Docs!Init
  BY DEF Init, Docs!Init, Empty
<1>2. Inv /\ [Next]_vars => [Docs!Next]_<<docs, reply>>
  BY DocumentsStep
<1> QED BY <1>1, <1>2, InvInit, InvStep, PTL DEF Spec, IsDocumentDB, Docs!Spec

=============================================================================
