---------------------------- MODULE SQLDBProofs -----------------------------
(***************************************************************************)
(* Theorems about SQLDB: no key outlives its document, cleaning takes no   *)
(* token that is valid, SQLDB implements Documents as long as every COMMIT *)
(* succeeds, and its tables keep their types.                              *)
(***************************************************************************)
EXTENDS SQLDB, TLAPS

LEMMA WithoutDomain ==
    ASSUME NEW f, NEW S
    PROVE  DOMAIN Without(f, S) = DOMAIN f \ S
BY DEF Without, Restrict

LEMMA WithoutValue ==
    ASSUME NEW f, NEW S, NEW x \in DOMAIN f \ S
    PROVE  Without(f, S)[x] = f[x]
BY DEF Without, Restrict

-----------------------------------------------------------------------------
(***************************************************************************)
(* Keys.  KeysHaveDocuments is inductive: a step that takes documents away *)
(* takes their keys, too.                                                  *)
(***************************************************************************)
LEMMA KeysInit == Init => KeysHaveDocuments
BY DEF Init, KeysHaveDocuments, Empty

\* What a step has to do to the tables for KeysHaveDocuments to survive.
LEMMA KeysSurvive ==
    ASSUME KeysHaveDocuments,
           DOMAIN keys' \subseteq DOMAIN keys,
           DOMAIN docs \subseteq DOMAIN docs'
    PROVE  KeysHaveDocuments'
BY DEF KeysHaveDocuments

LEMMA CascadeSuffices ==
    ASSUME KeysHaveDocuments, NEW gone,
           docs' = Without(docs, gone), keys' = Cascade(gone)
    PROVE  KeysHaveDocuments'
<1>1. DOMAIN docs' = DOMAIN docs \ gone
  BY WithoutDomain
<1>2. DOMAIN keys' = DOMAIN keys \ {r \in DOMAIN keys : r[1] \in gone}
  BY WithoutDomain DEF Cascade
<1>. QED
  BY <1>1, <1>2 DEF KeysHaveDocuments

LEMMA CommitKeepsKeys ==
    ASSUME KeysHaveDocuments, NEW newDocs, NEW newAccess, NEW newTokens,
           DOMAIN docs \subseteq DOMAIN newDocs,
           Commit(newDocs, newAccess, keys, newTokens)
    PROVE  KeysHaveDocuments'
BY KeysSurvive DEF Commit, tables

LEMMA KeysStep == KeysHaveDocuments /\ [Next]_vars => KeysHaveDocuments'
<1>. SUFFICES ASSUME KeysHaveDocuments, [Next]_vars
              PROVE  KeysHaveDocuments'
  OBVIOUS
<1>1. ASSUME UNCHANGED <<docs, keys>> PROVE KeysHaveDocuments'
  BY <1>1, KeysSurvive
<1>2. ASSUME NEW c \in Caller, NEW d \in DocID, NEW mode, NEW init,
             GetDocument(c, d, mode, init)
      PROVE  KeysHaveDocuments'
  <2>1. CASE UNCHANGED tables
    BY <2>1, <1>1 DEF tables
  <2>2. CASE Commit(Docs!With(docs, d, init), Docs!With(lastAccess, d, now),
                    keys, tokens)
    <3>1. DOMAIN docs \subseteq DOMAIN Docs!With(docs, d, init)
      BY DEF Docs!With
    <3>. QED  BY <2>2, <3>1, CommitKeepsKeys
  <2>3. CASE Commit(docs, [lastAccess EXCEPT ![d] = now], keys, tokens)
    BY <2>3, CommitKeepsKeys
  <2>. QED  BY <1>2, <2>1, <2>2, <2>3 DEF GetDocument
<1>3. ASSUME NEW d, NEW new, NEW newAccess,
             Commit([docs EXCEPT ![d] = @ \o new], newAccess, keys, tokens)
      PROVE  KeysHaveDocuments'
  <2>1. DOMAIN [docs EXCEPT ![d] = @ \o new] = DOMAIN docs
    OBVIOUS
  <2>. QED  BY <1>3, <2>1, CommitKeepsKeys
<1>4. ASSUME NEW c \in Caller, NEW d \in DocID, NEW offset, NEW new,
             AppendDocument(c, d, offset, new)
      PROVE  KeysHaveDocuments'
  BY <1>1, <1>3, <1>4 DEF AppendDocument, tables
<1>5. ASSUME NEW c \in Caller, NEW d \in DocID, NEW new, AppendFails(c, d, new)
      PROVE  KeysHaveDocuments'
  BY <1>3, <1>5 DEF AppendFails
<1>6. ASSUME NEW c \in Caller, CleanDocuments(c) PROVE KeysHaveDocuments'
  BY <1>6, CascadeSuffices DEF CleanDocuments
<1>7. ASSUME NEW d \in DocID, DeleteDocument(d) PROVE KeysHaveDocuments'
  BY <1>7, CascadeSuffices DEF DeleteDocument
<1>8. ASSUME NEW d \in DocID, NEW v, NEW name, NEW w,
             SetDocumentKey(d, v, name, w)
      PROVE  KeysHaveDocuments'
  <2>. DEFINE newKeys == Docs!With(keys, <<d, name>>, NewKey(v, w))
  <2>1. DOMAIN newKeys = DOMAIN keys \cup {<<d, name>>}
    BY DEF Docs!With
  <2>2. d \in DOMAIN docs
    BY <1>8 DEF SetDocumentKey, KeysHaveDocuments
  <2>3. CASE UNCHANGED tables
    BY <2>3, <1>1 DEF tables
  <2>4. CASE docs' = docs /\ keys' = newKeys
    <3>. HIDE DEF newKeys
    <3>. QED  BY <2>1, <2>2, <2>4 DEF KeysHaveDocuments
  <2>. QED  BY <1>8, <2>3, <2>4 DEF SetDocumentKey, Commit
<1>9. ASSUME NEW t, NEW d \in DocID, NEW u, NEW p, NEW e, NEW contents,
             AddToken(t, d, u, p, e, contents)
      PROVE  KeysHaveDocuments'
  <2>1. CASE UNCHANGED tables
    BY <2>1, <1>1 DEF tables
  <2>2. ASSUME NEW newTokens, Commit(docs, lastAccess, keys, newTokens)
        PROVE  KeysHaveDocuments'
    BY <2>2, CommitKeepsKeys
  <2>3. ASSUME NEW newTokens,
               Commit(Docs!With(docs, d, contents), Docs!With(lastAccess, d, now),
                      keys, newTokens)
        PROVE  KeysHaveDocuments'
    <3>1. DOMAIN docs \subseteq DOMAIN Docs!With(docs, d, contents)
      BY DEF Docs!With
    <3>. QED  BY <2>3, <3>1, CommitKeepsKeys
  <2>. QED  BY <1>9, <2>1, <2>2, <2>3 DEF AddToken
<1>10. ASSUME NEW u, NEW p, UpdateUser(u, p) PROVE KeysHaveDocuments'
  BY <1>10, CommitKeepsKeys DEF UpdateUser
<1>11. ASSUME NEW c \in Caller,
              StartCall(c) \/ CleanTokens(c) \/ CleanMarks(c) \/ CallFails(c)
       PROVE  KeysHaveDocuments'
  BY <1>1, <1>11 DEF StartCall, CleanTokens, CleanMarks, CallFails, tables
<1>12. CASE Restart \/ Tick \/ UNCHANGED vars
  BY <1>1, <1>12 DEF Restart, Tick, vars, tables
<1>13. ASSUME NEW c \in Caller, Step(c) PROVE KeysHaveDocuments'
  BY <1>2, <1>4, <1>5, <1>6, <1>11, <1>13 DEF Step
<1>. QED
  BY <1>7, <1>8, <1>9, <1>10, <1>12, <1>13 DEF Next

\* A document that is created again under the name of one that was deleted or
\* has expired finds none of its keys (sqlitedb.go:17-24, sqlxdb.go:69,
\* 182-225), for any number of documents, keys and callers, and also when
\* statements or a COMMIT fail.
THEOREM KeysHaveDocumentsAlways == Spec => []KeysHaveDocuments
BY KeysInit, KeysStep, PTL DEF Spec

-----------------------------------------------------------------------------
(***************************************************************************)
(* Tokens.  Whoever cleans has read the clock before: what it takes has    *)
(* expired, however long it has been on the way.                           *)
(***************************************************************************)
\* UpdateUser may leave a user's name for the permissions.
Token == [doc: DocID, user: User, permissions: Permission \cup User,
          expiration: Nat]

Clocks ==
    /\ now \in Nat
    /\ cleanTime \in [Caller -> Nat]
    /\ \A c \in Caller : cleanTime[c] <= now
    /\ \A t \in DOMAIN tokens : tokens[t] \in Token

\* A step that leaves token t as it is, but for its permissions.
Keeps(t) == t \in DOMAIN tokens =>
                /\ t \in DOMAIN tokens'
                /\ tokens'[t].expiration = tokens[t].expiration

LEMMA ClocksInit == Init => Clocks
BY TimeAssumption DEF Init, Clocks, Empty

LEMMA CommitKeepsTokens ==
    ASSUME NEW newDocs, NEW newAccess, NEW newKeys,
           Commit(newDocs, newAccess, newKeys, tokens)
    PROVE  UNCHANGED tokens
BY DEF Commit, tables

\* Clean is the only call that takes tokens away.
LEMMA OnlyCleanTakes ==
    ASSUME [Next]_vars
    PROVE  \/ UNCHANGED tokens
           \/ \E c \in Caller : CleanTokens(c)
           \/ \E t \in TokenID, d \in DocID, u \in User, p \in Permission,
                 e \in {now, MaxTime}, contents \in Contents :
                 AddToken(t, d, u, p, e, contents)
           \/ \E u \in User, p \in Permission : UpdateUser(u, p)
<1>1. ASSUME NEW c \in Caller, NEW d, NEW mode, NEW init,
             GetDocument(c, d, mode, init)
      PROVE  UNCHANGED tokens
  BY <1>1, CommitKeepsTokens DEF GetDocument, tables
<1>2. ASSUME NEW c \in Caller, NEW d, NEW offset, NEW new,
             AppendDocument(c, d, offset, new)
      PROVE  UNCHANGED tokens
  BY <1>2, CommitKeepsTokens DEF AppendDocument, tables
<1>3. ASSUME NEW c \in Caller, NEW d, NEW new, AppendFails(c, d, new)
      PROVE  UNCHANGED tokens
  BY <1>3, CommitKeepsTokens DEF AppendFails
<1>4. ASSUME NEW d, NEW v, NEW name, NEW w, SetDocumentKey(d, v, name, w)
      PROVE  UNCHANGED tokens
  BY <1>4, CommitKeepsTokens DEF SetDocumentKey
<1>5. ASSUME NEW c \in Caller,
             StartCall(c) \/ CleanDocuments(c) \/ CleanMarks(c) \/ CallFails(c)
      PROVE  UNCHANGED tokens
  BY <1>5 DEF StartCall, CleanDocuments, CleanMarks, CallFails, tables
<1>6. ASSUME NEW d, DeleteDocument(d) PROVE UNCHANGED tokens
  BY <1>6 DEF DeleteDocument
<1>7. CASE Restart \/ Tick \/ UNCHANGED vars
  BY <1>7 DEF Restart, Tick, vars, tables
<1>. QED
  BY <1>1, <1>2, <1>3, <1>4, <1>5, <1>6, <1>7 DEF Next, Step

LEMMA AddTokenKeeps ==
    ASSUME Clocks, NEW t \in TokenID, NEW d \in DocID, NEW u \in User,
           NEW p \in Permission, NEW e \in Nat, NEW contents,
           AddToken(t, d, u, p, e, contents)
    PROVE  (\A x : Keeps(x)) /\ Clocks'
<1>. DEFINE token == [doc |-> d, user |-> u, permissions |-> p, expiration |-> e]
            newTokens == Docs!With(tokens, t, token)
<1>1. \/ UNCHANGED tokens
      \/ t \notin DOMAIN tokens /\ tokens' = newTokens
  BY DEF AddToken, Commit, tables
<1>2. UNCHANGED <<now, cleanTime>>
  BY DEF AddToken
<1>3. CASE UNCHANGED tokens
  BY <1>2, <1>3 DEF Keeps, Clocks
<1>4. CASE t \notin DOMAIN tokens /\ tokens' = newTokens
  <2>1. DOMAIN newTokens = DOMAIN tokens \cup {t}
    BY DEF Docs!With
  <2>2. \A x \in DOMAIN tokens : x # t => newTokens[x] = tokens[x]
    BY DEF Docs!With
  <2>3. newTokens[t] = token
    BY DEF Docs!With
  <2>4. token \in Token
    BY DEF Token
  <2>. HIDE DEF newTokens, token
  <2>5. \A x : Keeps(x)
    BY <1>4, <2>1, <2>2 DEF Keeps
  <2>6. \A x \in DOMAIN tokens' : tokens'[x] \in Token
    BY <1>4, <2>1, <2>2, <2>3, <2>4 DEF Clocks
  <2>. QED  BY <1>2, <2>5, <2>6 DEF Clocks
<1>. QED  BY <1>1, <1>3, <1>4

LEMMA UpdateUserKeeps ==
    ASSUME Clocks, NEW u \in User, NEW p, UpdateUser(u, p)
    PROVE  (\A x : Keeps(x)) /\ Clocks'
<1>. DEFINE New(x) == IF tokens[x].user = p
                      THEN [tokens[x] EXCEPT !.permissions = u] ELSE tokens[x]
            newTokens == [x \in DOMAIN tokens |-> New(x)]
<1>1. UNCHANGED tokens \/ tokens' = newTokens
  BY DEF UpdateUser, Commit, tables
<1>2. ASSUME NEW x \in DOMAIN tokens
      PROVE  New(x) \in Token /\ New(x).expiration = tokens[x].expiration
  <2>1. tokens[x] \in Token
    BY DEF Clocks
  <2>. QED  BY <2>1 DEF Token
<1>3. DOMAIN newTokens = DOMAIN tokens
      /\ \A x \in DOMAIN tokens : newTokens[x] = New(x)
  OBVIOUS
<1>4. UNCHANGED <<now, cleanTime>>
  BY DEF UpdateUser
<1>. HIDE DEF New, newTokens
<1>5. \A x : Keeps(x)
  BY <1>1, <1>2, <1>3 DEF Keeps
<1>6. \A x \in DOMAIN tokens' : tokens'[x] \in Token
  BY <1>1, <1>2, <1>3 DEF Clocks
<1>. QED  BY <1>4, <1>5, <1>6 DEF Clocks

\* What CleanTokens takes has expired by now, or before.
LEMMA CleanTakesExpired ==
    ASSUME Clocks, NEW c \in Caller, CleanTokens(c)
    PROVE  /\ \A t : Keeps(t) \/ tokens[t].expiration < now
           /\ Clocks'
<1>1. DOMAIN tokens' = DOMAIN tokens \ ExpiredTokens(c)
  BY WithoutDomain DEF CleanTokens
<1>2. \A t \in DOMAIN tokens' : tokens'[t] = tokens[t]
  BY <1>1, WithoutValue DEF CleanTokens
<1>3. ASSUME NEW t \in ExpiredTokens(c) PROVE tokens[t].expiration < now
  <2>1. tokens[t].expiration \in Nat /\ tokens[t].expiration < cleanTime[c]
    BY <1>3 DEF ExpiredTokens, Clocks, Token
  <2>. QED  BY <2>1 DEF Clocks
<1>4. UNCHANGED <<now, cleanTime>>
  BY DEF CleanTokens
<1>5. \A t : Keeps(t) \/ tokens[t].expiration < now
  BY <1>1, <1>2, <1>3 DEF Keeps
<1>. QED  BY <1>1, <1>2, <1>4, <1>5 DEF Clocks

LEMMA ClocksStep ==
    ASSUME Clocks, [Next]_vars
    PROVE  Clocks'
<1>1. ASSUME UNCHANGED tokens PROVE Clocks'
  <2>. USE DEF Clocks
  <2>1. \/ UNCHANGED <<now, cleanTime>>
        \/ \E c \in Caller :
              /\ now' = now
              /\ cleanTime' \in {[cleanTime EXCEPT ![c] = now],
                                 [cleanTime EXCEPT ![c] = 0]}
        \/ now' = now /\ cleanTime' = [c \in Caller |-> 0]
        \/ now' = now + 1 /\ cleanTime' = cleanTime
    <3>1. CASE Restart \/ Tick \/ UNCHANGED vars
      BY <3>1 DEF Restart, Tick, vars
    <3>2. ASSUME NEW c \in Caller, NEW d, NEW mode, NEW init,
                 GetDocument(c, d, mode, init)
          PROVE  UNCHANGED <<now, cleanTime>>
      BY <3>2 DEF GetDocument, Answer
    <3>3. ASSUME NEW c \in Caller, NEW d, NEW offset, NEW new,
                 AppendDocument(c, d, offset, new) \/ AppendFails(c, d, new)
          PROVE  UNCHANGED <<now, cleanTime>>
      BY <3>3 DEF AppendDocument, AppendFails, Answer
    <3>4. ASSUME NEW c \in Caller, StartCall(c) \/ CleanMarks(c) \/ CallFails(c)
          PROVE  /\ now' = now
                 /\ cleanTime' \in {cleanTime, [cleanTime EXCEPT ![c] = now],
                                    [cleanTime EXCEPT ![c] = 0]}
      BY <3>4 DEF StartCall, CleanMarks, CallFails
    <3>5. ASSUME NEW c \in Caller, CleanDocuments(c) \/ CleanTokens(c)
          PROVE  UNCHANGED <<now, cleanTime>>
      BY <3>5 DEF CleanDocuments, CleanTokens
    <3>6. ASSUME NEW c \in Caller, Step(c)
          PROVE  /\ now' = now
                 /\ cleanTime' \in {cleanTime, [cleanTime EXCEPT ![c] = now],
                                    [cleanTime EXCEPT ![c] = 0]}
      BY <3>2, <3>3, <3>4, <3>5, <3>6 DEF Step
    <3>7. ASSUME NEW d,
                 \/ DeleteDocument(d)
                 \/ \E name \in KeyName, v \in 0..MaxVersion, w \in 1..MaxVersion :
                       SetDocumentKey(d, v, name, w)
                 \/ \E t \in TokenID, u \in User, p \in Permission,
                       e \in {now, MaxTime}, contents \in Contents :
                       AddToken(t, d, u, p, e, contents)
          PROVE  UNCHANGED <<now, cleanTime>>
      BY <3>7 DEF DeleteDocument, SetDocumentKey, AddToken
    <3>8. ASSUME NEW u, NEW p, UpdateUser(u, p) PROVE UNCHANGED <<now, cleanTime>>
      BY <3>8 DEF UpdateUser
    <3>. QED  BY <3>1, <3>6, <3>7, <3>8 DEF Next
  <2>2. \A t \in DOMAIN tokens' : tokens'[t] \in Token
    BY <1>1
  <2>3. now' \in Nat /\ cleanTime' \in [Caller -> Nat]
        /\ \A c \in Caller : cleanTime'[c] <= now'
    BY <2>1
  <2>. QED  BY <2>2, <2>3
<1>2. \A e \in {now, MaxTime} : e \in Nat
  BY TimeAssumption DEF Clocks
<1>. QED
  BY <1>1, <1>2, OnlyCleanTakes, CleanTakesExpired, AddTokenKeeps, UpdateUserKeeps

\* A step keeps a valid token, or the token has expired.
LEMMA TokensStep ==
    ASSUME Clocks, [Next]_vars, NEW t \in TokenID, Valid(t)
    PROVE  Valid(t)' \/ tokens[t].expiration <= now'
<1>1. Clocks'
  BY ClocksStep
<1>2. Keeps(t) \/ tokens[t].expiration < now
  <2>1. CASE UNCHANGED tokens
    BY <2>1 DEF Keeps
  <2>2. \A e \in {now, MaxTime} : e \in Nat
    BY TimeAssumption DEF Clocks
  <2>. QED  BY <2>1, <2>2, OnlyCleanTakes, CleanTakesExpired, AddTokenKeeps,
                UpdateUserKeeps
<1>3. tokens[t].expiration \in Nat /\ now \in Nat /\ now' \in Nat
  BY <1>1 DEF Clocks, Token, Valid
<1>4. CASE Keeps(t)
  BY <1>3, <1>4 DEF Keeps, Valid
<1>. QED  BY <1>2, <1>3, <1>4 DEF Valid

\* A token that has not expired stays valid: neither a caller that cleans with
\* the time of long ago, nor a failing statement, nor a restart takes it
\* (sqlxdb.go:57-73, 258-276).
THEOREM TokensLastAlways == Spec => TokensLast
<1>1. Clocks /\ [Next]_vars =>
          [\A t \in TokenID :
              Valid(t) => Valid(t)' \/ tokens[t].expiration <= now']_vars
  BY TokensStep
<1>2. Clocks /\ [Next]_vars => Clocks'
  BY ClocksStep
<1>. QED
  BY <1>1, <1>2, ClocksInit, PTL DEF Spec, TokensLast

-----------------------------------------------------------------------------
(***************************************************************************)
(* Documents.  lastAccess is never behind the last use of a document, so   *)
(* that whatever clean deletes is stale.                                   *)
(***************************************************************************)
Label == {"idle", "documents", "tokens", "mark", "transaction"}

Access ==
    /\ docs \in [DOMAIN docs -> Seq(Unit)]
    /\ DOMAIN docs \subseteq DocID
    /\ lastAccess \in [DOMAIN docs -> Nat]
    /\ used \in [DocID -> Nat]
    /\ \A d \in DOMAIN docs : used[d] <= lastAccess[d]
    /\ pc \in [Caller -> Label]
    /\ \A c \in Caller : pc[c] = "documents" => Expiration # 0

\* A step after which nobody is about to delete documents who was not before.
StartsNoCleaning ==
    /\ pc' \in [Caller -> Label]
    /\ \A c \in Caller : pc'[c] = "documents" => pc[c] = "documents"

\* Nothing was forgotten before the call.
LEMMA AllMayBeKept ==
    ASSUME Access
    PROVE  /\ DOMAIN docs \in Docs!Kept
           /\ Docs!Restrict(docs, DOMAIN docs) = docs
BY DEF Access, Docs!Kept, Docs!Restrict

LEMMA AccessInit == Init => Access
<1>. SUFFICES ASSUME Init PROVE Access
  OBVIOUS
<1>1. DOMAIN docs = {} /\ DOMAIN lastAccess = {}
  BY DEF Init, Empty
<1>2. docs \in [DOMAIN docs -> Seq(Unit)] /\ lastAccess \in [DOMAIN docs -> Nat]
  BY DEF Init, Empty
<1>3. pc \in [Caller -> Label] /\ \A c \in Caller : pc[c] = "idle"
  BY DEF Init, Label
<1>. QED
  BY <1>1, <1>2, <1>3 DEF Init, Access

LEMMA ExpiredIsStale ==
    ASSUME Clocks, Access, NEW c \in Caller, pc[c] = "documents"
    PROVE  Expired(c) \subseteq Stale
<1>1. ASSUME NEW d \in Expired(c) PROVE d \in Stale
  <2>1. d \in DOMAIN docs /\ lastAccess[d] + Expiration < cleanTime[c]
    BY <1>1 DEF Expired
  <2>2. /\ lastAccess[d] \in Nat /\ used[d] \in Nat /\ used[d] <= lastAccess[d]
        /\ cleanTime[c] \in Nat /\ now \in Nat /\ cleanTime[c] <= now
        /\ Expiration \in Nat
    BY <2>1, TimeAssumption DEF Access, Clocks
  <2>3. now - used[d] > Expiration
    BY <2>1, <2>2
  <2>. QED  BY <2>1, <2>3 DEF Stale, Access
<1>. QED  BY <1>1

\* What a call does to the documents: it writes one, keeps them all, or takes
\* some away.
Writes(d, data) ==
    /\ docs' = Docs!With(docs, d, data)
    /\ lastAccess' = Docs!With(lastAccess, d, now)
    /\ used' = [used EXCEPT ![d] = now]

LEMMA WritesKeepAccess ==
    ASSUME Clocks, Access, NEW d \in DocID, NEW data \in Seq(Unit), Writes(d, data),
           StartsNoCleaning
    PROVE  Access'
<1>1. docs' \in [DOMAIN docs \cup {d} -> Seq(Unit)]
  BY DEF Writes, Docs!With, Access
<1>2. lastAccess' \in [DOMAIN docs \cup {d} -> Nat]
  BY DEF Writes, Docs!With, Access, Clocks
<1>3. used' \in [DocID -> Nat]
  BY DEF Writes, Access, Clocks
<1>4. \A e \in DOMAIN docs \cup {d} : used'[e] <= lastAccess'[e]
  <2>1. ASSUME NEW e \in DOMAIN docs, e # d
        PROVE  used'[e] = used[e] /\ lastAccess'[e] = lastAccess[e]
    BY <2>1 DEF Writes, Docs!With, Access
  <2>2. used'[d] = now /\ lastAccess'[d] = now
    BY DEF Writes, Docs!With, Access
  <2>. QED  BY <2>1, <2>2 DEF Access, Clocks
<1>. QED  BY <1>1, <1>2, <1>3, <1>4 DEF Access, StartsNoCleaning

LEMMA WithoutKeepsAccess ==
    ASSUME Access, NEW gone, UNCHANGED used,
           docs' = Without(docs, gone), lastAccess' = Without(lastAccess, gone),
           StartsNoCleaning
    PROVE  Access'
<1>1. docs' \in [DOMAIN docs \ gone -> Seq(Unit)]
  BY DEF Without, Restrict, Access
<1>2. lastAccess' \in [DOMAIN docs \ gone -> Nat]
  BY DEF Without, Restrict, Access
<1>3. \A d \in DOMAIN docs \ gone : lastAccess'[d] = lastAccess[d]
  BY DEF Without, Restrict, Access
<1>. QED  BY <1>1, <1>2, <1>3 DEF Access, StartsNoCleaning

LEMMA CallIsStep ==
    ASSUME Access, Docs!Call(docs)
    PROVE  Docs!Next
<1>1. Docs!Call(Docs!Restrict(docs, DOMAIN docs))
  BY AllMayBeKept
<1>. QED  BY <1>1, AllMayBeKept DEF Docs!Next

LEMMA FailIsStep ==
    ASSUME Access, Docs!Fail(docs)
    PROVE  Docs!Next
<1>1. Docs!Fail(Docs!Restrict(docs, DOMAIN docs))
  BY AllMayBeKept
<1>. QED  BY <1>1, AllMayBeKept DEF Docs!Next

LEMMA CommitsSucceed ==
    ASSUME ~CommitsMayFail, NEW newDocs, NEW newAccess, NEW newKeys, NEW newTokens,
           Commit(newDocs, newAccess, newKeys, newTokens)
    PROVE  docs' = newDocs /\ lastAccess' = newAccess
BY DEF Commit

\* A step that leaves the rows alone.
LEMMA RestKeepsAccess ==
    ASSUME Access, UNCHANGED <<docs, lastAccess, used>>,
           StartsNoCleaning
    PROVE  Access'
BY DEF Access, StartsNoCleaning

LEMMA NobodyStarts ==
    ASSUME Access, NEW c \in Caller, NEW label \in Label \ {"documents"},
           pc' = [pc EXCEPT ![c] = label]
    PROVE  StartsNoCleaning
BY DEF Access, StartsNoCleaning

LEMMA RestIsNoCleaning ==
    ASSUME Access, UNCHANGED pc
    PROVE  StartsNoCleaning
BY DEF Access, StartsNoCleaning

LEMMA AnswerEnds ==
    ASSUME Access, NEW c \in Caller, NEW answer, Answer(c, answer)
    PROVE  reply' = answer /\ StartsNoCleaning
<1>1. reply' = answer /\ pc' = [pc EXCEPT ![c] = "idle"]
  BY DEF Answer, Goto
<1>. QED  BY <1>1, NobodyStarts DEF Label


LEMMA GetDocumentIsCall ==
    ASSUME ~CommitsMayFail, Clocks, Access, NEW c \in Caller, NEW d \in DocID,
           NEW mode \in Docs!Modes, NEW init \in Contents,
           GetDocument(c, d, mode, init)
    PROVE  Access' /\ Docs!GetDocument(docs, d, mode, init)
<1>1. CASE /\ d \notin DOMAIN docs /\ mode = "never"
           /\ Answer(c, Docs!Got(d, mode, init, "missing", <<>>))
           /\ UNCHANGED <<tables, used>>
  <2>1. UNCHANGED <<docs, lastAccess, used>>
    BY <1>1 DEF tables
  <2>. QED
    BY <1>1, <2>1, AnswerEnds, RestKeepsAccess DEF Docs!GetDocument
<1>2. CASE /\ d \in DOMAIN docs /\ mode = "always"
           /\ Answer(c, Docs!Got(d, mode, init, "exists", <<>>))
           /\ UNCHANGED <<tables, used>>
  <2>1. UNCHANGED <<docs, lastAccess, used>>
    BY <1>2 DEF tables
  <2>. QED
    BY <1>2, <2>1, AnswerEnds, RestKeepsAccess DEF Docs!GetDocument
<1>3. CASE /\ d \notin DOMAIN docs /\ mode # "never"
           /\ Commit(Docs!With(docs, d, init), Docs!With(lastAccess, d, now),
                     keys, tokens)
           /\ Answer(c, Docs!Got(d, mode, init, "created", init))
           /\ used' = [used EXCEPT ![d] = now]
  <2>1. Writes(d, init)
    BY <1>3, CommitsSucceed DEF Writes
  <2>2. init \in Seq(Unit)
    BY ContentsAssumption
  <2>3. Access'
    BY <1>3, <2>1, <2>2, AnswerEnds, WritesKeepAccess
  <2>. QED
    BY <1>3, <2>1, <2>3, AnswerEnds DEF Docs!GetDocument, Writes
<1>4. CASE /\ d \in DOMAIN docs /\ mode # "always"
           /\ Commit(docs, [lastAccess EXCEPT ![d] = now], keys, tokens)
           /\ Answer(c, Docs!Got(d, mode, init, "ok", docs[d]))
           /\ used' = [used EXCEPT ![d] = now]
  <2>1. docs' = docs /\ lastAccess' = [lastAccess EXCEPT ![d] = now]
    BY <1>4, CommitsSucceed
  <2>2. docs = Docs!With(docs, d, docs[d])
    BY <1>4 DEF Access, Docs!With
  <2>3. lastAccess' = Docs!With(lastAccess, d, now)
    BY <1>4, <2>1 DEF Access, Docs!With
  <2>4. docs[d] \in Seq(Unit)
    BY <1>4 DEF Access
  <2>5. Writes(d, docs[d])
    BY <1>4, <2>1, <2>2, <2>3 DEF Writes
  <2>6. Access'
    BY <1>4, <2>4, <2>5, AnswerEnds, WritesKeepAccess
  <2>. QED
    BY <1>4, <2>1, <2>6, AnswerEnds DEF Docs!GetDocument
<1>. QED  BY <1>1, <1>2, <1>3, <1>4 DEF GetDocument

LEMMA AppendDocumentIsCall ==
    ASSUME ~CommitsMayFail, Clocks, Access, NEW c \in Caller, NEW d \in DocID,
           NEW offset \in Nat, NEW new \in Contents,
           AppendDocument(c, d, offset, new)
    PROVE  Access' /\ Docs!AppendDocument(docs, d, offset, new)
<1>1. CASE /\ d \notin DOMAIN docs
           /\ Answer(c, Docs!Appended(d, offset, new, "missing", 0))
           /\ UNCHANGED <<tables, used>>
  <2>1. UNCHANGED <<docs, lastAccess, used>>
    BY <1>1 DEF tables
  <2>. QED
    BY <1>1, <2>1, AnswerEnds, RestKeepsAccess DEF Docs!AppendDocument
<1>2. CASE /\ d \in DOMAIN docs /\ offset # Len(docs[d])
           /\ Answer(c, Docs!Appended(d, offset, new, "conflict", Len(docs[d])))
           /\ UNCHANGED <<tables, used>>
  <2>1. UNCHANGED <<docs, lastAccess, used>>
    BY <1>2 DEF tables
  <2>. QED
    BY <1>2, <2>1, AnswerEnds, RestKeepsAccess DEF Docs!AppendDocument, Docs!Data
<1>3. CASE /\ d \in DOMAIN docs /\ offset = Len(docs[d])
           /\ Commit([docs EXCEPT ![d] = @ \o new],
                     [lastAccess EXCEPT ![d] = now], keys, tokens)
           /\ Answer(c, Docs!Appended(d, offset, new, "ok", Len(docs[d] \o new)))
           /\ used' = [used EXCEPT ![d] = now]
  <2>1. docs[d] \in Seq(Unit) /\ new \in Seq(Unit)
    BY <1>3, ContentsAssumption DEF Access
  <2>2. docs[d] \o new \in Seq(Unit) /\ Len(docs[d] \o new) = offset + Len(new)
    BY <1>3, <2>1
  <2>3. /\ docs' = [docs EXCEPT ![d] = @ \o new]
        /\ lastAccess' = [lastAccess EXCEPT ![d] = now]
    BY <1>3, CommitsSucceed
  <2>4. docs' = Docs!With(docs, d, docs[d] \o new)
    BY <1>3, <2>3 DEF Access, Docs!With
  <2>5. lastAccess' = Docs!With(lastAccess, d, now)
    BY <1>3, <2>3 DEF Access, Docs!With
  <2>6. Writes(d, docs[d] \o new)
    BY <1>3, <2>4, <2>5 DEF Writes
  <2>7. Access'
    BY <1>3, <2>2, <2>6, AnswerEnds, WritesKeepAccess
  <2>8. reply' = Docs!Appended(d, offset, new, "ok", offset + Len(new))
    BY <1>3, <2>2, AnswerEnds
  <2>. QED
    BY <1>3, <2>4, <2>7, <2>8 DEF Docs!AppendDocument, Docs!Data
<1>. QED  BY <1>1, <1>2, <1>3 DEF AppendDocument

LEMMA AppendFailsIsFail ==
    ASSUME ~CommitsMayFail, Clocks, Access, NEW c \in Caller, NEW d \in DocID,
           NEW new \in Contents, AppendFails(c, d, new)
    PROVE  Access' /\ Docs!Fail(docs)
<1>1. /\ d \in DOMAIN docs
      /\ docs' = [docs EXCEPT ![d] = @ \o new]
      /\ UNCHANGED <<lastAccess, used>>
  BY CommitsSucceed DEF AppendFails
<1>2. docs[d] \in Seq(Unit) /\ new \in Seq(Unit)
  BY <1>1, ContentsAssumption DEF Access
<1>3. docs' = Docs!With(docs, d, docs[d] \o new)
  BY <1>1 DEF Access, Docs!With
<1>4. docs[d] \o new \in Seq(Unit)
  BY <1>2
<1>5. docs' \in [DOMAIN docs -> Seq(Unit)]
  BY <1>1, <1>4 DEF Access
<1>6. /\ reply' = Docs!Failed
      /\ StartsNoCleaning
  BY AnswerEnds DEF AppendFails
<1>7. Access'
  BY <1>1, <1>5, <1>6 DEF Access, StartsNoCleaning
<1>8. docs' = Docs!With(docs, d, Docs!Data(docs, d) \o new)
  BY <1>1, <1>3 DEF Docs!Data
<1>9. Docs!Fail(docs)
  BY <1>1, <1>6, <1>8 DEF Docs!Fail
<1>. QED  BY <1>6, <1>7, <1>9

LEMMA AddTokenIsCall ==
    ASSUME ~CommitsMayFail, Clocks, Access, NEW t, NEW d \in DocID, NEW u, NEW p,
           NEW e, NEW contents \in Contents, AddToken(t, d, u, p, e, contents)
    PROVE  /\ Access'
           /\ \/ UNCHANGED <<docs, reply>>
              \/ contents # <<>> /\ Docs!AddContents(docs, d, contents)
<1>1. StartsNoCleaning
  BY DEF AddToken, Access, StartsNoCleaning
<1>2. CASE UNCHANGED <<docs, lastAccess, used>>
  <2>1. Access'
    BY <1>1, <1>2, RestKeepsAccess
  <2>2. \/ UNCHANGED reply
        \/ contents # <<>> /\ reply' = Docs!Put(d, contents, "exists")
        \/ /\ contents # <<>> /\ d \in DOMAIN docs
           /\ reply' = Docs!Put(d, contents, "conflict")
        \/ d \notin DOMAIN docs /\ docs' = Docs!With(docs, d, contents)
    BY CommitsSucceed DEF AddToken
  <2>3. d \notin DOMAIN docs => docs' # Docs!With(docs, d, contents)
    <3>1. DOMAIN Docs!With(docs, d, contents) = DOMAIN docs \cup {d}
      BY DEF Docs!With
    <3>. QED  BY <1>2, <3>1
  <2>. QED  BY <1>2, <2>1, <2>2, <2>3 DEF Docs!AddContents
<1>3. CASE /\ contents # <<>> /\ d \notin DOMAIN docs
           /\ Writes(d, contents)
           /\ reply' = Docs!Put(d, contents, "ok")
  <2>1. contents \in Seq(Unit)
    BY ContentsAssumption
  <2>2. Access'
    BY <1>1, <1>3, <2>1, WritesKeepAccess
  <2>. QED  BY <1>3, <2>2 DEF Docs!AddContents, Writes
<1>. QED
  BY <1>2, <1>3, CommitsSucceed DEF AddToken, Writes, tables

LEMMA TakesAwayIsStep ==
    ASSUME Access, NEW gone, docs' = Without(docs, gone), UNCHANGED reply,
           gone \subseteq Stale
    PROVE  Docs!Next
<1>. DEFINE K == DOMAIN docs \ gone
<1>1. K \in Docs!Kept
  BY DEF Docs!Kept, Docs!Expiring
<1>2. docs' = Docs!Restrict(docs, K)
  BY DEF Without, Restrict, Docs!Restrict
<1>. QED  BY <1>1, <1>2 DEF Docs!Next

LEMMA DocumentsStep ==
    ASSUME ~CommitsMayFail, Clocks, Access, [Next]_vars
    PROVE  Access' /\ [Docs!Next]_<<docs, reply>>
<1>. DEFINE Goal == Access' /\ [Docs!Next]_<<docs, reply>>
<1>1. ASSUME NEW c \in Caller, NEW d \in DocID, NEW mode \in Docs!Modes,
             NEW init \in Contents, GetDocument(c, d, mode, init)
      PROVE  Goal
  BY <1>1, GetDocumentIsCall, CallIsStep DEF Docs!Call
<1>2. ASSUME NEW c \in Caller, NEW d \in DocID, NEW offset \in 0..(MaxLength + 1),
             NEW new \in Contents, AppendDocument(c, d, offset, new)
      PROVE  Goal
  <2>1. offset \in Nat
    BY BoundsAssumption
  <2>2. Access' /\ Docs!AppendDocument(docs, d, offset, new)
    BY <1>2, <2>1, AppendDocumentIsCall
  <2>. QED  BY <2>2, CallIsStep DEF Docs!Call
<1>3. ASSUME NEW c \in Caller, NEW d \in DocID, NEW new \in Contents,
             AppendFails(c, d, new)
      PROVE  Goal
  BY <1>3, AppendFailsIsFail, FailIsStep
<1>4. ASSUME NEW c \in Caller, StartCall(c) PROVE Goal
  <2>1. UNCHANGED <<docs, lastAccess, used, reply>>
    BY <1>4 DEF StartCall, tables
  <2>2. \/ pc' = [pc EXCEPT ![c] = "transaction"]
        \/ Expiration # 0 /\ pc' = [pc EXCEPT ![c] = "documents"]
    BY <1>4 DEF StartCall, MustClean, Goto
  <2>3. pc' \in [Caller -> Label]
    BY <2>2 DEF Access, Label
  <2>4. \A b \in Caller : pc'[b] = "documents" => Expiration # 0
    BY <2>2 DEF Access
  <2>. QED  BY <2>1, <2>3, <2>4 DEF Access
<1>5. ASSUME NEW c \in Caller, CleanDocuments(c) PROVE Goal
  <2>1. Docs!Next
    BY <1>5, ExpiredIsStale, TakesAwayIsStep DEF CleanDocuments
  <2>2. StartsNoCleaning
    BY <1>5, NobodyStarts DEF CleanDocuments, Goto, Label
  <2>3. Access'
    BY <1>5, <2>2, WithoutKeepsAccess DEF CleanDocuments
  <2>. QED  BY <2>1, <2>3
<1>6. ASSUME NEW c \in Caller, CleanTokens(c) \/ CleanMarks(c) PROVE Goal
  <2>1. UNCHANGED <<docs, lastAccess, used, reply>>
    BY <1>6 DEF CleanTokens, CleanMarks, tables
  <2>2. CASE CleanTokens(c)
    <3>1. StartsNoCleaning
      BY <2>2, NobodyStarts DEF CleanTokens, Goto, Label
    <3>. QED  BY <2>1, <3>1, RestKeepsAccess
  <2>3. CASE CleanMarks(c)
    <3>1. StartsNoCleaning
      BY <2>3, NobodyStarts DEF CleanMarks, Goto, Label
    <3>. QED  BY <2>1, <3>1, RestKeepsAccess
  <2>. QED  BY <1>6, <2>2, <2>3
<1>7. ASSUME NEW c \in Caller, CallFails(c) PROVE Goal
  <2>1. UNCHANGED <<docs, lastAccess, used>> /\ reply' = Docs!Failed
    BY <1>7 DEF CallFails, tables
  <2>2. StartsNoCleaning
    BY <1>7, NobodyStarts DEF CallFails, Goto, Label
  <2>3. Docs!Fail(docs)
    BY <2>1 DEF Docs!Fail
  <2>. QED  BY <2>1, <2>2, <2>3, RestKeepsAccess, FailIsStep
<1>8. ASSUME NEW d \in DocID, DeleteDocument(d) PROVE Goal
  <2>1. Docs!DeleteDocument(docs, d)
    BY <1>8 DEF DeleteDocument, Docs!DeleteDocument, Without, Restrict,
                Docs!Restrict
  <2>2. Access'
    BY <1>8, RestIsNoCleaning, WithoutKeepsAccess DEF DeleteDocument
  <2>. QED  BY <2>1, <2>2, CallIsStep DEF Docs!Call
<1>9. ASSUME NEW d \in DocID, NEW t, NEW u, NEW p, NEW e,
             NEW contents \in Contents, AddToken(t, d, u, p, e, contents)
      PROVE  Goal
  BY <1>9, AddTokenIsCall, CallIsStep DEF Docs!Call
<1>10. ASSUME NEW d, NEW v, NEW name, NEW w, SetDocumentKey(d, v, name, w)
       PROVE  Goal
  <2>1. UNCHANGED <<docs, lastAccess, used, pc, reply>>
    BY <1>10, CommitsSucceed DEF SetDocumentKey
  <2>. QED  BY <2>1, RestIsNoCleaning, RestKeepsAccess
<1>11. ASSUME NEW u, NEW p, UpdateUser(u, p) PROVE Goal
  <2>1. UNCHANGED <<docs, lastAccess, used, pc, reply>>
    BY <1>11, CommitsSucceed DEF UpdateUser
  <2>. QED  BY <2>1, RestIsNoCleaning, RestKeepsAccess
<1>12. ASSUME Restart \/ Tick \/ UNCHANGED vars PROVE Goal
  <2>1. UNCHANGED <<docs, lastAccess, used, reply>>
    BY <1>12 DEF Restart, Tick, vars, tables
  <2>2. StartsNoCleaning
    BY <1>12 DEF Restart, Tick, vars, Access, StartsNoCleaning, Label
  <2>. QED  BY <2>1, <2>2, RestKeepsAccess
<1>13. ASSUME NEW c \in Caller, Step(c) PROVE Goal
  <2>. HIDE DEF Goal
  <2>. QED  BY <1>1, <1>2, <1>3, <1>4, <1>5, <1>6, <1>7, <1>13 DEF Step
<1>. HIDE DEF Goal
<1>14. ASSUME NEW d \in DocID, NEW name \in KeyName, NEW v \in 0..MaxVersion,
              NEW w \in 1..MaxVersion, SetDocumentKey(d, v, name, w)
       PROVE  Goal
  BY <1>10, <1>14
<1>15. ASSUME NEW d \in DocID, NEW t \in TokenID, NEW u \in User,
              NEW p \in Permission, NEW e \in {now, MaxTime},
              NEW contents \in Contents, AddToken(t, d, u, p, e, contents)
       PROVE  Goal
  BY <1>9, <1>15
<1>16. Goal
  BY <1>8, <1>11, <1>12, <1>13, <1>14, <1>15 DEF Next
<1>. QED  BY <1>16 DEF Goal

\* As long as every COMMIT succeeds SQLxDocumentDB is a DocumentDB (socket.go:
\* 48-89), however many callers clean, fail and restart in between (sqlxdb.go:
\* 57-150).
THEOREM ImplementsDocuments == ~CommitsMayFail /\ Spec => IsDocumentDB
<1>. SUFFICES ASSUME ~CommitsMayFail PROVE Spec => IsDocumentDB
  OBVIOUS
<1>1. Init => Docs!Init
  <2>. SUFFICES ASSUME Init PROVE Docs!Init
    OBVIOUS
  <2>1. docs = [d \in {} |-> <<>>]
    BY DEF Init, Empty
  <2>. QED  BY <2>1 DEF Init, Docs!Init
<1>2. Clocks /\ Access /\ [Next]_vars =>
          Clocks' /\ Access' /\ [Docs!Next]_<<docs, reply>>
  BY ClocksStep, DocumentsStep
<1>. QED
  BY <1>1, <1>2, ClocksInit, AccessInit, PTL DEF Spec, IsDocumentDB, Docs!Spec

-----------------------------------------------------------------------------
(***************************************************************************)
(* Types.  Each table is written with a row of its type, or keeps some of  *)
(* its rows, and a COMMIT that fails leaves all three.                     *)
(***************************************************************************)
DocRows(D, A) == /\ DOMAIN D \subseteq DocID
                 /\ D \in [DOMAIN D -> Seq(Unit)]
                 /\ A \in [DOMAIN D -> Nat]
KeyRows(K) == /\ DOMAIN K \subseteq DocID \X KeyName
              /\ K \in [DOMAIN K -> 1..MaxVersion]
Tables == /\ DocRows(docs, lastAccess) /\ KeyRows(keys)
          /\ DOMAIN tokens \subseteq TokenID
Callers == lastClean \in Nat /\ pc \in [Caller -> Label]

LEMMA WithoutIsTable ==
    ASSUME NEW f, NEW D, NEW T, NEW S, f \in [D -> T]
    PROVE  Without(f, S) \in [D \ S -> T]
BY DEF Without, Restrict

LEMMA WithIsTable ==
    ASSUME NEW f, NEW D, NEW T, NEW x, NEW y \in T, f \in [D -> T]
    PROVE  Docs!With(f, x, y) \in [D \cup {x} -> T]
BY DEF Docs!With

LEMMA CommitKeepsTables ==
    ASSUME Tables, NEW D, NEW A, NEW K, NEW T, Commit(D, A, K, T),
           DocRows(D, A), KeyRows(K), DOMAIN T \subseteq TokenID
    PROVE  Tables'
BY DEF Tables, Commit, tables, DocRows, KeyRows

\* A new document has its rows, and one that is written keeps them.
LEMMA WrittenRows ==
    ASSUME DocRows(docs, lastAccess), NEW d \in DocID, NEW data \in Seq(Unit),
           NEW t \in Nat
    PROVE  /\ DocRows(Docs!With(docs, d, data), Docs!With(lastAccess, d, t))
           /\ d \in DOMAIN docs => /\ DocRows([docs EXCEPT ![d] = data], lastAccess)
                                   /\ DocRows([docs EXCEPT ![d] = data],
                                              [lastAccess EXCEPT ![d] = t])
                                   /\ DocRows(docs, [lastAccess EXCEPT ![d] = t])
<1>1. /\ Docs!With(docs, d, data) \in [DOMAIN docs \cup {d} -> Seq(Unit)]
      /\ Docs!With(lastAccess, d, t) \in [DOMAIN docs \cup {d} -> Nat]
  BY WithIsTable DEF DocRows
<1>2. DocRows(Docs!With(docs, d, data), Docs!With(lastAccess, d, t))
  BY <1>1 DEF DocRows
<1> QED BY <1>2 DEF DocRows

LEMMA TakenRows ==
    ASSUME DocRows(docs, lastAccess), KeyRows(keys), NEW gone
    PROVE  /\ DocRows(Without(docs, gone), Without(lastAccess, gone))
           /\ KeyRows(Cascade(gone))
<1>1. /\ Without(docs, gone) \in [DOMAIN docs \ gone -> Seq(Unit)]
      /\ Without(lastAccess, gone) \in [DOMAIN docs \ gone -> Nat]
  BY WithoutIsTable DEF DocRows
<1>2. ASSUME NEW S PROVE KeyRows(Without(keys, S))
  <2>1. Without(keys, S) \in [DOMAIN keys \ S -> 1..MaxVersion]
    BY WithoutIsTable DEF KeyRows
  <2>2. DOMAIN Without(keys, S) = DOMAIN keys \ S
    BY <2>1
  <2>3. DOMAIN keys \ S \subseteq DocID \X KeyName
    BY DEF KeyRows
  <2> QED BY <2>1, <2>2, <2>3 DEF KeyRows
<1>3. KeyRows(Cascade(gone))
  BY <1>2 DEF Cascade
<1>4. DOMAIN docs \ gone \subseteq DocID
  BY DEF DocRows
<1>5. DOMAIN Without(docs, gone) = DOMAIN docs \ gone
  BY <1>1
<1>6. DocRows(Without(docs, gone), Without(lastAccess, gone))
  BY <1>1, <1>4, <1>5 DEF DocRows
<1> QED BY <1>3, <1>6

LEMMA ContentsAreData == \A new \in Contents : new \in Seq(Unit)
BY ContentsAssumption

LEMMA AppendedRows ==
    ASSUME DocRows(docs, lastAccess), Clocks, NEW d \in DOMAIN docs,
           NEW new \in Contents
    PROVE  /\ DocRows([docs EXCEPT ![d] = @ \o new], lastAccess)
           /\ DocRows([docs EXCEPT ![d] = @ \o new], [lastAccess EXCEPT ![d] = now])
<1>1. docs[d] \in Seq(Unit) /\ new \in Seq(Unit) /\ d \in DocID /\ now \in Nat
  BY ContentsAreData DEF DocRows, Clocks
<1>2. docs[d] \o new \in Seq(Unit)
  BY <1>1
<1> QED BY <1>1, <1>2, WrittenRows

LEMMA TablesStep ==
    ASSUME Tables, Clocks, [Next]_vars
    PROVE  Tables'
<1>o. DocRows(docs, lastAccess) /\ KeyRows(keys) /\ DOMAIN tokens \subseteq TokenID
      /\ now \in Nat
  BY DEF Tables, Clocks
<1>u. ASSUME UNCHANGED <<docs, lastAccess, keys>>, DOMAIN tokens' \subseteq DOMAIN tokens
      PROVE  Tables'
  BY <1>u DEF Tables
<1>1. ASSUME NEW c \in Caller, NEW d \in DocID, NEW mode, NEW init \in Contents,
             GetDocument(c, d, mode, init)
      PROVE  Tables'
  <2>1. CASE UNCHANGED tables
    BY <2>1, <1>u DEF tables
  <2>2. CASE Commit(Docs!With(docs, d, init), Docs!With(lastAccess, d, now),
                    keys, tokens)
    <3>1. init \in Seq(Unit)
      BY ContentsAreData
    <3>2. DocRows(Docs!With(docs, d, init), Docs!With(lastAccess, d, now))
      BY <1>o, <3>1, WrittenRows
    <3> QED BY <1>o, <2>2, <3>2, CommitKeepsTables
  <2>3. CASE /\ d \in DOMAIN docs
             /\ Commit(docs, [lastAccess EXCEPT ![d] = now], keys, tokens)
    <3>1. DocRows(docs, [lastAccess EXCEPT ![d] = now])
      BY <1>o, <2>3 DEF DocRows
    <3> QED BY <1>o, <2>3, <3>1, CommitKeepsTables
  <2> QED BY <1>1, <2>1, <2>2, <2>3 DEF GetDocument
<1>2. ASSUME NEW c \in Caller, NEW d \in DocID, NEW offset, NEW new \in Contents,
             AppendDocument(c, d, offset, new)
      PROVE  Tables'
  <2>1. CASE UNCHANGED tables
    BY <2>1, <1>u DEF tables
  <2>2. CASE /\ d \in DOMAIN docs
             /\ Commit([docs EXCEPT ![d] = @ \o new],
                       [lastAccess EXCEPT ![d] = now], keys, tokens)
    BY <1>o, <2>2, AppendedRows, CommitKeepsTables
  <2> QED BY <1>2, <2>1, <2>2 DEF AppendDocument
<1>3. ASSUME NEW c \in Caller, NEW d \in DocID, NEW new \in Contents,
             AppendFails(c, d, new)
      PROVE  Tables'
  BY <1>o, <1>3, AppendedRows, CommitKeepsTables DEF AppendFails
<1>4. ASSUME NEW c \in Caller, CleanDocuments(c) PROVE Tables'
  BY <1>o, <1>4, TakenRows DEF CleanDocuments, Tables
<1>5. ASSUME NEW c \in Caller, CleanTokens(c) PROVE Tables'
  <2>1. DOMAIN tokens' = DOMAIN tokens \ ExpiredTokens(c)
    BY <1>5, WithoutDomain DEF CleanTokens
  <2>2. UNCHANGED <<docs, lastAccess, keys>>
    BY <1>5 DEF CleanTokens
  <2> QED BY <2>1, <2>2, <1>u
<1>6. ASSUME NEW c \in Caller, StartCall(c) \/ CleanMarks(c) \/ CallFails(c)
      PROVE  Tables'
  BY <1>6, <1>u DEF StartCall, CleanMarks, CallFails, tables
<1>7. ASSUME NEW d \in DocID, DeleteDocument(d) PROVE Tables'
  BY <1>o, <1>7, TakenRows DEF DeleteDocument, Tables
<1>8. ASSUME NEW d \in DocID, NEW name \in KeyName, NEW v, NEW w \in 1..MaxVersion,
             SetDocumentKey(d, v, name, w)
      PROVE  Tables'
  <2>1. Docs!With(keys, <<d, name>>, w) \in
            [DOMAIN keys \cup {<<d, name>>} -> 1..MaxVersion]
    BY <1>o, WithIsTable DEF KeyRows
  <2>2. KeyRows(Docs!With(keys, <<d, name>>, w))
    BY <1>o, <2>1 DEF KeyRows
  <2> QED BY <1>o, <1>8, <2>2, CommitKeepsTables DEF SetDocumentKey, NewKey
<1>9. ASSUME NEW t \in TokenID, NEW d \in DocID, NEW u, NEW p, NEW e,
             NEW contents \in Contents, AddToken(t, d, u, p, e, contents)
      PROVE  Tables'
  <2> DEFINE token == [doc |-> d, user |-> u, permissions |-> p, expiration |-> e]
  <2>1. DOMAIN Docs!With(tokens, t, token) \subseteq TokenID
    BY <1>o DEF Docs!With
  <2>2. DocRows(Docs!With(docs, d, contents), Docs!With(lastAccess, d, now))
    BY <1>o, ContentsAreData, WrittenRows
  <2>3. \/ UNCHANGED tables
        \/ Commit(Docs!With(docs, d, contents), Docs!With(lastAccess, d, now),
                  keys, Docs!With(tokens, t, token))
        \/ Commit(docs, lastAccess, keys, Docs!With(tokens, t, token))
    BY <1>9 DEF AddToken
  <2> HIDE DEF token
  <2>4. UNCHANGED tables => Tables'
    BY <1>u DEF tables
  <2> QED BY <1>o, <2>1, <2>2, <2>3, <2>4, CommitKeepsTables
<1>10. ASSUME NEW u, NEW p, UpdateUser(u, p) PROVE Tables'
  <2>1. UNCHANGED <<docs, lastAccess, keys>> /\ DOMAIN tokens' = DOMAIN tokens
    BY <1>10 DEF UpdateUser, Commit, tables
  <2> QED BY <2>1, <1>u
<1>11. CASE Restart \/ Tick \/ UNCHANGED vars
  BY <1>11, <1>u DEF Restart, Tick, vars, tables
<1>12. ASSUME NEW c \in Caller, Step(c) PROVE Tables'
  BY <1>1, <1>2, <1>3, <1>4, <1>5, <1>6, <1>12 DEF Step
<1> QED BY <1>7, <1>8, <1>9, <1>10, <1>11, <1>12 DEF Next

LEMMA CallersStep ==
    ASSUME Callers, Clocks, [Next]_vars
    PROVE  Callers'
<1>1. ASSUME NEW c \in Caller, NEW label \in Label, Goto(c, label),
             lastClean' \in {lastClean, cleanTime[c]}
      PROVE  Callers'
  BY <1>1 DEF Callers, Clocks, Goto
<1>l. {"idle", "documents", "tokens", "mark", "transaction"} = Label
  BY DEF Label
<1>2. ASSUME NEW c \in Caller, NEW answer, Answer(c, answer) PROVE Callers'
  BY <1>1, <1>2, <1>l DEF Answer
<1>3. ASSUME NEW c \in Caller, NEW d, NEW mode, NEW init,
             GetDocument(c, d, mode, init)
      PROVE  Callers'
  BY <1>2, <1>3 DEF GetDocument
<1>4. ASSUME NEW c \in Caller, NEW d, NEW offset, NEW new,
             AppendDocument(c, d, offset, new) \/ AppendFails(c, d, new)
      PROVE  Callers'
  BY <1>2, <1>4 DEF AppendDocument, AppendFails
<1>5. ASSUME NEW c \in Caller, StartCall(c) PROVE Callers'
  BY <1>1, <1>5, <1>l DEF StartCall
<1>6. ASSUME NEW c \in Caller, CleanDocuments(c) \/ CleanTokens(c) PROVE Callers'
  BY <1>1, <1>6, <1>l DEF CleanDocuments, CleanTokens
<1>7. ASSUME NEW c \in Caller, CleanMarks(c) \/ CallFails(c) PROVE Callers'
  BY <1>1, <1>7, <1>l DEF CleanMarks, CallFails
<1>8. ASSUME NEW d, NEW v, NEW name, NEW w,
             DeleteDocument(d) \/ SetDocumentKey(d, v, name, w)
      PROVE  Callers'
  BY <1>8 DEF DeleteDocument, SetDocumentKey, Callers
<1>9. ASSUME NEW t, NEW d, NEW u, NEW p, NEW e, NEW contents,
             AddToken(t, d, u, p, e, contents)
      PROVE  Callers'
  BY <1>9 DEF AddToken, Callers
<1>10. ASSUME NEW u, NEW p, UpdateUser(u, p) PROVE Callers'
  BY <1>10 DEF UpdateUser, Callers
<1>11. CASE Restart \/ Tick \/ UNCHANGED vars
  BY <1>11, <1>l DEF Restart, Tick, vars, Callers
<1>12. ASSUME NEW c \in Caller, Step(c) PROVE Callers'
  BY <1>3, <1>4, <1>5, <1>6, <1>7, <1>12 DEF Step
<1> QED BY <1>8, <1>9, <1>10, <1>11, <1>12 DEF Next

LEMMA TablesInit == Init => Tables /\ Callers
<1> SUFFICES ASSUME Init PROVE Tables /\ Callers
  OBVIOUS
<1>1. /\ DOMAIN Empty = {}
      /\ \A T : Empty \in [{} -> T]
  BY DEF Empty
<1>2. Tables
  BY <1>1 DEF Init, Tables, DocRows, KeyRows
<1>3. Callers
  BY DEF Init, Callers, Label
<1> QED BY <1>2, <1>3

\* The tables and the state of the callers keep their types, and both columns of
\* ZwibblerDocs the same rows (sqlxdb.go:11-15, sqlitedb.go:8-33), whatever
\* fails or stops on the way; a token's permissions may be the name of a user,
\* where UpdateUser put it (sqlxdb.go:283).
THEOREM TypeCorrect == Spec => []TypeOK
<1>1. Tables /\ Callers /\ Clocks => TypeOK
  BY DEF Tables, Callers, Clocks, DocRows, KeyRows, Token, Label, TypeOK
<1>2. Tables /\ Callers /\ Clocks /\ [Next]_vars => (Tables /\ Callers /\ Clocks)'
  BY TablesStep, CallersStep, ClocksStep
<1> QED BY <1>1, <1>2, TablesInit, ClocksInit, PTL DEF Spec
=============================================================================
