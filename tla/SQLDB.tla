------------------------------- MODULE SQLDB --------------------------------
(***************************************************************************)
(* SQLxDocumentDB (sqlxdb.go) on the tables of sqlitedb.go, mariadb.go and *)
(* postgresql.go.                                                          *)
(*                                                                         *)
(* There is one connection (SetMaxOpenConns), so that a transaction has    *)
(* the database to itself from BEGIN to COMMIT and is one step.  But clean *)
(* works outside of it: it reads lastClean, deletes documents, deletes     *)
(* tokens and writes lastClean, and other callers come in between.         *)
(*                                                                         *)
(* A statement that fails panics; the deferred Commit then stores what the *)
(* transaction did so far, unless the server refuses (PostgreSQL).  The    *)
(* process may stop at any time and start again on the same tables.        *)
(***************************************************************************)
EXTENDS Store

CONSTANTS
    Caller,         \* goroutines that call the database
    CommitsMayFail  \* whether a COMMIT may fail, of which nobody is told

VARIABLES
    docs, lastAccess, \* ZwibblerDocs: data and lastAccess of each document
    keys,       \* ZwibblerKeys: the version of each <<docID, name>>
    tokens,     \* ZwibblerTokens
    lastClean,  \* db.lastClean
    now,        \* the clock
    pc,         \* of each caller: where it is in GetDocument, AppendDocument
    cleanTime,  \* of each caller: now of clean
    reply,      \* the last call on documents, with its answer
    used        \* history: when a document was last read or written

tables == <<docs, lastAccess, keys, tokens>>
vars == <<tables, lastClean, now, pc, cleanTime, reply, used>>

\* "without any activity" for the time given to SetExpiration
Stale == {d \in DOMAIN docs : Expiration # 0 /\ now - used[d] > Expiration}

Docs == INSTANCE Documents WITH Offsets <- 0..(MaxLength + 1),
                                stale <- Stale, unwritten <- {},
                                MissingIsEmpty <- FALSE,
                                PutReplaces <- FALSE,
                                OnlyWritesCount <- FALSE,
                                MayFail <- TRUE, Doubtful <- {"append"}

Init ==
    /\ docs = Empty
    /\ lastAccess = Empty
    /\ keys = Empty
    /\ tokens = Empty
    /\ lastClean = 0
    /\ now = CleanInterval
    /\ pc = [c \in Caller |-> "idle"]
    /\ cleanTime = [c \in Caller |-> 0]
    /\ reply = Docs!NoReply
    /\ used = [d \in DocID |-> 0]

Goto(c, label) == pc' = [pc EXCEPT ![c] = label]

\* tx.Commit(), the result of which is ignored.
Commit(newDocs, newAccess, newKeys, newTokens) ==
    \/ /\ docs' = newDocs
       /\ lastAccess' = newAccess
       /\ keys' = newKeys
       /\ tokens' = newTokens
    \/ CommitsMayFail /\ UNCHANGED tables

\* Mutant: the connection enforces no foreign keys.
KeepKeys(gone) == keys

\* ON DELETE CASCADE, for the documents that go.
Cascade(gone) == Without(keys, {r \in DOMAIN keys : r[1] \in gone})

(***************************************************************************)
(* clean, the first thing GetDocument and AppendDocument do                *)
(***************************************************************************)
MustClean == Expiration # 0 /\ now - lastClean >= CleanInterval

\* Somebody is about to write lastClean, a structure of several words: who
\* reads it at the same time may find anything.
Torn == \E other \in Caller : pc[other] = "mark"

StartCall(c) ==
    /\ pc[c] = "idle"
    /\ \/ /\ ~MustClean \/ Torn
          /\ Goto(c, "transaction")
          /\ UNCHANGED cleanTime
       \/ /\ MustClean \/ (Expiration # 0 /\ Torn)
          /\ Goto(c, "documents")
          /\ cleanTime' = [cleanTime EXCEPT ![c] = now]
    /\ UNCHANGED <<tables, lastClean, now, reply, used>>

\* Mutant: those that are as old as the expiration go, too.
ExpiredOrDue(c) == {d \in DOMAIN docs : lastAccess[d] + Expiration <= cleanTime[c]}

\* lastAccess < now.Unix()-seconds
Expired(c) == {d \in DOMAIN docs : lastAccess[d] + Expiration < cleanTime[c]}

CleanDocuments(c) ==
    /\ pc[c] = "documents"
    /\ docs' = Without(docs, Expired(c))
    /\ lastAccess' = Without(lastAccess, Expired(c))
    /\ keys' = Cascade(Expired(c))
    /\ Goto(c, "tokens")
    /\ UNCHANGED <<tokens, lastClean, now, cleanTime, reply, used>>

\* Mutant: the comparison of MemoryDocumentDB.
NotExpired(c) == {t \in DOMAIN tokens : tokens[t].expiration > cleanTime[c]}

\* expiration < now.Unix()
ExpiredTokens(c) == {t \in DOMAIN tokens : tokens[t].expiration < cleanTime[c]}

CleanTokens(c) ==
    /\ pc[c] = "tokens"
    /\ tokens' = Without(tokens, ExpiredTokens(c))
    /\ Goto(c, "mark")
    /\ UNCHANGED <<docs, lastAccess, keys, lastClean, now, cleanTime, reply, used>>

CleanMarks(c) ==
    /\ pc[c] = "mark"
    /\ lastClean' = cleanTime[c]
    /\ Goto(c, "transaction")
    /\ cleanTime' = [cleanTime EXCEPT ![c] = 0]
    /\ UNCHANGED <<tables, now, reply, used>>

(***************************************************************************)
(* Documents.  What a call was given matters from its transaction on.      *)
(***************************************************************************)
Answer(c, answer) ==
    /\ pc[c] = "transaction"
    /\ Goto(c, "idle")
    /\ reply' = answer
    /\ UNCHANGED <<lastClean, now, cleanTime>>

GetDocument(c, d, mode, init) ==
    \/ /\ d \notin DOMAIN docs /\ mode = "never"
       /\ Answer(c, Docs!Got(d, mode, init, "missing", <<>>))
       /\ UNCHANGED <<tables, used>>
    \/ /\ d \in DOMAIN docs /\ mode = "always"
       /\ Answer(c, Docs!Got(d, mode, init, "exists", <<>>))
       /\ UNCHANGED <<tables, used>>
    \/ /\ d \notin DOMAIN docs /\ mode # "never"
       /\ Commit(Docs!With(docs, d, init), Docs!With(lastAccess, d, now),
                 keys, tokens)
       /\ Answer(c, Docs!Got(d, mode, init, "created", init))
       /\ used' = [used EXCEPT ![d] = now]
    \/ /\ d \in DOMAIN docs /\ mode # "always"
       /\ Commit(docs, [lastAccess EXCEPT ![d] = now], keys, tokens)
       /\ Answer(c, Docs!Got(d, mode, init, "ok", docs[d]))
       /\ used' = [used EXCEPT ![d] = now]

AppendDocument(c, d, offset, new) ==
    \/ /\ d \notin DOMAIN docs
       /\ Answer(c, Docs!Appended(d, offset, new, "missing", 0))
       /\ UNCHANGED <<tables, used>>
    \/ /\ d \in DOMAIN docs /\ offset # Len(docs[d])
       /\ Answer(c, Docs!Appended(d, offset, new, "conflict", Len(docs[d])))
       /\ UNCHANGED <<tables, used>>
    \/ /\ d \in DOMAIN docs /\ offset = Len(docs[d])
       /\ Len(docs[d] \o new) <= MaxLength
       /\ Commit([docs EXCEPT ![d] = @ \o new], [lastAccess EXCEPT ![d] = now],
                 keys, tokens)
       /\ Answer(c, Docs!Appended(d, offset, new, "ok", Len(docs[d] \o new)))
       /\ used' = [used EXCEPT ![d] = now]

\* The second UPDATE fails, and the first is committed.
AppendFails(c, d, new) ==
    /\ d \in DOMAIN docs
    /\ Len(docs[d] \o new) <= MaxLength
    /\ Commit([docs EXCEPT ![d] = @ \o new], lastAccess, keys, tokens)
    /\ Answer(c, Docs!Failed)
    /\ UNCHANGED used

\* Another statement of clean or of the transaction fails.
CallFails(c) ==
    /\ pc[c] \in {"documents", "tokens", "transaction"}
    /\ Goto(c, "idle")
    /\ reply' = Docs!Failed
    /\ cleanTime' = [cleanTime EXCEPT ![c] = 0]
    /\ UNCHANGED <<tables, lastClean, now, used>>

DeleteDocument(d) ==
    /\ docs' = Without(docs, {d})
    /\ lastAccess' = Without(lastAccess, {d})
    /\ keys' = Cascade({d})
    /\ reply' = Docs!Deleted(d)
    /\ UNCHANGED <<tokens, lastClean, now, pc, cleanTime, used>>

(***************************************************************************)
(* Keys                                                                    *)
(***************************************************************************)
\* Mutant: the version the caller replaces is stored.
OldKey(oldVersion, version) == oldVersion

NewKey(oldVersion, version) == version

\* The key exists in the version the caller names, or not at all and the caller
\* names 0; an INSERT needs the document to exist.
SetDocumentKey(d, oldVersion, name, version) ==
    /\ IF <<d, name>> \in DOMAIN keys
       THEN keys[<<d, name>>] = oldVersion
       ELSE oldVersion = 0 /\ d \in DOMAIN docs
    /\ Commit(docs, lastAccess,
              Docs!With(keys, <<d, name>>, NewKey(oldVersion, version)), tokens)
    /\ UNCHANGED <<lastClean, now, pc, cleanTime, reply, used>>

(***************************************************************************)
(* Tokens                                                                  *)
(***************************************************************************)
AddToken(t, d, u, p, expiration, contents) ==
    LET token == [doc |-> d, user |-> u, permissions |-> p,
                  expiration |-> expiration]
    IN
    /\ \/ /\ contents # <<>> /\ d \in DOMAIN docs
          /\ reply' = Docs!Put(d, contents, "conflict")
          /\ UNCHANGED <<tables, used>>
       \* UNIQUE fails, and the Rollback takes the document back
       \/ /\ contents # <<>> /\ d \notin DOMAIN docs /\ t \in DOMAIN tokens
          /\ reply' = Docs!Put(d, contents, "exists")
          /\ UNCHANGED <<tables, used>>
       \/ /\ contents # <<>> /\ d \notin DOMAIN docs /\ t \notin DOMAIN tokens
          /\ Commit(Docs!With(docs, d, contents), Docs!With(lastAccess, d, now),
                    keys, Docs!With(tokens, t, token))
          /\ reply' = Docs!Put(d, contents, "ok")
          /\ used' = [used EXCEPT ![d] = now]
       \/ /\ contents = <<>> /\ t \notin DOMAIN tokens
          /\ Commit(docs, lastAccess, keys, Docs!With(tokens, t, token))
          /\ UNCHANGED <<reply, used>>
    /\ UNCHANGED <<lastClean, now, pc, cleanTime>>

\* UPDATE ... SET permissions=? WHERE userID=?, executed with (userID,
\* permissions): the user's name becomes the permissions of whoever is called
\* what the permissions say.
UpdateUser(u, p) ==
    /\ Commit(docs, lastAccess, keys,
              [t \in DOMAIN tokens |->
                  IF tokens[t].user = p
                  THEN [tokens[t] EXCEPT !.permissions = u] ELSE tokens[t]])
    /\ UNCHANGED <<lastClean, now, pc, cleanTime, reply, used>>

\* GetToken: the answer, which changes nothing.
Valid(t) == t \in DOMAIN tokens /\ tokens[t].expiration > now

\* The process stops and is started again: callers are gone, the tables stay.
Restart ==
    /\ pc' = [c \in Caller |-> "idle"]
    /\ cleanTime' = [c \in Caller |-> 0]
    /\ lastClean' = 0
    /\ UNCHANGED <<tables, now, reply, used>>

Tick == /\ now < MaxTime
        /\ now' = now + 1
        /\ UNCHANGED <<tables, lastClean, pc, cleanTime, reply, used>>

Step(c) ==
    \/ StartCall(c)
    \/ CleanDocuments(c) \/ CleanTokens(c) \/ CleanMarks(c)
    \/ \E d \in DocID :
          \/ \E mode \in Docs!Modes, init \in Contents : GetDocument(c, d, mode, init)
          \/ \E offset \in 0..(MaxLength + 1), new \in Contents :
                AppendDocument(c, d, offset, new)
          \/ \E new \in Contents : AppendFails(c, d, new)
    \/ CallFails(c)

Next ==
    \/ \E c \in Caller : Step(c)
    \/ \E d \in DocID :
          \/ DeleteDocument(d)
          \/ \E name \in KeyName, v \in 0..MaxVersion, w \in 1..MaxVersion :
                SetDocumentKey(d, v, name, w)
          \/ \E t \in TokenID, u \in User, p \in Permission,
                e \in {now, MaxTime}, contents \in Contents :
                AddToken(t, d, u, p, e, contents)
    \/ \E u \in User, p \in Permission : UpdateUser(u, p)
    \/ Restart \/ Tick

Spec == Init /\ [][Next]_vars

-----------------------------------------------------------------------------
(***************************************************************************)
(* Properties                                                              *)
(***************************************************************************)

\* Every variable has its type, and both columns of ZwibblerDocs the same rows
\* (sqlxdb.go:11-15, sqlitedb.go:8-33).  The permissions of a token may be the
\* name of a user, where UpdateUser put it (sqlxdb.go:283).
TypeOK ==
    /\ DOMAIN docs \subseteq DocID /\ DOMAIN lastAccess = DOMAIN docs
    /\ \A d \in DOMAIN docs : docs[d] \in Seq(Unit) /\ lastAccess[d] \in Nat
    /\ DOMAIN keys \subseteq DocID \X KeyName
    /\ \A r \in DOMAIN keys : keys[r] \in 1..MaxVersion
    /\ DOMAIN tokens \subseteq TokenID
    /\ \A t \in DOMAIN tokens :
          tokens[t] \in [doc: DocID, user: User,
                         permissions: Permission \cup User, expiration: Nat]
    /\ {lastClean, now} \subseteq Nat
    /\ pc \in [Caller -> {"idle", "documents", "tokens", "mark", "transaction"}]
    /\ cleanTime \in [Caller -> Nat]

\* SQLxDocumentDB keeps the promises of the DocumentDB interface about
\* documents (socket.go:48-89), both of those that the other stores need an
\* exception from, however the cleaning of one caller interleaves with calls of
\* others (sqlxdb.go:57-150), statements fail (123) or the process restarts; as
\* long as every COMMIT succeeds.
IsDocumentDB == Docs!Spec

\* A document that is created again under the name of one that was deleted or
\* has expired finds none of its keys (the foreign key of ZwibblerKeys,
\* sqlitedb.go:17-24, sqlxdb.go:69, 182-225).
KeysHaveDocuments == \A r \in DOMAIN keys : r[1] \in DOMAIN docs

\* "If it does not exist or is expired, the error is ErrMissing" (socket.go:
\* 80-81): a token stays valid until it expires, whoever cleans with however
\* old a clock, and over restarts (sqlxdb.go:57-73, 258-276).
TokensLast == [][\A t \in TokenID :
                    Valid(t) => Valid(t)' \/ tokens[t].expiration <= now']_vars

\* "AppendDocument appends to the document if it exists and the oldLength
\* matches the actual one" (socket.go:55-56): when it reports success the data
\* is stored, in a document of the length it reports (sqlxdb.go:119-150).
AppendsAreStored ==
    [][(reply' # reply /\ reply'.call = "append" /\ reply'.result = "ok") =>
          /\ reply'.id \in DOMAIN docs'
          /\ Len(docs'[reply'.id]) = reply'.length]_vars
=============================================================================
