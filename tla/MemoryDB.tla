------------------------------ MODULE MemoryDB ------------------------------
(***************************************************************************)
(* MemoryDocumentDB (memorydb.go): documents, keys and tokens in maps      *)
(* behind one mutex, so that every call is one step.  Documents are stale  *)
(* when nothing has touched them for more than Expiration, and clean looks *)
(* for them at most once in CleanInterval.                                 *)
(***************************************************************************)
EXTENDS Store

CONSTANT MaxEntries \* bound: entries in the list of keys of a document

ASSUME EntriesAssumption == MaxEntries \in Nat

VARIABLES
    docs,       \* db.docs: the data of each document
    lastAccess, \* document.lastAccess
    keys,       \* db.keys: of each document, a list of keys
    tokens,     \* db.tokens
    lastClean,  \* db.lastClean
    now,        \* the clock
    reply,      \* the last call on documents, with its answer
    used        \* history: when a document was last read or written

vars == <<docs, lastAccess, keys, tokens, lastClean, now, reply, used>>

\* "without any activity" for the time given to SetExpiration
Stale == {d \in DOMAIN docs : Expiration # 0 /\ now - used[d] > Expiration}

\* AddToken writes its contents even if there are none and the document exists.
Docs == INSTANCE Documents WITH Offsets <- 0..(MaxLength + 1),
                                stale <- Stale, unwritten <- {},
                                MissingIsEmpty <- FALSE,
                                PutReplaces <- TRUE,
                                OnlyWritesCount <- FALSE,
                                MayFail <- FALSE, Doubtful <- {}

Key == [name: KeyName, version: 1..MaxVersion]

Init ==
    /\ docs = Empty
    /\ lastAccess = Empty
    /\ keys = [d \in DocID |-> <<>>]
    /\ tokens = Empty
    /\ lastClean = 0
    /\ now = CleanInterval
    /\ reply = Docs!NoReply
    /\ used = [d \in DocID |-> 0]

(***************************************************************************)
(* clean, the first thing GetDocument and AppendDocument do                *)
(***************************************************************************)
MustClean == Expiration # 0 /\ now - lastClean >= CleanInterval

\* Mutant: the period starts with the last cleaning.
ExpiredSinceClean == IF MustClean THEN {d \in DOMAIN docs :
                                        now - lastClean > Expiration}
                                  ELSE {}

Expired == IF MustClean THEN {d \in DOMAIN docs : now - lastAccess[d] > Expiration}
                        ELSE {}

\* if token.expiration > time.Now().Unix() { delete(db.tokens, tokenid) }
DroppedTokens == IF MustClean THEN {t \in DOMAIN tokens :
                                    tokens[t].expiration > now}
                              ELSE {}

Clean ==
    /\ keys' = [d \in DocID |-> IF d \in Expired THEN <<>> ELSE keys[d]]
    /\ tokens' = Without(tokens, DroppedTokens)
    /\ lastClean' = IF MustClean THEN now ELSE lastClean

Fresh == Without(docs, Expired)
FreshAccess == Without(lastAccess, Expired)

(***************************************************************************)
(* Documents                                                               *)
(***************************************************************************)
GetDocument(d, mode, init) ==
    /\ Clean
    /\ \/ /\ d \notin DOMAIN Fresh
          /\ mode = "never"
          /\ docs' = Fresh
          /\ lastAccess' = FreshAccess
          /\ reply' = Docs!Got(d, mode, init, "missing", <<>>)
          /\ UNCHANGED used
       \/ /\ d \in DOMAIN Fresh
          /\ mode = "always"
          /\ docs' = Fresh
          /\ lastAccess' = FreshAccess
          /\ reply' = Docs!Got(d, mode, init, "exists", <<>>)
          /\ UNCHANGED used
       \/ /\ IF d \in DOMAIN Fresh THEN mode # "always" ELSE mode # "never"
          /\ docs' = IF d \in DOMAIN Fresh THEN Fresh
                                           ELSE Docs!With(Fresh, d, init)
          /\ lastAccess' = Docs!With(FreshAccess, d, now)
          /\ reply' = Docs!Got(d, mode, init,
                               IF d \in DOMAIN Fresh THEN "ok" ELSE "created",
                               docs'[d])
          /\ used' = [used EXCEPT ![d] = now]
    /\ UNCHANGED now

\* uint64(len(doc.data)) == oldLength
AtEnd(offset, data) == offset = Len(data)

AppendDocument(d, offset, new) ==
    /\ Clean
    /\ \/ /\ d \notin DOMAIN Fresh
          /\ docs' = Fresh
          /\ lastAccess' = FreshAccess
          /\ reply' = Docs!Appended(d, offset, new, "missing", 0)
          /\ UNCHANGED used
       \/ /\ d \in DOMAIN Fresh
          /\ ~AtEnd(offset, Fresh[d])
          /\ docs' = Fresh
          /\ lastAccess' = FreshAccess
          /\ reply' = Docs!Appended(d, offset, new, "conflict", Len(Fresh[d]))
          /\ UNCHANGED used
       \/ /\ d \in DOMAIN Fresh
          /\ AtEnd(offset, Fresh[d])
          /\ Len(Fresh[d] \o new) <= MaxLength
          /\ docs' = Docs!With(Fresh, d, Fresh[d] \o new)
          /\ lastAccess' = Docs!With(FreshAccess, d, now)
          /\ reply' = Docs!Appended(d, offset, new, "ok", Len(Fresh[d] \o new))
          /\ used' = [used EXCEPT ![d] = now]
    /\ UNCHANGED now

DeleteDocument(d) ==
    /\ docs' = Without(docs, {d})
    /\ lastAccess' = Without(lastAccess, {d})
    /\ keys' = [keys EXCEPT ![d] = <<>>]
    /\ reply' = Docs!Deleted(d)
    /\ UNCHANGED <<tokens, lastClean, now, used>>

(***************************************************************************)
(* Keys: the first one of a name counts; a key that is set is appended.    *)
(***************************************************************************)
Entries(d, name) == SelectSeq(keys[d], LAMBDA k : k.name = name)

\* Mutant: the version the caller replaces is stored.
OldKey(name, oldVersion, version) == [name |-> name, version |-> oldVersion]

NewKey(name, oldVersion, version) == [name |-> name, version |-> version]

SetDocumentKey(d, oldVersion, name, version) ==
    /\ Len(keys[d]) < MaxEntries
    /\ LET existing == Entries(d, name) IN
       existing # <<>> => Head(existing).version = oldVersion
    /\ keys' = [keys EXCEPT ![d] = Append(@, NewKey(name, oldVersion, version))]
    /\ UNCHANGED <<docs, lastAccess, tokens, lastClean, now, reply, used>>

(***************************************************************************)
(* Tokens                                                                  *)
(***************************************************************************)
\* Every document has a name: the test for one is left out.
AddToken(t, d, u, p, expiration, contents) ==
    /\ t \notin DOMAIN tokens
    /\ \/ /\ d \in DOMAIN docs
          /\ contents # <<>>
          /\ reply' = Docs!Put(d, contents, "conflict")
          /\ UNCHANGED <<docs, lastAccess, tokens, used>>
       \/ /\ d \notin DOMAIN docs \/ contents = <<>>
          /\ tokens' = Docs!With(tokens, t, [doc |-> d, user |-> u,
                                  permissions |-> p, expiration |-> expiration])
          /\ docs' = Docs!With(docs, d, contents)
          /\ lastAccess' = Docs!With(lastAccess, d, now)
          /\ reply' = Docs!Put(d, contents, "ok")
          /\ used' = [used EXCEPT ![d] = now]
    /\ UNCHANGED <<keys, lastClean, now>>

UpdateUser(u, p) ==
    /\ tokens' = [t \in DOMAIN tokens |->
                     IF tokens[t].user = u
                     THEN [tokens[t] EXCEPT !.permissions = p] ELSE tokens[t]]
    /\ UNCHANGED <<docs, lastAccess, keys, lastClean, now, reply, used>>

Tick == /\ now < MaxTime
        /\ now' = now + 1
        /\ UNCHANGED <<docs, lastAccess, keys, tokens, lastClean, reply, used>>

Next ==
    \/ \E d \in DocID :
          \/ \E mode \in Docs!Modes, init \in Contents : GetDocument(d, mode, init)
          \/ \E offset \in 0..(MaxLength + 1), new \in Contents :
                AppendDocument(d, offset, new)
          \/ DeleteDocument(d)
          \/ \E name \in KeyName, v \in 0..MaxVersion, w \in 1..MaxVersion :
                SetDocumentKey(d, v, name, w)
          \/ \E t \in TokenID, u \in User, p \in Permission,
                e \in {now, MaxTime}, contents \in Contents :
                AddToken(t, d, u, p, e, contents)
    \/ \E u \in User, p \in Permission : UpdateUser(u, p)
    \/ Tick

Spec == Init /\ [][Next]_vars

-----------------------------------------------------------------------------
(***************************************************************************)
(* Properties                                                              *)
(***************************************************************************)

\* Every variable has its type (memorydb.go:10-30).
TypeOK ==
    /\ DOMAIN docs \subseteq DocID /\ DOMAIN lastAccess = DOMAIN docs
    /\ \A d \in DOMAIN docs : docs[d] \in Seq(Unit)
    /\ \A d \in DOMAIN docs : lastAccess[d] \in Nat
    /\ keys \in [DocID -> Seq(Key)]
    /\ DOMAIN tokens \subseteq TokenID
    /\ \A t \in DOMAIN tokens :
          tokens[t] \in [doc: DocID, user: User, permissions: Permission,
                         expiration: Nat]
    /\ {lastClean, now} \subseteq Nat

\* MemoryDocumentDB keeps the promises of the DocumentDB interface about
\* documents (socket.go:48-89, memorydb.go:87-134, 164-195), but for one: AddToken
\* may replace a document.
IsDocumentDB == Docs!Spec
=============================================================================
