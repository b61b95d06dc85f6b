------------------------------ MODULE RedisDB -------------------------------
(***************************************************************************)
(* RedisDocumentDB (redisdb.go).  Every command, and every MULTI ... EXEC  *)
(* of a TxPipelined, is one step of the Redis server; a call is several of *)
(* them, guarded by WATCH (executeWatch), between which other callers, the *)
(* maintenance goroutine and the expiry of keys come in.                   *)
(*                                                                         *)
(* WATCH and the read after it are one step: a write between the two only  *)
(* makes the EXEC fail once more.  A "due" of 0 is a key without expiry.   *)
(*                                                                         *)
(* Any command may return an error, and what it asked for may have been    *)
(* done all the same.  What the client library does itself to repeat a     *)
(* command is left out.                                                    *)
(***************************************************************************)
EXTENDS Store

CONSTANTS
    Caller,         \* goroutines that call the database
    Server,         \* servers on the one Redis, each with its runMaintenance
    MaxCalls        \* bound: calls in a run

VARIABLES
    docs, docDue,     \* zwibbler:<docID>
    keys, keysDue,    \* zwibbler-keys:<docID>
    tokens, tokenDue, \* zwibbler-token:<tokenID>
    index,            \* zwibbler-user:<userID>
    now,              \* the clock
    pc, call,         \* of each caller: where it is, what it was called with
    dirty,            \* whether what a caller watches was changed
    todo,             \* tokens UpdateUser still has to look at
    maintenance,      \* of each server's goroutine: [at, listed, have]
    calls,            \* calls so far
    reply,            \* the last call on documents, with its answer
    written,          \* history: when a document was last written
    used,             \* history: when a document was last read or written
    late,             \* history: tokens added while maintenance was under way
    opened            \* history: documents that were got

store == <<docs, docDue, keys, keysDue, tokens, tokenDue, index>>
vars == <<store, now, pc, call, dirty, todo, maintenance, calls, reply,
          written, used, late, opened>>

\* When the clock moves on, the time f of a document is the expiration time ago.
Ago(f) == {d \in DOMAIN docs : Expiration # 0 /\ now + 1 - f[d] >= Expiration}

\* "without any activity" for the time given to SetExpiration; and that which
\* nothing was written to for that time, for a read does not renew the expiry.
Stale == Ago(used)
Unwritten == Ago(written)

\* APPEND makes a document that does not exist; AddToken does not WATCH the
\* document whose contents it sets; GET leaves the expiry alone.
Docs == INSTANCE Documents WITH Offsets <- 0..(MaxLength + 1),
                                stale <- Stale, unwritten <- Unwritten,
                                MissingIsEmpty <- TRUE,
                                PutReplaces <- TRUE,
                                OnlyWritesCount <- TRUE,
                                MayFail <- TRUE,
                                Doubtful <- {"get", "append", "put", "delete"}

Version(d, n) == IF n \in DOMAIN keys[d] THEN keys[d][n] ELSE 0
Ghost == ""    \* the user of a token that has no userID field
AtRest == [at |-> "rest", listed |-> [u \in User |-> {}], have |-> {}]

\* getRedisExpiration
Due == IF Expiration = 0 THEN 0 ELSE now + Expiration

Requests ==
    [call: {"get"}, doc: DocID, mode: Docs!Modes, data: Contents]
    \cup {r \in [call: {"append"}, doc: opened, offset: 0..MaxLength,
                data: Contents] : r.offset + Len(r.data) <= MaxLength}
    \cup [call: {"setkey"}, doc: opened, name: KeyName, old: 0..MaxVersion,
          version: 1..MaxVersion]
    \cup [call: {"addtoken"}, token: TokenID, doc: DocID, user: User,
          permissions: Permission, due: (now + 1)..MaxTime, data: Contents]
    \cup [call: {"updateuser"}, user: User, permissions: Permission]
    \cup [call: {"delete"}, doc: DocID]

\* What a caller WATCHes.
Watched(c) == CASE call[c].call \in {"get", "append"} -> <<"doc", call[c].doc>>
                [] call[c].call = "setkey" -> <<"keys", call[c].doc>>
                [] call[c].call = "addtoken" -> <<"token", call[c].token>>

\* The keys S are written: who of the callers watches one of them will fail.
Touch(callers, S) ==
    dirty' = [c \in Caller |->
                 IF c \in callers /\ pc[c] = "write" /\ Watched(c) \in S
                 THEN "yes" ELSE dirty[c]]

NoCall == [call |-> "none"]
Return(c) == /\ pc' = [pc EXCEPT ![c] = "idle"]
             /\ call' = [call EXCEPT ![c] = NoCall]
\* A call on documents is answered, or it was done and its answer is lost.
Answers(answer) == reply' \in {answer, Docs!Failed}

ToWrite(c) == /\ pc' = [pc EXCEPT ![c] = "write"]
              /\ UNCHANGED call
Reads(c, kind) == pc[c] = "read" /\ call[c].call = kind

\* Mutant: the transaction goes through whatever happened to the key.
CommitsAlways(c, kind) == pc[c] = "write" /\ call[c].call = kind

\* EXEC succeeds.
Commits(c, kind) ==
    pc[c] = "write" /\ call[c].call = kind /\ dirty[c] = "no"

Init ==
    /\ docs = Empty /\ docDue = [d \in DocID |-> 0]
    /\ keys = [d \in DocID |-> Empty] /\ keysDue = [d \in DocID |-> 0]
    /\ tokens = Empty /\ tokenDue = [t \in TokenID |-> 0]
    /\ index = [u \in User |-> {}]
    /\ now = 0
    /\ pc = [c \in Caller |-> "idle"]
    /\ call = [c \in Caller |-> NoCall]
    /\ dirty = [c \in Caller |-> "no"]
    /\ todo = [c \in Caller |-> {}]
    /\ maintenance = [s \in Server |-> AtRest]
    /\ calls = 0
    /\ reply = Docs!NoReply
    /\ written = [d \in DocID |-> 0]
    /\ used = [d \in DocID |-> 0]
    /\ late = {}
    /\ opened = {}

\* A call comes in.  The server appends and sets keys only for clients that
\* have opened the document.
Begin(c) ==
    /\ pc[c] = "idle"
    /\ calls < MaxCalls
    /\ calls' = calls + 1
    /\ \E r \in Requests : call' = [call EXCEPT ![c] = r]
    /\ pc' = [pc EXCEPT ![c] = "read"]
    /\ UNCHANGED <<store, now, dirty, todo, maintenance, reply, written, used,
                   late, opened>>

\* redis.TxFailedErr: executeWatch starts over.
Retry(c) ==
    /\ pc[c] = "write"
    /\ dirty[c] = "yes"
    /\ pc' = [pc EXCEPT ![c] = "read"]
    /\ dirty' = [dirty EXCEPT ![c] = "no"]
    /\ UNCHANGED <<store, now, call, todo, maintenance, calls, reply,
                   written, used, late, opened>>

\* A command fails before anything was done, and with it the call.
Fails(c) ==
    /\ pc[c] \in {"read", "write", "each"}
    /\ Return(c)
    /\ reply' = Docs!Failed
    /\ dirty' = [dirty EXCEPT ![c] = "no"]
    /\ todo' = [todo EXCEPT ![c] = {}]
    /\ UNCHANGED <<store, now, maintenance, calls, written, used, late, opened>>

(***************************************************************************)
(* Documents                                                               *)
(***************************************************************************)
GetDocumentReads(c) ==
    LET d == call[c].doc
        answer(result, data) == Docs!Got(d, call[c].mode, call[c].data, result, data)
    IN
    /\ Reads(c, "get")
    /\ \/ /\ d \in DOMAIN docs
          /\ Return(c)
          /\ IF call[c].mode = "always"
             THEN reply' = answer("exists", <<>>) /\ UNCHANGED <<used, opened>>
             ELSE /\ reply' = answer("ok", docs[d])
                  /\ used' = [used EXCEPT ![d] = now]
                  /\ opened' = opened \cup {d}
       \/ /\ d \notin DOMAIN docs
          /\ call[c].mode = "never"
          /\ Return(c)
          /\ reply' = answer("missing", <<>>)
          /\ UNCHANGED <<used, opened>>
       \/ /\ d \notin DOMAIN docs
          /\ call[c].mode # "never"
          /\ ToWrite(c)
          /\ UNCHANGED <<reply, used, opened>>
    /\ UNCHANGED <<store, now, dirty, todo, maintenance, calls, written, late>>

GetDocumentCreates(c) ==
    LET d == call[c].doc IN
    /\ Commits(c, "get")
    /\ docs' = Docs!With(docs, d, call[c].data)
    /\ docDue' = [docDue EXCEPT ![d] = Due]
    /\ Answers(Docs!Got(d, call[c].mode, call[c].data, "created", call[c].data))
    /\ written' = [written EXCEPT ![d] = now]
    /\ used' = [used EXCEPT ![d] = now]
    /\ opened' = IF reply' = Docs!Failed THEN opened ELSE opened \cup {d}
    /\ Touch(Caller \ {c}, {<<"doc", d>>})
    /\ Return(c)
    /\ UNCHANGED <<keys, keysDue, tokens, tokenDue, index, now, todo,
                   maintenance, calls, late>>

\* STRLEN of a key that does not exist is 0.
Length(d) == IF d \in DOMAIN docs THEN Len(docs[d]) ELSE 0

AppendDocumentReads(c) ==
    LET d == call[c].doc IN
    /\ Reads(c, "append")
    /\ \/ /\ Length(d) # call[c].offset
          /\ Return(c)
          /\ reply' = Docs!Appended(d, call[c].offset, call[c].data,
                                    "conflict", Length(d))
       \/ /\ Length(d) = call[c].offset
          /\ ToWrite(c)
          /\ UNCHANGED reply
    /\ UNCHANGED <<store, now, dirty, todo, maintenance, calls, written, used,
                   late, opened>>

\* APPEND creates the key if need be.
AppendDocumentWrites(c) ==
    LET d == call[c].doc
        old == IF d \in DOMAIN docs THEN docs[d] ELSE <<>>
    IN
    /\ Commits(c, "append")
    /\ docs' = Docs!With(docs, d, old \o call[c].data)
    /\ IF Expiration = 0 THEN UNCHANGED <<docDue, keysDue>>
       ELSE /\ docDue' = [docDue EXCEPT ![d] = Due]
            /\ keysDue' = [keysDue EXCEPT ![d] = IF keys[d] = Empty THEN @ ELSE Due]
    /\ Answers(Docs!Appended(d, call[c].offset, call[c].data, "ok",
                             call[c].offset + Len(call[c].data)))
    /\ written' = [written EXCEPT ![d] = now]
    /\ used' = [used EXCEPT ![d] = now]
    /\ Touch(Caller \ {c}, {<<"doc", d>>} \cup (IF Expiration = 0 \/ keys[d] = Empty THEN {}
                                 ELSE {<<"keys", d>>}))
    /\ Return(c)
    /\ UNCHANGED <<keys, tokens, tokenDue, index, now, todo, maintenance,
                   calls, late, opened>>

DeleteDocument(c) ==
    LET d == call[c].doc IN
    /\ Reads(c, "delete")
    /\ docs' = Without(docs, {d})
    /\ docDue' = [docDue EXCEPT ![d] = 0]
    /\ keys' = [keys EXCEPT ![d] = Empty]
    /\ keysDue' = [keysDue EXCEPT ![d] = 0]
    /\ Answers(Docs!Deleted(d))
    /\ Touch(Caller \ {c}, {<<"doc", d>>, <<"keys", d>>})
    /\ Return(c)
    /\ UNCHANGED <<tokens, tokenDue, index, now, todo, maintenance,
                   calls, written, used, late, opened>>

(***************************************************************************)
(* Keys                                                                    *)
(***************************************************************************)
SetDocumentKeyReads(c) ==
    /\ Reads(c, "setkey")
    /\ IF Version(call[c].doc, call[c].name) = call[c].old
       THEN ToWrite(c)
       ELSE Return(c)
    /\ UNCHANGED <<store, now, dirty, todo, maintenance, calls, reply, written,
                   used, late, opened>>

\* Mutant: the version that is replaced is stored.
OldVersion(r) == r.old

NewVersion(r) == r.version

SetDocumentKeyWrites(c) ==
    LET d == call[c].doc IN
    /\ Commits(c, "setkey")
    /\ keys' = [keys EXCEPT ![d] = Docs!With(@, call[c].name, NewVersion(call[c]))]
    /\ keysDue' = [keysDue EXCEPT ![d] = IF Expiration = 0 THEN @ ELSE Due]
    /\ Touch(Caller \ {c}, {<<"keys", d>>})
    /\ Return(c)
    /\ Answers(reply)
    /\ UNCHANGED <<docs, docDue, tokens, tokenDue, index, now, todo,
                   maintenance, calls, written, used, late, opened>>

(***************************************************************************)
(* Tokens                                                                  *)
(***************************************************************************)
\* An error of HGETALL is taken for a token that does not exist.
AddTokenReads(c) ==
    LET r == call[c] IN
    /\ Reads(c, "addtoken")
    /\ \/ /\ r.token \in DOMAIN tokens
          /\ Return(c)
          /\ UNCHANGED reply
       \/ /\ r.data # <<>> /\ r.doc \in DOMAIN docs
          /\ Return(c)
          /\ reply' = Docs!Put(r.doc, r.data, "conflict")
       \/ /\ r.data = <<>> \/ r.doc \notin DOMAIN docs
          /\ ToWrite(c)
          /\ UNCHANGED reply
    /\ UNCHANGED <<store, now, dirty, todo, maintenance, calls, written, used,
                   late, opened>>

\* Mutant: the token is not recorded for its user.
Unindexed(u, t) == index

\* SADD
Indexed(u, t) == [index EXCEPT ![u] = @ \cup {t}]

AddTokenWrites(c) ==
    LET r == call[c] IN
    /\ Commits(c, "addtoken")
    /\ IF r.data = <<>>
       THEN Answers(reply) /\ UNCHANGED <<docs, docDue, written, used>>
       ELSE /\ docs' = Docs!With(docs, r.doc, r.data)
            /\ docDue' = [docDue EXCEPT ![r.doc] = Due]
            /\ Answers(Docs!Put(r.doc, r.data, "ok"))
            /\ written' = [written EXCEPT ![r.doc] = now]
            /\ used' = [used EXCEPT ![r.doc] = now]
    \* EXPIRE with a period that is over deletes the key
    /\ tokens' = IF r.due > now
                 THEN Docs!With(tokens, r.token,
                                [user |-> r.user, permissions |-> r.permissions])
                 ELSE Without(tokens, {r.token})
    /\ tokenDue' = [tokenDue EXCEPT ![r.token] = IF r.due > now THEN r.due ELSE 0]
    /\ index' = Indexed(r.user, r.token)
    /\ late' = IF \A s \in Server : maintenance[s].at = "rest" THEN late
               ELSE late \cup {r.token}
    /\ Touch(Caller \ {c}, {<<"token", r.token>>}
             \cup (IF r.data = <<>> THEN {} ELSE {<<"doc", r.doc>>}))
    /\ Return(c)
    /\ UNCHANGED <<keys, keysDue, now, todo, maintenance, calls, opened>>

\* UpdateUser: SMEMBERS ...
UpdateUserLists(c) ==
    /\ Reads(c, "updateuser")
    /\ todo' = [todo EXCEPT ![c] = index[call[c].user]]
    /\ pc' = [pc EXCEPT ![c] = "each"]
    /\ UNCHANGED <<store, now, call, dirty, maintenance, calls, reply, written,
                   used, late, opened>>

\* ... then EXISTS for each token ...
UpdateUserChecks(c) ==
    /\ pc[c] = "each"
    /\ \E t \in todo[c] :
          IF t \in DOMAIN tokens
          THEN /\ pc' = [pc EXCEPT ![c] = "set"]
               /\ call' = [call EXCEPT ![c] = [call |-> "updateuser",
                              permissions |-> call[c].permissions, token |-> t]]
               /\ UNCHANGED todo
          ELSE /\ todo' = [todo EXCEPT ![c] = @ \ {t}]
               /\ UNCHANGED <<pc, call>>
    /\ UNCHANGED <<store, now, dirty, maintenance, calls, reply, written, used,
                   late, opened>>

\* ... and HSET, outside of MULTI: it makes a key that is gone by now.  Its
\* error is ignored.
UpdateUserSets(c) ==
    LET t == call[c].token IN
    /\ pc[c] = "set"
    /\ \/ UNCHANGED <<tokens, dirty>>
       \/ /\ tokens' = IF t \in DOMAIN tokens
                       THEN [tokens EXCEPT ![t].permissions = call[c].permissions]
                       ELSE Docs!With(tokens, t,
                                [user |-> Ghost,
                                 permissions |-> call[c].permissions])
          /\ Touch(Caller \ {c}, {<<"token", t>>})
    /\ todo' = [todo EXCEPT ![c] = @ \ {t}]
    /\ pc' = [pc EXCEPT ![c] = "each"]
    /\ UNCHANGED <<docs, docDue, keys, keysDue, tokenDue, index, now, call,
                   maintenance, calls, reply, written, used, late, opened>>

UpdateUserEnds(c) ==
    /\ pc[c] = "each"
    /\ todo[c] = {}
    /\ Return(c)
    /\ UNCHANGED <<store, now, dirty, todo, maintenance, calls, reply,
                   written, used, late, opened>>

(***************************************************************************)
(* runMaintenance                                                          *)
(***************************************************************************)
MaintenanceLists(s) ==
    /\ maintenance[s].at = "rest"
    /\ maintenance' = [maintenance EXCEPT ![s] =
                          [at |-> "listed", listed |-> index, have |-> {}]]
    /\ UNCHANGED <<store, now, pc, call, dirty, todo, calls, reply, written,
                   used, late, opened>>

MaintenanceChecks(s) ==
    /\ maintenance[s].at = "listed"
    /\ maintenance' = [maintenance EXCEPT ![s] =
                          [@ EXCEPT !.at = "checked", !.have = DOMAIN tokens]]
    /\ UNCHANGED <<store, now, pc, call, dirty, todo, calls, reply, written,
                   used, late, opened>>

\* SREM of each token that was gone, DEL of a set of which all were.
MaintenanceRemoves(s) ==
    /\ maintenance[s].at = "checked"
    /\ LET listed == maintenance[s].listed
           gone(u) == listed[u] \ maintenance[s].have
       IN index' = [u \in User |->
                       IF listed[u] # {} /\ gone(u) = listed[u] THEN {}
                       ELSE index[u] \ gone(u)]
    /\ maintenance' = [maintenance EXCEPT ![s] = AtRest]
    /\ UNCHANGED <<docs, docDue, keys, keysDue, tokens, tokenDue, now, pc, call,
                   dirty, todo, calls, reply, written, used, late, opened>>

\* A command fails: the goroutine recovers, and sleeps.
MaintenanceFails(s) ==
    /\ maintenance[s].at # "rest"
    /\ maintenance' = [maintenance EXCEPT ![s] = AtRest]
    /\ UNCHANGED <<store, now, pc, call, dirty, todo, calls, reply, written,
                   used, late, opened>>

Maintenance(s) == \/ MaintenanceLists(s) \/ MaintenanceChecks(s)
                  \/ MaintenanceRemoves(s) \/ MaintenanceFails(s)

\* Time passes; what is due is gone.
Tick ==
    /\ now < MaxTime
    /\ now' = now + 1
    /\ LET due(f) == {x \in DOMAIN f : f[x] = now + 1}
           d == due(docDue)
           k == due(keysDue)
           t == due(tokenDue)
       IN /\ docs' = Without(docs, d)
          /\ docDue' = [x \in DocID |-> IF x \in d THEN 0 ELSE docDue[x]]
          /\ keys' = [x \in DocID |-> IF x \in k THEN Empty ELSE keys[x]]
          /\ keysDue' = [x \in DocID |-> IF x \in k THEN 0 ELSE keysDue[x]]
          /\ tokens' = Without(tokens, t)
          /\ tokenDue' = [x \in TokenID |-> IF x \in t THEN 0 ELSE tokenDue[x]]
          /\ Touch(Caller, {<<"doc", x>> : x \in d} \cup {<<"keys", x>> : x \in k}
                   \cup {<<"token", x>> : x \in t})
    /\ UNCHANGED <<index, pc, call, todo, maintenance, calls, reply, written,
                   used, late, opened>>

Idle == /\ \A c \in Caller : pc[c] = "idle"
        /\ UNCHANGED vars

Step(c) ==
    \/ Begin(c) \/ Retry(c) \/ Fails(c)
    \/ GetDocumentReads(c) \/ GetDocumentCreates(c)
    \/ AppendDocumentReads(c) \/ AppendDocumentWrites(c) \/ DeleteDocument(c)
    \/ SetDocumentKeyReads(c) \/ SetDocumentKeyWrites(c)
    \/ AddTokenReads(c) \/ AddTokenWrites(c)
    \/ UpdateUserLists(c) \/ UpdateUserChecks(c) \/ UpdateUserSets(c)
    \/ UpdateUserEnds(c)

Next == \/ \E c \in Caller : Step(c)
        \/ \E s \in Server : Maintenance(s)
        \/ Tick \/ Idle

Spec == Init /\ [][Next]_vars

-----------------------------------------------------------------------------
(***************************************************************************)
(* Properties                                                              *)
(***************************************************************************)

\* Every variable has its type, and only callers that are at work have a
\* request that is read (redisdb.go:13-27).
TypeOK ==
    /\ DOMAIN docs \subseteq DocID
    /\ docDue \in [DocID -> Nat] /\ keysDue \in [DocID -> Nat]
    /\ \A d \in DocID : /\ DOMAIN keys[d] \subseteq KeyName
                        /\ \A n \in DOMAIN keys[d] : keys[d][n] \in 1..MaxVersion
    /\ DOMAIN tokens \subseteq TokenID
    /\ \A t \in DOMAIN tokens : /\ tokens[t].user \in User \cup {Ghost}
                                /\ tokens[t].permissions \in Permission
    /\ tokenDue \in [TokenID -> Nat]
    /\ index \in [User -> SUBSET TokenID]
    /\ pc \in [Caller -> {"idle", "read", "write", "each", "set"}]
    /\ dirty \in [Caller -> {"no", "yes"}]
    /\ \A c \in Caller : pc[c] = "set" => call[c].token \in todo[c]
    /\ \A s \in Server : maintenance[s].at \in {"rest", "listed", "checked"}

\* However callers interleave and commands fail, calls on documents take place
\* one at a time: RedisDocumentDB keeps the promises of the DocumentDB interface
\* (socket.go:48-89) by WATCH and retry (redisdb.go:89-180, 264-275), but for
\* three: an append may make a document, contents may replace one, and reading a
\* document does not keep it.
IsDocumentDB == Docs!Spec

\* Of several callers that replace the same version of a key one succeeds: a
\* key is written over the version the caller named (redisdb.go:203-253).
KeysAreCompared ==
    [][\A c \in Caller : SetDocumentKeyWrites(c) =>
              Version(call[c].doc, call[c].name) = call[c].old]_vars

\* "zwibbler-user: maps from userid to a set of tokens associated with the
\* user" (redisdb.go:20): UpdateUser finds every token that is valid, but for
\* those that were added while some server's runMaintenance worked on an old
\* list of what is gone (redisdb.go:373-479).
IndexComplete == \A t \in DOMAIN tokens :
    tokens[t].user # Ghost => t \in index[tokens[t].user] \cup late
=============================================================================
