------------------------------- MODULE Stores -------------------------------
(***************************************************************************)
(* The three implementations of DocumentDB: a server has one of them, that *)
(* NewHandler was given (socket.go), for as long as it runs.               *)
(*                                                                         *)
(* SQLDB and RedisDB have variables, periods and bounds of their own.  The *)
(* instances are of the modules with their theorems, so that these hold    *)
(* here by name.                                                           *)
(***************************************************************************)
EXTENDS MemoryDB

CONSTANTS
    Caller,            \* goroutines that call SQLDB or RedisDB
    Server,            \* servers on the one Redis
    SQLExpiration, SQLCleanInterval, SQLMaxTime,
    RedisMaxTime,
    MaxCalls           \* bound: calls of RedisDB

ASSUME StoresAssumption ==
    {SQLExpiration, SQLCleanInterval, SQLMaxTime, RedisMaxTime} \subseteq Nat

VARIABLES
    store,     \* the DocumentDB that NewHandler was given
    sqlDocs, sqlLastAccess, sqlKeys, sqlTokens, sqlLastClean, sqlNow, sqlPc,
    sqlCleanTime, sqlReply, sqlUsed,
    redisDocs, docDue, redisKeys, keysDue, redisTokens, tokenDue, index,
    redisNow, redisPc, call, dirty, todo, maintenance, calls, redisReply,
    written, redisUsed, late, opened

sqlVars == <<sqlDocs, sqlLastAccess, sqlKeys, sqlTokens, sqlLastClean, sqlNow,
             sqlPc, sqlCleanTime, sqlReply, sqlUsed>>
redisVars == <<redisDocs, docDue, redisKeys, keysDue, redisTokens, tokenDue,
               index, redisNow, redisPc, call, dirty, todo, maintenance, calls,
               redisReply, written, redisUsed, late, opened>>

SQL == INSTANCE SQLDBProofs WITH
    docs <- sqlDocs, lastAccess <- sqlLastAccess, keys <- sqlKeys,
    tokens <- sqlTokens, lastClean <- sqlLastClean, now <- sqlNow,
    pc <- sqlPc, cleanTime <- sqlCleanTime, reply <- sqlReply, used <- sqlUsed,
    CommitsMayFail <- FALSE,
    Expiration <- SQLExpiration, CleanInterval <- SQLCleanInterval,
    MaxTime <- SQLMaxTime

Redis == INSTANCE RedisDBProofs WITH
    docs <- redisDocs, keys <- redisKeys, tokens <- redisTokens,
    now <- redisNow, pc <- redisPc, reply <- redisReply, used <- redisUsed,
    MaxTime <- RedisMaxTime

StoresInit ==
    store \in {"memory", "sql", "redis"} /\ Init /\ SQL!Init /\ Redis!Init

StoresNext ==
    \/ store = "memory" /\ Next /\ UNCHANGED <<store, sqlVars, redisVars>>
    \/ store = "sql" /\ SQL!Next /\ UNCHANGED <<store, vars, redisVars>>
    \/ store = "redis" /\ Redis!Next /\ UNCHANGED <<store, vars, sqlVars>>

StoresSpec == StoresInit /\ [][StoresNext]_<<store, vars, sqlVars, redisVars>>

-----------------------------------------------------------------------------
(***************************************************************************)
(* The properties of SQLDB and RedisDB by names of their own; those of     *)
(* MemoryDB keep theirs.                                                   *)
(***************************************************************************)

\* SQLDB.TypeOK: rows and callers have their types (sqlxdb.go:11-15).
SQLTypeOK == SQL!TypeOK

\* SQLDB.IsDocumentDB: SQLxDocumentDB implements Documents, cleaning, failing
\* statements and restarts included (sqlxdb.go:57-150).
SQLIsDocumentDB == SQL!IsDocumentDB

\* SQLDB.KeysHaveDocuments: no key outlives its document (sqlitedb.go:17-24).
KeysHaveDocuments == SQL!KeysHaveDocuments

\* SQLDB.TokensLast: cleaning never takes a valid token (sqlxdb.go:57-73).
SQLTokensLast == SQL!TokensLast

\* RedisDB.TypeOK: keys and callers have their types (redisdb.go:13-27).
RedisTypeOK == Redis!TypeOK

\* RedisDB.IsDocumentDB: WATCH and retry make calls on documents atomic
\* (redisdb.go:89-180, 264-275).
RedisIsDocumentDB == Redis!IsDocumentDB

\* RedisDB.KeysAreCompared: a key is written over the version that the caller
\* named (redisdb.go:203-253).
KeysAreCompared == Redis!KeysAreCompared

\* RedisDB.IndexComplete: UpdateUser finds every valid token (redisdb.go:
\* 373-479).
IndexComplete == Redis!IndexComplete
=============================================================================
