----------------------------- MODULE MCRedisDB ------------------------------
(***************************************************************************)
(* Small instances of RedisDB for TLC, and what it would implement if it   *)
(* kept every promise of the DocumentDB interface.                         *)
(***************************************************************************)
EXTENDS RedisDB

CONSTANT a

OneUnit == {<<>>, <<a>>}
Read == {{"r"}}

Contract == INSTANCE Documents WITH
    Offsets <- 0..(MaxLength + 1),
    stale <- Stale, unwritten <- {},
    MissingIsEmpty <- FALSE, PutReplaces <- FALSE, OnlyWritesCount <- FALSE,
    MayFail <- TRUE, Doubtful <- {"get", "append", "put", "delete"}

\* "SetExpirationTime sets the number of seconds that a document is kept without
\* any activity before it is deleted" (socket.go:69-70), and the other promises
\* about documents: an append needs one, AddToken replaces none.  Not so: a read
\* does not renew the expiry of a document (redisdb.go:98-107), APPEND makes one
\* (redisdb.go:155-164), and AddToken watches the token only (redisdb.go:308-323).
KeepsContract == Contract!Spec
=============================================================================
