----------------------------- MODULE Documents ------------------------------
(***************************************************************************)
(* What the DocumentDB interface (socket.go) promises about documents: the *)
(* calls that read and write them take place one at a time and answer from *)
(* the contents of that moment.  A document without any activity for the   *)
(* time given to SetExpiration may be forgotten between two calls; to read *)
(* a document is activity, and so is to write it.                          *)
(*                                                                         *)
(* Three promises have a switch, for the stores that do not keep them:     *)
(* that AppendDocument refuses a document that does not exist, that the    *)
(* contents AddToken brings along never replace a document, and that       *)
(* reading a document keeps it.  A call may fail, where a store lets it,   *)
(* and may then have been done or not.                                     *)
(*                                                                         *)
(* docs is a partial function; "reply" is the last call with its answer.   *)
(***************************************************************************)
EXTENDS Naturals, Sequences, Functions

CONSTANTS
    DocID,     \* identifiers of documents
    Contents,  \* data that calls bring along
    Offsets,   \* offsets that AppendDocument is called with
    MissingIsEmpty, \* whether a missing document counts as an empty one
    PutReplaces,    \* whether AddToken may replace a document, even by nothing
    OnlyWritesCount, \* whether reading a document is no activity
    MayFail,        \* whether calls may fail
    Doubtful        \* calls that may have been done although they fail

VARIABLES
    docs, reply,
    stale,    \* documents that nothing was done with for the expiration time
    unwritten \* documents that nothing was written to for that time

Modes == {"possibly", "never", "always"}

With(f, x, y) == [z \in DOMAIN f \cup {x} |-> IF z = x THEN y ELSE f[z]]

\* Replies.  "mode", "offset" and "sent" are what the call brought along,
\* "data" is the document and "length" the document length it reports.
Reply(call, id, mode, offset, sent, result, data, length) ==
    [call |-> call, id |-> id, mode |-> mode, offset |-> offset, sent |-> sent,
     result |-> result, data |-> data, length |-> length]

Got(d, mode, init, result, data) ==
    Reply("get", d, mode, 0, init, result, data, 0)
Appended(d, offset, new, result, length) ==
    Reply("append", d, "", offset, new, result, <<>>, length)
Deleted(d) == Reply("delete", d, "", 0, <<>>, "ok", <<>>, 0)
Put(d, contents, result) == Reply("put", d, "", 0, contents, result, <<>>, 0)
Failed == Reply("", "", "", 0, <<>>, "failed", <<>>, 0)
NoReply == Reply("none", "", "", 0, <<>>, "", <<>>, 0)

(***************************************************************************)
(* The calls, on the documents "from" that are kept.                       *)
(***************************************************************************)
GetDocument(from, d, mode, init) ==
    \/ /\ d \in DOMAIN from
       /\ docs' = from
       /\ reply' = IF mode = "always" THEN Got(d, mode, init, "exists", <<>>)
                   ELSE Got(d, mode, init, "ok", from[d])
    \/ /\ d \notin DOMAIN from
       /\ mode = "never"
       /\ docs' = from
       /\ reply' = Got(d, mode, init, "missing", <<>>)
    \/ /\ d \notin DOMAIN from
       /\ mode # "never"
       /\ docs' = With(from, d, init)
       /\ reply' = Got(d, mode, init, "created", init)

Data(from, d) == IF d \in DOMAIN from THEN from[d] ELSE <<>>

AppendDocument(from, d, offset, new) ==
    \/ /\ d \notin DOMAIN from /\ ~MissingIsEmpty
       /\ docs' = from
       /\ reply' = Appended(d, offset, new, "missing", 0)
    \/ /\ d \in DOMAIN from \/ MissingIsEmpty
       /\ offset # Len(Data(from, d))
       /\ docs' = from
       /\ reply' = Appended(d, offset, new, "conflict", Len(Data(from, d)))
    \/ /\ d \in DOMAIN from \/ MissingIsEmpty
       /\ offset = Len(Data(from, d))
       /\ docs' = With(from, d, Data(from, d) \o new)
       /\ reply' = Appended(d, offset, new, "ok", offset + Len(new))

DeleteDocument(from, d) ==
    /\ docs' = Restrict(from, DOMAIN from \ {d})
    /\ reply' = Deleted(d)

\* AddToken with contents creates the document, or is refused: "if token
\* already exists, return ErrExists; if contents specified and document already
\* exists, return ErrConflict".
AddContents(from, d, contents) ==
    \/ /\ docs' = from
       /\ reply' = Put(d, contents, "exists")
    \/ /\ d \in DOMAIN from
       /\ docs' = from
       /\ reply' = Put(d, contents, "conflict")
    \/ /\ d \notin DOMAIN from \/ PutReplaces
       /\ docs' = With(from, d, contents)
       /\ reply' = Put(d, contents, "ok")

\* A call fails, before or after it was done.
Fail(from) ==
    /\ MayFail
    /\ \/ docs' = from
       \/ \E d \in DocID :
             \/ /\ "delete" \in Doubtful
                /\ docs' = Restrict(from, DOMAIN from \ {d})
             \/ \E new \in Contents :
                   \/ /\ "get" \in Doubtful /\ d \notin DOMAIN from
                      /\ docs' = With(from, d, new)
                   \/ /\ "append" \in Doubtful
                      /\ d \in DOMAIN from \/ MissingIsEmpty
                      /\ docs' = With(from, d, Data(from, d) \o new)
                   \/ /\ "put" \in Doubtful
                      /\ d \notin DOMAIN from \/ PutReplaces
                      /\ docs' = With(from, d, new)
    /\ reply' = Failed

Init == docs = [d \in {} |-> <<>>] /\ reply = NoReply

Call(from) == \E d \in DocID :
    \/ \E mode \in Modes, init \in Contents : GetDocument(from, d, mode, init)
    \/ \E offset \in Offsets, new \in Contents :
           AppendDocument(from, d, offset, new)
    \/ DeleteDocument(from, d)
    \/ \E contents \in Contents :
           (contents # <<>> \/ PutReplaces) /\ AddContents(from, d, contents)

\* What may remain when documents expire.
Expiring == IF OnlyWritesCount THEN unwritten ELSE stale
Kept == {K \in SUBSET DOMAIN docs : DOMAIN docs \ Expiring \subseteq K}

Next == \E K \in Kept : \/ Call(Restrict(docs, K))
                        \/ Fail(Restrict(docs, K))
                        \/ docs' = Restrict(docs, K) /\ UNCHANGED reply

Spec == Init /\ [][Next]_<<docs, reply>>
=============================================================================
