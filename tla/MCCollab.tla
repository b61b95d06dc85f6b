------------------------------ MODULE MCCollab ------------------------------
(***************************************************************************)
(* Small instances of Collab for TLC.                                      *)
(***************************************************************************)
EXTENDS Collab, TLC

RW == {"r", "w"}
R == {"r"}

\* Every client may write.
AllWriters == {[c \in Client |-> RW]}

\* At most one client may write; the others, if it is not them, only read.
OneWriter == {[c \in Client |-> IF c = w THEN RW ELSE R] : w \in Client}

\* Permissions of updateUser: every permission is taken away.
Revoke == {{}}
NoChange == {}

OneUnit == {1}

Symmetry == Permutations(Client)

\* Bound: when the document is deleted, at most one client has appended.
FewAtDeletion ==
    deletion # "none" => /\ updates = 0
                         /\ \A c, d \in Client :
                               c # d => requests[c] = 0 \/ requests[d] = 0
=============================================================================
