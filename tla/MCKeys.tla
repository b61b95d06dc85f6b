------------------------------- MODULE MCKeys -------------------------------
(***************************************************************************)
(* Small instances of Keys for TLC.                                        *)
(***************************************************************************)
EXTENDS Keys, TLC

\* Each request names a newer version than it replaces, and may skip some.
Growing == {v \in [old: 0..2, new: 1..3] : v.old < v.new}

\* Clients with the same permissions are alike.
Alike == Permutations(Admin) \cup Permutations(Client \ Admin)
=============================================================================
