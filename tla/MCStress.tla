------------------------------ MODULE MCStress ------------------------------
(***************************************************************************)
(* Small instances of Stress for TLC.                                      *)
(***************************************************************************)
EXTENDS Stress

RW == {"r", "w"}
AllWriters == {[c \in Client |-> RW]}
NoChange == {}

CONSTANT c1

\* One teacher and a student, or teachers only.
OneOrAll == {{c1}, Client}
=============================================================================
