------------------------------ MODULE MCSQLDB -------------------------------
(***************************************************************************)
(* Small instances of SQLDB for TLC.                                       *)
(***************************************************************************)
EXTENDS SQLDB

CONSTANT a

OneUnit == {<<>>, <<a>>}
Read == {{"r"}}
=============================================================================
