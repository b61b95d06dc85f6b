------------------------------ MODULE MCStores ------------------------------
(***************************************************************************)
(* Small instances of Stores for TLC.                                      *)
(***************************************************************************)
EXTENDS Stores, TLC

CONSTANT a

OneUnit == {<<>>, <<a>>}
Callers == Permutations(Caller)
=============================================================================
