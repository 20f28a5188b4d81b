-------------------------- MODULE MCVariableTables --------------------------
(* A small instance of VariableTables for TLC.                             *)
EXTENDS VariableTables, TLC

CONSTANT k1

\* a reader and writer by his token
MCByHand ==
  {[rights |-> {"pRead", "pWrite", "pUpdate"}, tDomain |-> Null, tTokenId |-> k1,
    tAccountId |-> Null]}

Symmetry == Permutations(Request) \cup Permutations(TableId)
=============================================================================
