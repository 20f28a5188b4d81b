----------------------------- MODULE MCSessions -----------------------------
(* A small instance of Sessions for TLC.                                   *)
EXTENDS Sessions

CONSTANTS bob, Bob, alice, u1, u2

\* two spellings of one name, and another user
MCUserOf == [a \in Account |-> IF a = alice THEN u2 ELSE u1]

Symmetry == Permutations(Request) \cup Permutations(Account \ {alice})
=============================================================================
