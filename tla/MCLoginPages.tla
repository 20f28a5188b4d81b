---------------------------- MODULE MCLoginPages ----------------------------
(* Instances of LoginPages for TLC.                                        *)
EXTENDS LoginPages

CONSTANTS bob, Bob, al

\* MariaDB ignores case: bob and Bob are one row.
OneRowForBob == [a \in Account |-> IF a = Bob THEN bob ELSE a]

Symmetry == Permutations(Call) \cup Permutations(Account \ {Bob})
=============================================================================
