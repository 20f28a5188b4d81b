------------------------------ MODULE MCUidTable ------------------------------
(* Instances of UidTable for TLC.                                          *)
EXTENDS UidTable

Symmetry == Permutations(Char)
=============================================================================
