--------------------------- MODULE MCAccountManager ---------------------------
(* Instances of AccountManager for TLC: two connections of one host, one   *)
(* of another.                                                             *)
EXTENDS AccountManager

CONSTANTS s1, s2, s3, h1, h2

MCSocket == {s1, s2, s3}
MCHost == {h1, h2}
MCHostOf == [s \in MCSocket |-> IF s = s3 THEN h2 ELSE h1]
=============================================================================
