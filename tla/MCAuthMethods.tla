---------------------------- MODULE MCAuthMethods ----------------------------
(* Instances of AuthMethods for TLC.                                       *)
EXTENDS AuthMethods, TLC

Symmetry ==
  Permutations(Request) \cup Permutations(PasskeyId) \cup Permutations(Password)
=============================================================================
