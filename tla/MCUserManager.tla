---------------------------- MODULE MCUserManager ----------------------------
(* A small instance of UserManager for TLC.                                *)
EXTENDS UserManager

Symmetry == Permutations(Call)
=============================================================================
