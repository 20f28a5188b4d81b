----------------------------- MODULE MCEmitter -----------------------------
(* A small instance of Emitter for TLC.                                    *)
EXTENDS Emitter

Symmetry == Permutations(Event) \cup Permutations(Func) \cup Permutations(Entry)
=============================================================================
