---------------------------- MODULE MCConfStore ----------------------------
(* ConfStore on a small instance for TLC.                                  *)
EXTENDS ConfStore, TLC

Symmetry == Permutations(Readers) \cup Permutations(Fields)
=============================================================================
