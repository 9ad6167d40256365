------------------------------- MODULE MCHub -------------------------------
(* Hub on a small instance for TLC.                                        *)
EXTENDS Hub, TLC

Symmetry == Permutations(Producers)
=============================================================================
