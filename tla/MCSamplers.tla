---------------------------- MODULE MCSamplers -----------------------------
(* Samplers on a small instance for TLC.                                   *)
EXTENDS Samplers, TLC

Symmetry == Permutations(Ports)

\* Figures in steps of two, one byte rounded up; two bytes are printed with an exponent.
MCPlain == (0..MaxBytes) \ {2}
MCReading == [n \in MCPlain |-> 2 * ((n + 1) \div 2)]
=============================================================================
