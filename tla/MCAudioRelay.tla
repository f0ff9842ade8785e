--------------------------- MODULE MCAudioRelay ---------------------------
(* Instances of AudioRelay for TLC: connections are interchangeable.       *)
EXTENDS AudioRelay, TLC

Symmetry == Permutations(Conns)
=============================================================================
