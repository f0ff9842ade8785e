-------------------------- MODULE MCSessionRelay --------------------------
(* Instances of SessionRelay for TLC: connections are interchangeable.     *)
EXTENDS SessionRelay, TLC

Symmetry == Permutations(Conns)
=============================================================================
