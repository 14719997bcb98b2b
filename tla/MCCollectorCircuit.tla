------------------------- MODULE MCCollectorCircuit ------------------------
(* Symmetry for model checking CollectorCircuit.                           *)
EXTENDS CollectorCircuit, TLC

Symmetry == Permutations(Requests)
=============================================================================
