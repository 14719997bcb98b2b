--------------------------- MODULE MCAlertDelivery --------------------------
(* Symmetry for model checking AlertDelivery.                              *)
EXTENDS AlertDelivery, TLC

Symmetry == Permutations(Sender) \cup Permutations(Token) \cup Permutations(Operator)
=============================================================================
