-------------------------- MODULE MCConditionStore -------------------------
(* Bounds and symmetry for model checking ConditionStore.                  *)
EXTENDS ConditionStore, TLC

WorkerSymmetry == Permutations(Worker)
=============================================================================
