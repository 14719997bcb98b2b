--------------------------- MODULE MCMcpCommands ---------------------------
(* Symmetry for model checking McpCommands.                                *)
EXTENDS McpCommands, TLC

Symmetry == Permutations(Caller)
=============================================================================
