------------------------- MODULE MCResilientBackend -------------------------
(* Small instances of ResilientBackend: one guarded backend and the audit  *)
(* log, under every policy; callers are never told apart.                  *)
EXTENDS ResilientBackend, TLC

Symmetry == Permutations(Processes)
=============================================================================
