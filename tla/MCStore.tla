------------------------------ MODULE MCStore ------------------------------
(* Model-checking instance of Store: the command queue of MCCommandQueue, *)
(* and a meta table that may hold the expected version v1, an older v0,  *)
(* no version, or be missing.                                              *)
EXTENDS Store, TLC

Symmetry == Permutations(Types) \cup Permutations(Cmds)
=============================================================================
