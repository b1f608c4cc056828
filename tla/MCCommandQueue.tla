--------------------------- MODULE MCCommandQueue ---------------------------
(* Model-checking instance of CommandQueue.  The cfgs give one device with *)
(* two command types, so GetPending must choose between keys by age, and  *)
(* two payloads, so a replaced command differs from the one it replaces.  *)
(* Types and payloads are interchangeable model values.                   *)
EXTENDS CommandQueue, TLC

Symmetry == Permutations(Types) \cup Permutations(Cmds)
=============================================================================
