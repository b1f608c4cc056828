------------------------- MODULE MCPositionTracker -------------------------
(* Model-checking instance of PositionTracker.  The cfgs give one device   *)
(* and two positions, so a stale report differs from the latest; a clock  *)
(* of three ticks and an expiry of one, so rows are fresh, at the edge of *)
(* the window, and past it when GcDatabase runs.                          *)
EXTENDS PositionTracker, TLC

Symmetry == Permutations(Devices) \cup Permutations(Coords)
=============================================================================
