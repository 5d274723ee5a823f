----------------------------- MODULE UnitSyncMC -----------------------------
(* Instances of UnitSync for TLC. *)
EXTENDS UnitSync, TLC

CONSTANTS one, other

Tasks == Permutations({one, other})
=============================================================================
