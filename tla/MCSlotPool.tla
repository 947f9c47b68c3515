----------------------------- MODULE MCSlotPool -----------------------------
(* Instances of SlotPool for TLC. *)
EXTENDS SlotPool, TLC

Symmetry == Permutations(Handlers) \cup Permutations(Channels)
=============================================================================
