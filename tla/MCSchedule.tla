----------------------------- MODULE MCSchedule -----------------------------
(* Instances of Schedule for TLC. *)
EXTENDS Schedule, TLC

Symmetry == Permutations(Entries) \cup Permutations(Keys)

=============================================================================
