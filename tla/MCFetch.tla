------------------------------ MODULE MCFetch ------------------------------
(* Instances of Fetch for TLC. *)
EXTENDS Fetch, TLC

Symmetry == Permutations(Fetches) \cup Permutations(Hosts)

=============================================================================
