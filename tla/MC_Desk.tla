------------------------------ MODULE MC_Desk ------------------------------
(* Desk on a small instance. *)
EXTENDS Desk, TLC

Symmetry == Permutations(Sponsor) \cup Permutations(Name)
=============================================================================
