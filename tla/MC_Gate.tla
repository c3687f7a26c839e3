------------------------------- MODULE MC_Gate ------------------------------
EXTENDS Gate, TLC

Symmetry == Permutations(Pass) \cup Permutations(Ticket) \cup Permutations(Request)
=============================================================================
