----------------------------- MODULE MC_Orders ------------------------------
EXTENDS Orders, TLC

Symmetry ==
  Permutations(Order) \cup Permutations(TrxId) \cup Permutations(TicketType)
=============================================================================
