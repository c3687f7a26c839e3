---------------------------- MODULE MC_RelayRoom ----------------------------
EXTENDS RelayRoom

\* The phones share the passes as evenly as they can.
Passes == CHOOSE f \in [Phone -> Pass] : \A p \in Pass : \E d \in Phone : f[d] = p

\* Sound where the phones share one pass.
Symmetry == Permutations(Ticket) \cup Permutations(Phone)
=============================================================================
