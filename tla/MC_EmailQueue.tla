---------------------------- MODULE MC_EmailQueue ----------------------------
(* EmailQueue for TLC: one order, one email asked for again, two jobs at a *)
(* time of two attempts each, two faults.                                  *)
EXTENDS EmailQueue
=============================================================================
