---------------------------- MODULE MC_DoorPhone ----------------------------
(* One ticket: marks, list entries and outbox items of different tickets do  *)
(* not meet, but for the batch they are sent in and the one scan in front.   *)
EXTENDS DoorPhone

CONSTANT k1
=============================================================================
