----------------------------- MODULE SeatLedger -----------------------------
(***************************************************************************)
(* What selling tickets promises, seat by seat and without any counter: a  *)
(* seat of an order is held, then either comes back or is sold; a sold     *)
(* seat may come back once; and the seats taken of a ticket type never     *)
(* exceed what the organizer put on sale.  The order service keeps two     *)
(* counters per ticket type and status columns instead (module Orders);    *)
(* that it implements this specification is checked there and proved in    *)
(* SeatProofs.                                                             *)
(***************************************************************************)
EXTENDS Integers, FiniteSets

CONSTANTS
  Order,        \* order ids
  TicketType,   \* ticket types of the event
  MaxQuantity,  \* most seats of one order
  MaxCapacity,  \* bound on what an organizer puts on sale of one type
  NULL          \* no ticket type yet

Seat == Order \X (1 .. MaxQuantity)

VARIABLES
  capacity,     \* [TicketType -> Nat]: seats on sale
  typeOf,       \* the ticket type an order was placed for
  seat          \* [Seat -> {"unused", "held", "sold", "back"}]

vars == <<capacity, typeOf, seat>>

\* The seats of ticket type t that are in state s.
SeatsIn(t, s) == {k \in Seat : typeOf[k[1]] = t /\ seat[k] = s}

Taken(t) == Cardinality(SeatsIn(t, "held")) + Cardinality(SeatsIn(t, "sold"))

Unused(o) == \A i \in 1 .. MaxQuantity : seat[<<o, i>>] = "unused"

\* The first q seats of order o move to state s.
FirstSeats(o, q, s) ==
  [k \in Seat |-> IF k[1] = o /\ k[2] <= q THEN s ELSE seat[k]]

\* Every seat of order o in state s moves to state u.
MoveAll(o, s, u) ==
  [k \in Seat |-> IF k[1] = o /\ seat[k] = s THEN u ELSE seat[k]]

-----------------------------------------------------------------------------
Init ==
  /\ capacity \in [TicketType -> 0 .. MaxCapacity]
  /\ typeOf = [o \in Order |-> NULL]
  /\ seat = [k \in Seat |-> "unused"]

\* A new order takes q seats of type t, into state s: held when a buyer
\* registers, sold at once when the organizer gives tickets away.
Take(o, t, q, s) ==
  /\ Unused(o)
  /\ Taken(t) + q <= capacity[t]
  /\ seat' = FirstSeats(o, q, s)
  /\ typeOf' = [typeOf EXCEPT ![o] = t]
  /\ UNCHANGED capacity

\* All held seats of an order are sold, or all come back, together.
Settle(o, s) ==
  /\ \E i \in 1 .. MaxQuantity : seat[<<o, i>>] = "held"
  /\ seat' = MoveAll(o, "held", s)
  /\ UNCHANGED <<capacity, typeOf>>

\* One sold seat comes back.
GiveBack(o, i) ==
  /\ seat[<<o, i>>] = "sold"
  /\ seat' = [seat EXCEPT ![<<o, i>>] = "back"]
  /\ UNCHANGED <<capacity, typeOf>>

Resize(t, n) ==
  /\ Taken(t) <= n
  /\ capacity' = [capacity EXCEPT ![t] = n]
  /\ UNCHANGED <<typeOf, seat>>

Next ==
  \/ \E o \in Order, t \in TicketType, q \in 1 .. MaxQuantity,
        s \in {"held", "sold"} : Take(o, t, q, s)
  \/ \E o \in Order, s \in {"sold", "back"} : Settle(o, s)
  \/ \E o \in Order, i \in 1 .. MaxQuantity : GiveBack(o, i)
  \/ \E t \in TicketType, n \in 0 .. MaxCapacity : Resize(t, n)

Spec == Init /\ [][Next]_vars

\* No type is ever sold past what is on sale.
NeverOversold == \A t \in TicketType : Taken(t) <= capacity[t]
=============================================================================
