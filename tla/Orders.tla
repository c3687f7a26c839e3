------------------------------- MODULE Orders -------------------------------
(***************************************************************************)
(* Orders, their seats and their tickets: the order service, fulfilment,   *)
(* the inventory counters and the hold-expiry job of the worker.           *)
(*                                                                         *)
(* Every handler that changes state is one Postgres transaction that first *)
(* locks the rows it decides on (the order row, the buyer's advisory lock, *)
(* the counters through conditional UPDATEs), so it is one action, taken   *)
(* when the transaction commits.  What is NOT inside the transaction is    *)
(* apart: the clock a handler read before it (parameter "at"), the list of *)
(* lapsed holds the worker fetched without a lock ("listed"), and the      *)
(* transaction id an admin checked on a page loaded earlier ("verified").  *)
(* One event; ids are allocated by the database, here taken from Order.    *)
(*                                                                         *)
(* The trail keeps the order_events rows that move a status, not those of  *)
(* one ticket or one email; emails queued after a commit, order references *)
(* and their collisions, prices, promo codes and the event's own status    *)
(* and window are left out.                                                *)
(***************************************************************************)
EXTENDS Integers, Sequences, FiniteSets

CONSTANTS
  Order,          \* order ids
  TicketType,     \* ticket types of the event
  Buyer,          \* buyers, by phone number
  TrxId,          \* bKash transaction ids, normalised
  NULL,           \* the SQL NULL
  MaxQuantity,    \* MAX_TICKETS_PER_ORDER
  MaxOpenOrders,  \* MAX_OPEN_ORDERS_PER_BUYER
  HoldTime,       \* HOLD_MINUTES, in ticks
  GraceTime,      \* HOLD_GRACE_MINUTES, in ticks
  MaxCapacity,    \* bound on quantity_total
  MaxResubmits,   \* bound on corrections of one order's transaction id
  Lag,            \* bound on the ticks between a handler's now() and its commit
  Horizon         \* bound on the clock

ASSUME OrderAssumption == IsFiniteSet(Order)
ASSUME NullAssumption ==
  /\ NULL \notin TicketType /\ NULL \notin Buyer /\ NULL \notin TrxId
ASSUME BoundAssumption ==
  /\ MaxQuantity \in Nat \ {0} /\ MaxOpenOrders \in Nat \ {0}
  /\ HoldTime \in Nat \ {0} /\ GraceTime \in Nat
  /\ MaxCapacity \in Nat /\ MaxResubmits \in Nat
  /\ Lag \in Nat /\ Horizon \in Nat

VARIABLES
  orders,    \* table orders: [Order -> OrderRow], status "none" = no such row
  stock,     \* table ticket_types: total, sold, reserved of each type
  tickets,   \* table tickets: [Ticket -> {"none", "issued", "cancelled"}]
  admitted,  \* tickets with checked_in_at set
  trail,     \* table order_events: each order's audit rows, oldest first
  listed,    \* lapsed orders the running expiry job fetched and has yet to try
  verified,  \* <<order, trxID>> pairs an admin found on the bKash statement
  now        \* the clock

vars == <<orders, stock, tickets, admitted, trail, listed, verified, now>>

Ticket == Order \X (1 .. MaxQuantity)

\* Seeded fault: a late transaction id revives an expired order.
Submittable_Revives == {"pending_payment", "pending_verification", "expired"}

\* Statuses from which a buyer may submit or correct a transaction id; an
\* order in one of them holds its seats.
Submittable == {"pending_payment", "pending_verification"}

Status == Submittable \cup
          {"none", "paid", "issued", "rejected", "expired", "cancelled"}

\* ORDER_TRANSITIONS, with the birth of an order as a move from "none".
LegalMove(from, to) ==
  CASE from = "none"                 -> to \in {"pending_payment", "issued"}
    [] from = "pending_payment"      -> to \in {"pending_verification", "expired"}
    [] from = "pending_verification" -> to \in {"paid", "rejected", "expired"}
    [] from = "paid"                 -> to = "issued"
    [] from = "issued"               -> to = "cancelled"
    [] OTHER                         -> FALSE

HoldsInventory(status) == status \in Submittable

\* The lapse rule of lib/hold.ts: a hold made at t ends, on the buyer's
\* clock, HoldTime later, and lapses GraceTime after that.
HoldEndsAt_Forgotten(t) == NULL  \* seeded fault: no hold_expires_at
HoldEndsAt(t) == t + HoldTime

LapsedBefore_NoGrace(at) == at  \* seeded fault: the grace is left out
LapsedBefore(at) == at - GraceTime

HoldLapsed(o, at) ==
  /\ orders[o].status = "pending_payment"
  /\ orders[o].holdEnds <= LapsedBefore(at)

\* Clock readings a handler that commits now can be working with.
Reading == {at \in 0 .. Horizon : now - Lag <= at /\ at <= now}

-----------------------------------------------------------------------------
(* The counters: the only statements that move them.                       *)

Available_IgnoresHolds(t) == stock[t].total - stock[t].sold  \* seeded fault
Available(t) == stock[t].total - stock[t].sold - stock[t].reserved

Reserve(t, q) ==
  /\ Available(t) >= q
  /\ stock' = [stock EXCEPT ![t].reserved = @ + q]

Release(t, q) ==
  /\ stock[t].reserved >= q
  /\ stock' = [stock EXCEPT ![t].reserved = @ - q]

ConvertToSold(t, q) ==
  /\ stock[t].reserved >= q
  /\ stock' = [stock EXCEPT ![t] =
                  [total |-> @.total, sold |-> @.sold + q, reserved |-> @.reserved - q]]

\* Seeded fault: complimentary tickets do not ask whether a seat is left.
ReserveAndSell_Unguarded(t, q) == stock' = [stock EXCEPT ![t].sold = @ + q]

\* reserve, then convertToSold, in one transaction
ReserveAndSell(t, q) ==
  /\ Available(t) >= q
  /\ stock' = [stock EXCEPT ![t].sold = @ + q]

\* Seeded fault: a cancelled seat leaves the held counter, not the sold one.
ReleaseSold_FromHeld(t, q) == Release(t, q)

ReleaseSold(t, q) ==
  /\ stock[t].sold >= q
  /\ stock' = [stock EXCEPT ![t].sold = @ - q]

-----------------------------------------------------------------------------
(* Rows.                                                                   *)

\* An audit row; trx is the transaction id its note records, if any.
Event(action, from, to, trx) ==
  [action |-> action, from |-> from, to |-> to, trx |-> trx]

Log(o, rows) == trail' = [trail EXCEPT ![o] = @ \o rows]

NewRow(status, b, t, q, ends) ==
  [status |-> status, buyer |-> b, type |-> t, quantity |-> q,
   trx |-> NULL, holdEnds |-> ends]

\* Seeded fault: off by one.
IssueTickets_OneShort(o, q) ==
  tickets' = [k \in Ticket |-> IF k[1] = o /\ k[2] < q THEN "issued" ELSE tickets[k]]

\* One ticket per attendee name: the order's first quantity positions.
IssueTickets(o, q) ==
  tickets' = [k \in Ticket |-> IF k[1] = o /\ k[2] <= q THEN "issued" ELSE tickets[k]]

\* The live tickets of an order.
LiveTickets(o) == {k \in Ticket : k[1] = o /\ tickets[k] = "issued"}

\* Seeded fault: orders awaiting verification are not counted.
OpenOrders_UnpaidOnly(b, at) ==
  {o \in Order : /\ orders[o].buyer = b
                 /\ orders[o].status = "pending_payment"
                 /\ orders[o].holdEnds > LapsedBefore(at)}

\* The orders that count against a buyer's cap: a lapsed hold does not.
OpenOrders(b, at) ==
  {o \in Order :
     /\ orders[o].buyer = b
     /\ \/ orders[o].status = "pending_verification"
        \/ /\ orders[o].status = "pending_payment"
           /\ orders[o].holdEnds > LapsedBefore(at)}

Resubmits(o) ==
  Cardinality({i \in DOMAIN trail[o] : trail[o][i].action = "payment.updated"})

-----------------------------------------------------------------------------
(* The order service.                                                      *)

\* createOrder: under the buyer's advisory lock, count, hold, insert, audit.
CreateOrder(o, b, t, q, at) ==
  /\ orders[o].status = "none"
  /\ Cardinality(OpenOrders(b, at)) < MaxOpenOrders
  /\ Reserve(t, q)
  /\ orders' = [orders EXCEPT ![o] = NewRow("pending_payment", b, t, q, HoldEndsAt(at))]
  /\ Log(o, <<Event("order.created", "none", "pending_payment", NULL)>>)
  /\ UNCHANGED <<tickets, admitted, listed, verified, now>>

\* submitPayment: the first transaction id, or a correction of it, under the
\* order's row lock; the UNIQUE index refuses an id any other order has.
SubmitPayment(o, x, at) ==
  /\ orders[o].status \in Submittable
  /\ ~HoldLapsed(o, at)
  /\ \A p \in Order \ {o} : orders[p].trx # x
  /\ LET first == orders[o].status = "pending_payment"
     IN  /\ first \/ Resubmits(o) < MaxResubmits
         /\ Log(o, <<Event(IF first THEN "payment.submitted" ELSE "payment.updated",
                           orders[o].status, "pending_verification", x)>>)
  /\ orders' = [orders EXCEPT ![o] =
                  [@ EXCEPT !.status = "pending_verification", !.trx = x]]
  /\ UNCHANGED <<stock, tickets, admitted, listed, verified, now>>

\* The expiry job fetches the lapsed holds, locking nothing.
ListLapsedHolds(at) ==
  /\ listed = {}
  /\ listed' = {o \in Order : HoldLapsed(o, at)}
  /\ listed' # {}
  /\ UNCHANGED <<orders, stock, tickets, admitted, trail, verified, now>>

\* Seeded faults: the flip does not look at the status again; it looks for
\* the wrong one.
Expirable_AnyOpen == Submittable
Expirable_Wrong == {"paid"}

\* The statuses the job's conditional UPDATE matches.
Expirable == {"pending_payment"}

\* One fetched order, in a transaction of its own: the status flips only if
\* it still is pending_payment, and only then the seats come back.
ExpireHold(o) ==
  /\ o \in listed
  /\ listed' = listed \ {o}
  /\ orders[o].status \in Expirable
  /\ Release(orders[o].type, orders[o].quantity)
  /\ orders' = [orders EXCEPT ![o].status = "expired"]
  /\ Log(o, <<Event("order.expired", "pending_payment", "expired", NULL)>>)
  /\ UNCHANGED <<tickets, admitted, verified, now>>

\* A fetched order that was paid for, or expired by another run, meanwhile.
SkipHold(o) ==
  /\ o \in listed
  /\ orders[o].status \notin Expirable
  /\ listed' = listed \ {o}
  /\ UNCHANGED <<orders, stock, tickets, admitted, trail, verified, now>>

\* The worker dies during a run: what it had fetched is forgotten.
WorkerCrash ==
  /\ listed # {}
  /\ listed' = {}
  /\ UNCHANGED <<orders, stock, tickets, admitted, trail, verified, now>>

-----------------------------------------------------------------------------
(* Fulfilment.                                                             *)

\* An admin finds the order's transaction id, as the page shows it, on the
\* bKash statement.
VerifyOnStatement(o) ==
  /\ orders[o].status = "pending_verification"
  /\ verified' = verified \cup {<<o, orders[o].trx>>}
  /\ UNCHANGED <<orders, stock, tickets, admitted, trail, listed, now>>

TrxIdUnchanged_Unchecked(o, x) == TRUE  \* seeded fault: no comparison

\* approveOrder refuses an order whose id is not the one that was verified.
TrxIdUnchanged(o, x) == orders[o].trx = x

ApproveOrder(o, x) ==
  /\ <<o, x>> \in verified
  /\ orders[o].status = "pending_verification"
  /\ TrxIdUnchanged(o, x)
  /\ ConvertToSold(orders[o].type, orders[o].quantity)
  /\ IssueTickets(o, orders[o].quantity)
  /\ orders' = [orders EXCEPT ![o].status = "issued"]
  /\ Log(o, <<Event("payment.approved", "pending_verification", "paid", orders[o].trx),
              Event("tickets.issued", "paid", "issued", NULL)>>)
  /\ UNCHANGED <<admitted, listed, verified, now>>

RejectOrder(o) ==
  /\ orders[o].status = "pending_verification"
  /\ Release(orders[o].type, orders[o].quantity)
  /\ orders' = [orders EXCEPT ![o].status = "rejected"]
  /\ Log(o, <<Event("payment.rejected", "pending_verification", "rejected", NULL)>>)
  /\ UNCHANGED <<tickets, admitted, listed, verified, now>>

IssueComplimentaryTickets(o, t, q) ==
  /\ orders[o].status = "none"
  /\ ReserveAndSell(t, q)
  /\ orders' = [orders EXCEPT ![o] = NewRow("issued", NULL, t, q, NULL)]
  /\ IssueTickets(o, q)
  /\ Log(o, <<Event("order.comp_issued", "none", "issued", NULL)>>)
  /\ UNCHANGED <<admitted, listed, verified, now>>

Cancellable_Inside(k) == tickets[k] = "issued"  \* seeded fault

\* Neither cancelled nor inside: what tickets.cancel's WHERE asks.
Cancellable(k) == tickets[k] = "issued" /\ k \notin admitted

\* cancelTicket: the seat comes back; with the last live ticket the order ends.
CancelTicket(k) ==
  LET o == k[1]
      last == LiveTickets(o) = {k}
  IN  /\ orders[o].status = "issued"
      /\ Cancellable(k)
      /\ ReleaseSold(orders[o].type, 1)
      /\ tickets' = [tickets EXCEPT ![k] = "cancelled"]
      /\ orders' = IF last THEN [orders EXCEPT ![o].status = "cancelled"] ELSE orders
      /\ Log(o, IF last THEN <<Event("order.cancelled", "issued", "cancelled", NULL)>>
                        ELSE <<>>)
      /\ UNCHANGED <<admitted, listed, verified, now>>

-----------------------------------------------------------------------------
(* The gate, as far as it touches a ticket row (module Gate has the rest). *)

CheckIn(k) ==
  /\ tickets[k] = "issued"
  /\ k \notin admitted
  /\ admitted' = admitted \cup {k}
  /\ UNCHANGED <<orders, stock, tickets, trail, listed, verified, now>>

UndoCheckIn(k) ==
  /\ k \in admitted
  /\ admitted' = admitted \ {k}
  /\ UNCHANGED <<orders, stock, tickets, trail, listed, verified, now>>

\* updateTicketType: the CHECK on the row refuses a total below what is taken.
UpdateTicketType(t, n) ==
  /\ n # stock[t].total
  /\ n - stock[t].sold - stock[t].reserved >= 0
  /\ stock' = [stock EXCEPT ![t].total = n]
  /\ UNCHANGED <<orders, tickets, admitted, trail, listed, verified, now>>

Tick ==
  /\ now < Horizon
  /\ now' = now + 1
  /\ UNCHANGED <<orders, stock, tickets, admitted, trail, listed, verified>>

-----------------------------------------------------------------------------
Init ==
  /\ orders = [o \in Order |-> NewRow("none", NULL, NULL, 0, NULL)]
  /\ stock \in [TicketType -> {[total |-> n, sold |-> 0, reserved |-> 0] :
                                 n \in 0 .. MaxCapacity}]
  /\ tickets = [k \in Ticket |-> "none"]
  /\ admitted = {}
  /\ trail = [o \in Order |-> <<>>]
  /\ listed = {}
  /\ verified = {}
  /\ now = 0

Worker ==
  \/ \E at \in Reading : ListLapsedHolds(at)
  \/ \E o \in Order : ExpireHold(o) \/ SkipHold(o)

Next ==
  \/ \E o \in Order, t \in TicketType, q \in 1 .. MaxQuantity :
       \/ \E b \in Buyer, at \in Reading : CreateOrder(o, b, t, q, at)
       \/ IssueComplimentaryTickets(o, t, q)
  \/ \E o \in Order, x \in TrxId :
       \/ \E at \in Reading : SubmitPayment(o, x, at)
       \/ ApproveOrder(o, x)
  \/ \E o \in Order : VerifyOnStatement(o) \/ RejectOrder(o)
  \/ \E k \in Ticket : CancelTicket(k) \/ CheckIn(k) \/ UndoCheckIn(k)
  \/ \E t \in TicketType, n \in 0 .. MaxCapacity : UpdateTicketType(t, n)
  \/ Worker
  \/ WorkerCrash
  \/ Tick

Spec == Init /\ [][Next]_vars

\* The expiry job is a repeating job on a queue and a worker of its own, so it
\* runs again and again; a crash now and then does not keep it, for ever, from
\* the orders it fetched.
Fairness ==
  /\ WF_vars(ListLapsedHolds(now))
  /\ \A o \in Order : SF_vars(ExpireHold(o)) /\ WF_vars(SkipHold(o))

LiveSpec == Spec /\ Fairness

-----------------------------------------------------------------------------
(* Properties.                                                             *)

OrderRow ==
  [status : Status, buyer : Buyer \cup {NULL}, type : TicketType \cup {NULL},
   quantity : 0 .. MaxQuantity, trx : TrxId \cup {NULL}, holdEnds : Nat \cup {NULL}]

StockRow == [total : 0 .. MaxCapacity, sold : Nat, reserved : Nat]

EventAction ==
  {"order.created", "payment.submitted", "payment.updated", "payment.approved",
   "tickets.issued", "payment.rejected", "order.expired", "order.comp_issued",
   "order.cancelled"}

EventRow ==
  [action : EventAction, from : Status, to : Status, trx : TrxId \cup {NULL}]

\* The type invariant.  An order row is complete once it exists: it has a type
\* and at least one seat, a hold while it is unpaid, a transaction id while one
\* is waiting to be verified.
TypeOK ==
  /\ orders \in [Order -> OrderRow]
  /\ \A o \in Order :
       /\ orders[o].status # "none" =>
            orders[o].type \in TicketType /\ orders[o].quantity \in 1 .. MaxQuantity
       /\ orders[o].status = "pending_payment" => orders[o].holdEnds \in Nat
       /\ orders[o].status = "pending_verification" => orders[o].trx \in TrxId
  /\ stock \in [TicketType -> StockRow]
  /\ tickets \in [Ticket -> {"none", "issued", "cancelled"}]
  /\ admitted \subseteq Ticket
  /\ trail \in [Order -> Seq(EventRow)]
  /\ listed \subseteq Order
  /\ verified \subseteq Order \X TrxId
  /\ now \in 0 .. Horizon

\* The seats of type t that live orders hold, and the live tickets of type t:
\* what the two counters are supposed to count.
HeldSeats(t) ==
  {k \in Ticket : /\ orders[k[1]].type = t
                  /\ HoldsInventory(orders[k[1]].status)
                  /\ k[2] <= orders[k[1]].quantity}
SoldSeats(t) ==
  {k \in Ticket : orders[k[1]].type = t /\ tickets[k] = "issued"}

\* The counters never drift from the rows: quantity_reserved is the seats of
\* the orders still open and quantity_sold the live tickets, whatever the
\* order of expiries, approvals, rejections and cancellations.  (So release,
\* convertToSold and releaseSold never raise InventoryStateError.)
CountersMatchRows ==
  \A t \in TicketType :
    /\ stock[t].reserved = Cardinality(HeldSeats(t))
    /\ stock[t].sold = Cardinality(SoldSeats(t))

\* No type has more seats held and live tickets than are on sale, also while
\* the organizer edits the total.
SeatsWithinCapacity ==
  \A t \in TicketType :
    Cardinality(HeldSeats(t)) + Cardinality(SoldSeats(t)) <= stock[t].total

\* Tickets and order status agree: an order has its tickets exactly from
\* approval (or birth, for a comp) on, one for each seat, and is cancelled
\* exactly when none of them is live.
TicketsMatchOrder ==
  \A o \in Order :
    /\ \A i \in 1 .. MaxQuantity :
         tickets[<<o, i>>] # "none" <=>
           /\ orders[o].status \in {"issued", "cancelled"}
           /\ i <= orders[o].quantity
    /\ orders[o].status = "issued" => LiveTickets(o) # {}
    /\ orders[o].status = "cancelled" => LiveTickets(o) = {}

\* Whoever is inside holds a live ticket: a seat is never back on sale with
\* its occupant in it.
AdmittedHoldLiveTickets == \A k \in admitted : tickets[k] = "issued"

\* The transaction ids that paid for order o, as its audit trail records them.
PaidWith(o) == {trail[o][i].trx : i \in {j \in DOMAIN trail[o] :
                                         trail[o][j].action = "payment.approved"}}

\* One bKash payment pays for one order, for ever: an id that an approval
\* recorded is never approved for another order, even after the first was
\* cancelled, and it is an id an admin found on the statement for this order,
\* however often the buyer edited it meanwhile.
OnePaymentOneOrder ==
  \A o \in Order : \A x \in PaidWith(o) :
    /\ <<o, x>> \in verified
    /\ \A p \in Order \ {o} : x \notin PaidWith(p)

\* Every row of the audit trail starts where the previous one ended, is a
\* legal move of the order state machine (or a correction), and the last one
\* is where the order is: the trail never lies about how it got there.
AuditTrailExplainsStatus ==
  \A o \in Order :
    LET n == Len(trail[o])
    IN  /\ orders[o].status = (IF n = 0 THEN "none" ELSE trail[o][n].to)
        /\ \A i \in 1 .. n :
             /\ trail[o][i].from = (IF i = 1 THEN "none" ELSE trail[o][i - 1].to)
             /\ \/ LegalMove(trail[o][i].from, trail[o][i].to)
                \/ /\ trail[o][i].action = "payment.updated"
                   /\ trail[o][i].from = trail[o][i].to

\* A buyer never has more than MaxOpenOrders orders awaiting payment (and not
\* lapsed) or verification on the event, whatever was in flight at once.
OpenOrdersCapped ==
  \A b \in Buyer :
    Cardinality({o \in Order : /\ orders[o].buyer = b
                               /\ orders[o].status \in Submittable
                               /\ ~HoldLapsed(o, now)}) <= MaxOpenOrders

\* Only an unpaid order expires, and only once its hold and the grace after
\* it are over; an order with a transaction id is never expired by the clock,
\* although the job works from a list read before the buyer submitted.
OnlyLapsedHoldsExpire ==
  [][\A o \in Order :
       orders[o].status # "expired" /\ orders'[o].status = "expired" =>
         /\ orders[o].trx = NULL
         /\ now >= orders[o].holdEnds + GraceTime]_vars

\* A status that ends an order is final, and its transaction id stays with it,
\* so the id cannot be spent again.
EndedOrdersFrozen ==
  [][\A o \in Order :
       orders[o].status \in {"rejected", "expired", "cancelled"} =>
         orders'[o] = orders[o]]_vars

\* A hold that lapsed is given back: the job reaches every one of them.
LapsedHoldsExpire ==
  \A o \in Order : HoldLapsed(o, now) ~> orders[o].status = "expired"

-----------------------------------------------------------------------------
(* Orders implements SeatLedger: the two counters and the status columns   *)
(* keep the books of every single seat.                                    *)

SeatState(k) ==
  LET o == k[1]
  IN  CASE tickets[k] = "issued"    -> "sold"
        [] tickets[k] = "cancelled" -> "back"
        [] tickets[k] = "none" /\ k[2] <= orders[o].quantity ->
             IF HoldsInventory(orders[o].status) THEN "held" ELSE "back"
        [] OTHER                    -> "unused"

Ledger == INSTANCE SeatLedger WITH
  capacity <- [t \in TicketType |-> stock[t].total],
  typeOf   <- [o \in Order |-> orders[o].type],
  seat     <- [k \in Ticket |-> SeatState(k)]

\* Every behaviour of the order service is one the ledger allows.
ImplementsLedger == Ledger!Spec
=============================================================================
