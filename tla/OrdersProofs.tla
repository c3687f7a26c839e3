---------------------------- MODULE OrdersProofs ----------------------------
(***************************************************************************)
(* Theorems about module Orders, for every number of orders, ticket types, *)
(* buyers and transaction ids, every bound and every lag of a handler's    *)
(* clock: type correctness, and what Orders promises about payments and    *)
(* holds.  One payment pays for one order, an ended order is frozen, only  *)
(* a hold that lapsed without a payment expires, and the audit trail never *)
(* lies.                                                                   *)
(***************************************************************************)
EXTENDS Orders, FiniteSetTheorems, SequenceTheorems, TLAPS

-----------------------------------------------------------------------------
(* Type correctness.                                                       *)

\* The audit rows every handler appends are well typed.
LEMMA EventType ==
  ASSUME NEW a \in EventAction, NEW from \in Status, NEW to \in Status,
         NEW x \in TrxId \cup {NULL}
  PROVE  Event(a, from, to, x) \in EventRow
  BY DEF Event, EventRow

\* Appending well-typed rows keeps the trail well typed.
LEMMA LogType ==
  ASSUME NEW o \in Order, NEW rows \in Seq(EventRow),
         trail \in [Order -> Seq(EventRow)], Log(o, rows)
  PROVE  trail' \in [Order -> Seq(EventRow)]
  <1>1. trail[o] \o rows \in Seq(EventRow)
    BY ConcatProperties
  <1> QED BY <1>1 DEF Log

\* So does appending one row, as most handlers do.
LEMMA LogOne ==
  ASSUME NEW o \in Order, NEW e \in EventRow,
         trail \in [Order -> Seq(EventRow)], Log(o, <<e>>)
  PROVE  trail' \in [Order -> Seq(EventRow)]
  <1>1. <<e>> \in Seq(EventRow)
    OBVIOUS
  <1> QED BY <1>1, LogType

\* What TypeOK says of one order row.
RowOK(row) ==
  /\ row \in OrderRow
  /\ row.status # "none" =>
       row.type \in TicketType /\ row.quantity \in 1 .. MaxQuantity
  /\ row.status = "pending_payment" => row.holdEnds \in Nat
  /\ row.status = "pending_verification" => row.trx \in TrxId

\* The counter statements keep the counters well typed.
LEMMA StockType ==
  ASSUME stock \in [TicketType -> StockRow], NEW t \in TicketType, NEW q \in Nat,
         \/ Reserve(t, q) \/ Release(t, q) \/ ConvertToSold(t, q)
         \/ ReserveAndSell(t, q) \/ ReleaseSold(t, q)
  PROVE  stock' \in [TicketType -> StockRow]
  <1>1. /\ stock[t].reserved \in Nat
        /\ stock[t].sold \in Nat
    BY DEF StockRow
  <1>2. CASE Reserve(t, q)
    BY <1>1, <1>2 DEF Reserve, StockRow
  <1>3. CASE Release(t, q)
    BY <1>1, <1>3 DEF Release, StockRow
  <1>4. CASE ConvertToSold(t, q)
    <2> DEFINE row == [total |-> stock[t].total, sold |-> stock[t].sold + q,
                       reserved |-> stock[t].reserved - q]
    <2>1. row \in StockRow
      BY <1>1, <1>4 DEF ConvertToSold, StockRow
    <2>2. stock' = [stock EXCEPT ![t] = row]
      BY <1>4 DEF ConvertToSold
    <2> HIDE DEF row
    <2> QED BY <2>1, <2>2
  <1>5. CASE ReserveAndSell(t, q)
    BY <1>1, <1>5 DEF ReserveAndSell, StockRow
  <1>6. CASE ReleaseSold(t, q)
    BY <1>1, <1>6 DEF ReleaseSold, StockRow
  <1> QED BY <1>2, <1>3, <1>4, <1>5, <1>6

\* Replacing one row by a good one keeps the table well typed.
LEMMA RowUpdate ==
  ASSUME TypeOK, NEW o \in Order, NEW row, RowOK(row),
         orders' = [orders EXCEPT ![o] = row]
  PROVE  /\ orders' \in [Order -> OrderRow]
         /\ \A p \in Order : RowOK(orders'[p])
  BY DEF TypeOK, RowOK

\* An order that leaves the pending statuses stays a good row.
LEMMA StatusChange ==
  ASSUME TypeOK, NEW o \in Order, orders[o].status # "none",
         NEW s \in Status \ (Submittable \cup {"none"})
  PROVE  RowOK([orders[o] EXCEPT !.status = s])
  <1> DEFINE row == [orders[o] EXCEPT !.status = s]
  <1>1. orders[o] \in OrderRow
    BY DEF TypeOK
  <1>2. /\ row \in OrderRow
        /\ row.status = s
        /\ row.type = orders[o].type
        /\ row.quantity = orders[o].quantity
    BY <1>1 DEF OrderRow
  <1>3. orders[o].type \in TicketType /\ orders[o].quantity \in 1 .. MaxQuantity
    BY DEF TypeOK
  <1>4. s \notin {"pending_payment", "pending_verification"}
    BY DEF Submittable
  <1>5. RowOK(row)
    <2> HIDE DEF row
    <2> QED BY <1>2, <1>3, <1>4 DEF RowOK
  <1> QED BY <1>5

\* createOrder keeps the types.
LEMMA CreateOrderType ==
  ASSUME TypeOK, NEW o \in Order, NEW b \in Buyer, NEW t \in TicketType,
         NEW q \in 1 .. MaxQuantity, NEW at \in Reading, CreateOrder(o, b, t, q, at)
  PROVE  TypeOK'
  <1> USE BoundAssumption
  <1>1. RowOK(NewRow("pending_payment", b, t, q, HoldEndsAt(at)))
    BY DEF HoldEndsAt, Reading, RowOK, NewRow, OrderRow, Status, Submittable
  <1>2. /\ orders' \in [Order -> OrderRow]
        /\ \A p \in Order : RowOK(orders'[p])
    BY <1>1, RowUpdate DEF CreateOrder
  <1>3. trail' \in [Order -> Seq(EventRow)]
    <2>1. Event("order.created", "none", "pending_payment", NULL) \in EventRow
      BY EventType DEF EventAction, Status, Submittable
    <2> QED BY <2>1, LogOne DEF CreateOrder, TypeOK
  <1>4. stock' \in [TicketType -> StockRow]
    BY StockType DEF CreateOrder, TypeOK
  <1> QED BY <1>2, <1>3, <1>4 DEF CreateOrder, TypeOK, RowOK

\* submitPayment keeps the types.
LEMMA SubmitPaymentType ==
  ASSUME TypeOK, NEW o \in Order, NEW x \in TrxId, NEW at \in Reading,
         SubmitPayment(o, x, at)
  PROVE  TypeOK'
  <1> DEFINE row == [orders[o] EXCEPT !.status = "pending_verification", !.trx = x]
  <1>1. RowOK(row)
    BY DEF SubmitPayment, TypeOK, RowOK, OrderRow, Status, Submittable
  <1>2. orders' = [orders EXCEPT ![o] = row]
    BY DEF SubmitPayment, TypeOK, OrderRow
  <1>3. /\ orders' \in [Order -> OrderRow]
        /\ \A p \in Order : RowOK(orders'[p])
    <2> HIDE DEF row
    <2> QED BY <1>1, <1>2, RowUpdate
  <1>4. trail' \in [Order -> Seq(EventRow)]
    <2> DEFINE e == Event(IF orders[o].status = "pending_payment"
                            THEN "payment.submitted" ELSE "payment.updated",
                          orders[o].status, "pending_verification", x)
    <2>1. e \in EventRow
      BY EventType DEF EventAction, SubmitPayment, Status, Submittable
    <2>2. Log(o, <<e>>)
      BY DEF SubmitPayment
    <2> HIDE DEF e
    <2> QED BY <2>1, <2>2, LogOne DEF TypeOK
  <1> QED BY <1>3, <1>4 DEF SubmitPayment, TypeOK, RowOK

\* The expiry job's own steps keep the types.
LEMMA ExpiryType ==
  ASSUME TypeOK, NEW o \in Order,
         \/ \E at \in Reading : ListLapsedHolds(at)
         \/ ExpireHold(o) \/ SkipHold(o) \/ WorkerCrash
  PROVE  TypeOK'
  <1>1. CASE \E at \in Reading : ListLapsedHolds(at)
    BY <1>1 DEF ListLapsedHolds, TypeOK
  <1>2. CASE ExpireHold(o)
    <2> DEFINE row == [orders[o] EXCEPT !.status = "expired"]
    <2>1. RowOK(row)
      BY <1>2 DEF ExpireHold, Expirable, TypeOK, RowOK, OrderRow, Status
    <2>2. orders' = [orders EXCEPT ![o] = row]
      BY <1>2 DEF ExpireHold
    <2>3. /\ orders' \in [Order -> OrderRow]
          /\ \A p \in Order : RowOK(orders'[p])
      <3> HIDE DEF row
      <3> QED BY <2>1, <2>2, RowUpdate
    <2>4. trail' \in [Order -> Seq(EventRow)]
      <3>1. Event("order.expired", "pending_payment", "expired", NULL) \in EventRow
        BY EventType DEF EventAction, Status, Submittable
      <3> QED BY <1>2, <3>1, LogOne DEF ExpireHold, TypeOK
    <2>5. stock' \in [TicketType -> StockRow]
      <3>1. /\ orders[o].type \in TicketType
            /\ orders[o].quantity \in Nat
        BY <1>2 DEF ExpireHold, Expirable, TypeOK
      <3> QED BY <1>2, <3>1, StockType DEF ExpireHold, TypeOK
    <2> QED BY <1>2, <2>3, <2>4, <2>5 DEF ExpireHold, TypeOK, RowOK
  <1>3. CASE SkipHold(o)
    BY <1>3 DEF SkipHold, TypeOK
  <1>4. CASE WorkerCrash
    BY <1>4 DEF WorkerCrash, TypeOK
  <1> QED BY <1>1, <1>2, <1>3, <1>4

\* Issuing an order's tickets keeps the ticket table well typed.
LEMMA IssueType ==
  ASSUME tickets \in [Ticket -> {"none", "issued", "cancelled"}],
         NEW o, NEW q, IssueTickets(o, q)
  PROVE  tickets' \in [Ticket -> {"none", "issued", "cancelled"}]
  BY DEF IssueTickets

\* approveOrder keeps the types: two audit rows, seats sold, tickets issued.
LEMMA ApproveOrderType ==
  ASSUME TypeOK, NEW o \in Order, NEW x \in TrxId, ApproveOrder(o, x)
  PROVE  TypeOK'
  <1> DEFINE row == [orders[o] EXCEPT !.status = "issued"]
             e1  == Event("payment.approved", "pending_verification", "paid", orders[o].trx)
             e2  == Event("tickets.issued", "paid", "issued", NULL)
  <1>1. RowOK(row)
    BY StatusChange DEF ApproveOrder, Status, Submittable
  <1>2. orders' = [orders EXCEPT ![o] = row]
    BY DEF ApproveOrder
  <1>3. /\ orders' \in [Order -> OrderRow]
        /\ \A p \in Order : RowOK(orders'[p])
    <2> HIDE DEF row
    <2> QED BY <1>1, <1>2, RowUpdate
  <1>4. trail' \in [Order -> Seq(EventRow)]
    <2>1. orders[o].trx \in TrxId \cup {NULL}
      BY DEF TypeOK, OrderRow
    <2>2. e1 \in EventRow
      BY <2>1, EventType DEF EventAction, Status, Submittable
    <2>3. e2 \in EventRow
      BY EventType DEF EventAction, Status, Submittable
    <2>4. Log(o, <<e1, e2>>)
      BY DEF ApproveOrder
    <2> HIDE DEF e1, e2
    <2>5. <<e1, e2>> \in Seq(EventRow)
      BY <2>2, <2>3
    <2> QED BY <2>4, <2>5, LogType DEF TypeOK
  <1>5. stock' \in [TicketType -> StockRow]
    <2>1. /\ orders[o].type \in TicketType
          /\ orders[o].quantity \in Nat
      BY DEF ApproveOrder, TypeOK
    <2> QED BY <2>1, StockType DEF ApproveOrder, TypeOK
  <1>6. tickets' \in [Ticket -> {"none", "issued", "cancelled"}]
    BY IssueType DEF ApproveOrder, TypeOK
  <1> QED BY <1>3, <1>4, <1>5, <1>6 DEF ApproveOrder, TypeOK, RowOK

\* rejectOrder keeps the types.
LEMMA RejectOrderType ==
  ASSUME TypeOK, NEW o \in Order, RejectOrder(o)
  PROVE  TypeOK'
  <1> DEFINE row == [orders[o] EXCEPT !.status = "rejected"]
  <1>1. RowOK(row)
    BY DEF RejectOrder, TypeOK, RowOK, OrderRow, Status
  <1>2. orders' = [orders EXCEPT ![o] = row]
    BY DEF RejectOrder
  <1>3. /\ orders' \in [Order -> OrderRow]
        /\ \A p \in Order : RowOK(orders'[p])
    <2> HIDE DEF row
    <2> QED BY <1>1, <1>2, RowUpdate
  <1>4. trail' \in [Order -> Seq(EventRow)]
    <2>1. Event("payment.rejected", "pending_verification", "rejected", NULL) \in EventRow
      BY EventType DEF EventAction, Status, Submittable
    <2> QED BY <2>1, LogOne DEF RejectOrder, TypeOK
  <1>5. stock' \in [TicketType -> StockRow]
    <2>1. /\ orders[o].type \in TicketType
          /\ orders[o].quantity \in Nat
      BY DEF RejectOrder, TypeOK
    <2> QED BY <2>1, StockType DEF RejectOrder, TypeOK
  <1> QED BY <1>3, <1>4, <1>5 DEF RejectOrder, TypeOK, RowOK

\* issueComplimentaryTickets keeps the types.
LEMMA CompType ==
  ASSUME TypeOK, NEW o \in Order, NEW t \in TicketType, NEW q \in 1 .. MaxQuantity,
         IssueComplimentaryTickets(o, t, q)
  PROVE  TypeOK'
  <1> USE BoundAssumption
  <1>1. RowOK(NewRow("issued", NULL, t, q, NULL))
    BY DEF RowOK, NewRow, OrderRow, Status
  <1>2. /\ orders' \in [Order -> OrderRow]
        /\ \A p \in Order : RowOK(orders'[p])
    BY <1>1, RowUpdate DEF IssueComplimentaryTickets
  <1>3. trail' \in [Order -> Seq(EventRow)]
    <2>1. Event("order.comp_issued", "none", "issued", NULL) \in EventRow
      BY EventType DEF EventAction, Status, Submittable
    <2> QED BY <2>1, LogOne DEF IssueComplimentaryTickets, TypeOK
  <1>4. stock' \in [TicketType -> StockRow]
    BY StockType DEF IssueComplimentaryTickets, TypeOK
  <1>5. tickets' \in [Ticket -> {"none", "issued", "cancelled"}]
    BY IssueType DEF IssueComplimentaryTickets, TypeOK
  <1> QED BY <1>2, <1>3, <1>4, <1>5 DEF IssueComplimentaryTickets, TypeOK, RowOK

\* cancelTicket keeps the types, whether or not the order ends with it.
LEMMA CancelTicketType ==
  ASSUME TypeOK, NEW k \in Ticket, CancelTicket(k)
  PROVE  TypeOK'
  <1> DEFINE o    == k[1]
             last == LiveTickets(o) = {k}
             row  == [orders[o] EXCEPT !.status = "cancelled"]
             e    == Event("order.cancelled", "issued", "cancelled", NULL)
  <1>1. o \in Order
    BY DEF Ticket
  <1>2. /\ orders' \in [Order -> OrderRow]
        /\ \A p \in Order : RowOK(orders'[p])
    <2>1. CASE last
      <3>1. RowOK(row)
        <4>1. orders[o].status # "none"
          BY DEF CancelTicket
        <4>2. "cancelled" \in Status \ (Submittable \cup {"none"})
          BY DEF Status, Submittable
        <4> HIDE DEF o
        <4> QED BY <1>1, <4>1, <4>2, StatusChange
      <3>2. orders' = [orders EXCEPT ![o] = row]
        BY <2>1 DEF CancelTicket
      <3> HIDE DEF row, o
      <3> QED BY <1>1, <3>1, <3>2, RowUpdate
    <2>2. CASE ~last
      BY <2>2 DEF CancelTicket, TypeOK, RowOK
    <2> QED BY <2>1, <2>2
  <1>3. trail' \in [Order -> Seq(EventRow)]
    <2> DEFINE rows == IF last THEN <<e>> ELSE <<>>
    <2>1. e \in EventRow
      BY EventType DEF EventAction, Status, Submittable
    <2>2. rows \in Seq(EventRow)
      <3> HIDE DEF e, last
      <3> QED BY <2>1
    <2>3. Log(o, rows)
      BY DEF CancelTicket
    <2> HIDE DEF rows, o
    <2> QED BY <1>1, <2>2, <2>3, LogType DEF TypeOK
  <1>4. stock' \in [TicketType -> StockRow]
    <2>1. orders[o].type \in TicketType
      BY <1>1 DEF CancelTicket, TypeOK
    <2>2. ReleaseSold(orders[o].type, 1)
      BY DEF CancelTicket
    <2> HIDE DEF o
    <2> QED BY <2>1, <2>2, StockType DEF TypeOK
  <1>5. tickets' \in [Ticket -> {"none", "issued", "cancelled"}]
    BY DEF CancelTicket, TypeOK
  <1> QED BY <1>2, <1>3, <1>4, <1>5 DEF CancelTicket, TypeOK, RowOK

\* The gate, the statement check, the capacity edit and the clock keep the types.
LEMMA OtherStepsType ==
  ASSUME TypeOK,
         \/ \E o \in Order : VerifyOnStatement(o)
         \/ \E k \in Ticket : CheckIn(k) \/ UndoCheckIn(k)
         \/ \E t \in TicketType, n \in 0 .. MaxCapacity : UpdateTicketType(t, n)
         \/ Tick
  PROVE  TypeOK'
  <1> USE BoundAssumption
  <1>1. CASE \E o \in Order : VerifyOnStatement(o)
    BY <1>1 DEF VerifyOnStatement, TypeOK
  <1>2. CASE \E k \in Ticket : CheckIn(k) \/ UndoCheckIn(k)
    BY <1>2 DEF CheckIn, UndoCheckIn, TypeOK
  <1>3. ASSUME NEW t \in TicketType, NEW n \in 0 .. MaxCapacity, UpdateTicketType(t, n)
        PROVE  TypeOK'
    <2>1. stock' \in [TicketType -> StockRow]
      BY <1>3 DEF UpdateTicketType, TypeOK, StockRow
    <2> QED BY <1>3, <2>1 DEF UpdateTicketType, TypeOK
  <1>4. CASE Tick
    BY <1>4 DEF Tick, TypeOK
  <1> QED BY <1>1, <1>2, <1>3, <1>4

\* The initial tables are well typed.
LEMMA InitType == Init => TypeOK
  <1> SUFFICES ASSUME Init PROVE TypeOK
    OBVIOUS
  <1> USE BoundAssumption
  <1>1. NewRow("none", NULL, NULL, 0, NULL) \in OrderRow
    BY DEF NewRow, OrderRow, Status
  <1>2. /\ orders \in [Order -> OrderRow]
        /\ \A o \in Order : orders[o].status = "none"
    BY <1>1 DEF Init, NewRow
  <1>3. stock \in [TicketType -> StockRow]
    <2>1. {[total |-> n, sold |-> 0, reserved |-> 0] : n \in 0 .. MaxCapacity}
            \subseteq StockRow
      BY DEF StockRow
    <2> QED BY <2>1 DEF Init
  <1>4. trail \in [Order -> Seq(EventRow)]
    BY DEF Init
  <1> QED BY <1>2, <1>3, <1>4 DEF Init, TypeOK

\* Every step keeps the types.
LEMMA NextType == TypeOK /\ [Next]_vars => TypeOK'
  <1> SUFFICES ASSUME TypeOK, [Next]_vars PROVE TypeOK'
    OBVIOUS
  <1>1. ASSUME NEW o \in Order, NEW t \in TicketType, NEW q \in 1 .. MaxQuantity,
               \/ \E b \in Buyer, at \in Reading : CreateOrder(o, b, t, q, at)
               \/ IssueComplimentaryTickets(o, t, q)
        PROVE  TypeOK'
    BY <1>1, CreateOrderType, CompType
  <1>2. ASSUME NEW o \in Order, NEW x \in TrxId,
               \/ \E at \in Reading : SubmitPayment(o, x, at)
               \/ ApproveOrder(o, x)
        PROVE  TypeOK'
    BY <1>2, SubmitPaymentType, ApproveOrderType
  <1>3. ASSUME NEW o \in Order, VerifyOnStatement(o) \/ RejectOrder(o)
        PROVE  TypeOK'
    BY <1>3, OtherStepsType, RejectOrderType
  <1>4. ASSUME NEW k \in Ticket, CancelTicket(k) \/ CheckIn(k) \/ UndoCheckIn(k)
        PROVE  TypeOK'
    BY <1>4, OtherStepsType, CancelTicketType
  <1>5. CASE \E t \in TicketType, n \in 0 .. MaxCapacity : UpdateTicketType(t, n)
    BY <1>5, OtherStepsType
  <1>6. CASE Worker
    <2>1. CASE \E at \in Reading : ListLapsedHolds(at)
      BY <2>1 DEF ListLapsedHolds, TypeOK
    <2>2. CASE \E o \in Order : ExpireHold(o) \/ SkipHold(o)
      BY <2>2, ExpiryType
    <2> QED BY <1>6, <2>1, <2>2 DEF Worker
  <1>7. CASE WorkerCrash
    BY <1>7 DEF WorkerCrash, TypeOK
  <1>8. CASE Tick
    BY <1>8, OtherStepsType
  <1>9. CASE UNCHANGED vars
    BY <1>9 DEF vars, TypeOK
  <1> QED BY <1>1, <1>2, <1>3, <1>4, <1>5, <1>6, <1>7, <1>8, <1>9 DEF Next

\* The tables stay well typed and order rows complete, whatever the handlers,
\* the worker and the clock do: every order that exists has a type and a seat,
\* an unpaid one has a hold, one awaiting verification has a transaction id.
THEOREM TypeCorrect == Spec => []TypeOK
  <1>1. Init => TypeOK
    BY InitType
  <1>2. TypeOK /\ [Next]_vars => TypeOK'
    BY NextType
  <1> QED BY <1>1, <1>2, PTL DEF Spec

-----------------------------------------------------------------------------
(* A seat is never given back with its occupant inside.                    *)

\* check-in asks for a live ticket, cancelTicket for one that is not inside,
\* and no other handler takes "issued" away from a ticket: whoever is inside
\* holds a live ticket.
THEOREM AdmittedAreLive == Spec => []AdmittedHoldLiveTickets
  <1>1. Init => AdmittedHoldLiveTickets
    BY DEF Init, AdmittedHoldLiveTickets
  <1>2. TypeOK /\ AdmittedHoldLiveTickets /\ [Next]_vars => AdmittedHoldLiveTickets'
    <2> SUFFICES ASSUME TypeOK, AdmittedHoldLiveTickets, [Next]_vars
                 PROVE  AdmittedHoldLiveTickets'
      OBVIOUS
    <2>1. CASE UNCHANGED <<tickets, admitted>>
      BY <2>1 DEF AdmittedHoldLiveTickets
    <2>2. ASSUME NEW o, NEW q, IssueTickets(o, q), UNCHANGED admitted
          PROVE  AdmittedHoldLiveTickets'
      BY <2>2 DEF IssueTickets, AdmittedHoldLiveTickets, TypeOK
    <2>3. ASSUME NEW k \in Ticket, CancelTicket(k)
          PROVE  AdmittedHoldLiveTickets'
      BY <2>3 DEF CancelTicket, Cancellable, AdmittedHoldLiveTickets, TypeOK
    <2>4. ASSUME NEW k \in Ticket, CheckIn(k) \/ UndoCheckIn(k)
          PROVE  AdmittedHoldLiveTickets'
      BY <2>4 DEF CheckIn, UndoCheckIn, AdmittedHoldLiveTickets
    <2>5. ASSUME NEW o, NEW x, ApproveOrder(o, x)
          PROVE  AdmittedHoldLiveTickets'
      BY <2>2, <2>5 DEF ApproveOrder
    <2>6. ASSUME NEW o, NEW t, NEW q, IssueComplimentaryTickets(o, t, q)
          PROVE  AdmittedHoldLiveTickets'
      BY <2>2, <2>6 DEF IssueComplimentaryTickets
    <2>7. \/ UNCHANGED <<tickets, admitted>>
          \/ \E k \in Ticket : CancelTicket(k) \/ CheckIn(k) \/ UndoCheckIn(k)
          \/ \E o \in Order, x \in TrxId : ApproveOrder(o, x)
          \/ \E o \in Order, t \in TicketType, q \in 1 .. MaxQuantity :
               IssueComplimentaryTickets(o, t, q)
      BY DEF Next, Worker, vars, CreateOrder, SubmitPayment, ListLapsedHolds, ExpireHold,
             SkipHold, WorkerCrash, VerifyOnStatement, RejectOrder, UpdateTicketType, Tick
    <2> QED BY <2>1, <2>3, <2>4, <2>5, <2>6, <2>7
  <1> QED BY <1>1, <1>2, TypeCorrect, PTL DEF Spec

-----------------------------------------------------------------------------
(* One payment, one order.                                                 *)

\* What the UNIQUE index on the transaction id enforces.
TrxIdsUnique ==
  \A o, p \in Order :
    o # p /\ orders[o].trx # NULL => orders[o].trx # orders[p].trx

\* An id an approval recorded was verified for that order, and is still on its
\* row: no later handler touches it.
ApprovalsStand ==
  \A o \in Order : \A x \in PaidWith(o) :
    /\ x \in TrxId
    /\ <<o, x>> \in verified
    /\ orders[o].trx = x
    /\ orders[o].status \in {"issued", "cancelled"}

\* OnePaymentOneOrder speaks of the trail only; what keeps an id from being
\* approved twice is that the row keeps it and the index refuses it elsewhere.
PaymentInv == TypeOK /\ TrxIdsUnique /\ ApprovalsStand

\* The ids that the approvals among these audit rows record.
ApprovedIn(rows) ==
  {rows[i].trx : i \in {j \in DOMAIN rows : rows[j].action = "payment.approved"}}

\* Audit rows add the ids of the approvals among them, to their order only.
LEMMA PaidAfterLog ==
  ASSUME trail \in [Order -> Seq(EventRow)],
         NEW o \in Order, NEW rows \in Seq(EventRow), Log(o, rows),
         NEW p \in Order, NEW x \in PaidWith(p)'
  PROVE  x \in PaidWith(p) \/ (p = o /\ x \in ApprovedIn(rows))
  <1>1. PICK j \in DOMAIN trail'[p] :
          trail'[p][j].action = "payment.approved" /\ trail'[p][j].trx = x
    BY DEF PaidWith
  <1>2. CASE p # o
    BY <1>1, <1>2 DEF Log, PaidWith
  <1>3. CASE p = o
    <2>1. /\ trail[o] \in Seq(EventRow)
          /\ trail'[o] = trail[o] \o rows
      BY DEF Log
    <2>2. /\ Len(trail'[o]) = Len(trail[o]) + Len(rows)
          /\ \A i \in 1 .. Len(trail[o]) + Len(rows) :
               trail'[o][i] = IF i <= Len(trail[o]) THEN trail[o][i]
                                                    ELSE rows[i - Len(trail[o])]
      BY <2>1
    <2>3. j \in 1 .. Len(trail[o]) + Len(rows)
      BY <1>1, <1>3, <2>1, <2>2
    <2>4. CASE j <= Len(trail[o])
      BY <1>1, <1>3, <2>1, <2>2, <2>3, <2>4 DEF PaidWith
    <2>5. CASE j > Len(trail[o])
      BY <1>1, <1>3, <2>1, <2>2, <2>3, <2>5 DEF ApprovedIn
    <2> QED BY <2>1, <2>3, <2>4, <2>5
  <1> QED BY <1>2, <1>3

\* A step that logs no approval, and leaves the ids and the ended orders alone.
LEMMA NoApproval ==
  ASSUME PaymentInv, TypeOK', NEW o \in Order, NEW e \in EventRow, Log(o, <<e>>),
         e.action # "payment.approved",
         verified \subseteq verified',
         \A p \in Order : PaidWith(p) # {} =>
           /\ orders'[p].trx = orders[p].trx
           /\ orders'[p].status \in {"issued", "cancelled"},
         TrxIdsUnique'
  PROVE  PaymentInv'
  <1>1. ASSUME NEW p \in Order, NEW x \in PaidWith(p)'
        PROVE  x \in PaidWith(p)
    <2> DEFINE rows == <<e>>
    <2>1. rows \in Seq(EventRow) /\ trail \in [Order -> Seq(EventRow)]
      BY DEF PaymentInv, TypeOK
    <2>2. \A i \in DOMAIN rows : rows[i].action # "payment.approved"
      OBVIOUS
    <2>3. Log(o, rows)
      OBVIOUS
    <2> HIDE DEF rows
    <2>4. x \in PaidWith(p) \/ x \in ApprovedIn(rows)
      BY <2>1, <2>3, PaidAfterLog
    <2> QED BY <2>2, <2>4 DEF ApprovedIn
  <1>2. ApprovalsStand'
    BY <1>1 DEF PaymentInv, ApprovalsStand
  <1> QED BY <1>2 DEF PaymentInv

\* createOrder and issueComplimentaryTickets: a new row has no transaction id.
LEMMA NewOrderPays ==
  ASSUME PaymentInv, TypeOK', NEW o \in Order, NEW t \in TicketType,
         NEW q \in 1 .. MaxQuantity,
         \/ \E b \in Buyer, at \in Reading : CreateOrder(o, b, t, q, at)
         \/ IssueComplimentaryTickets(o, t, q)
  PROVE  PaymentInv'
  <1>1. /\ orders[o].status = "none"
        /\ verified' = verified
        /\ \A p \in Order \ {o} : orders'[p] = orders[p]
        /\ orders'[o].trx = NULL
    BY DEF CreateOrder, IssueComplimentaryTickets, NewRow, PaymentInv, TypeOK
  <1>2. TrxIdsUnique'
    BY <1>1 DEF PaymentInv, TrxIdsUnique
  <1>3. \A p \in Order : PaidWith(p) # {} =>
          /\ orders'[p].trx = orders[p].trx
          /\ orders'[p].status \in {"issued", "cancelled"}
    BY <1>1 DEF PaymentInv, ApprovalsStand
  <1>4. \/ Log(o, <<Event("order.created", "none", "pending_payment", NULL)>>)
        \/ Log(o, <<Event("order.comp_issued", "none", "issued", NULL)>>)
    BY DEF CreateOrder, IssueComplimentaryTickets
  <1>5. /\ Event("order.created", "none", "pending_payment", NULL) \in EventRow
        /\ Event("order.comp_issued", "none", "issued", NULL) \in EventRow
        /\ Event("order.created", "none", "pending_payment", NULL).action
             # "payment.approved"
        /\ Event("order.comp_issued", "none", "issued", NULL).action
             # "payment.approved"
    BY EventType DEF Event, EventAction, Status, Submittable
  <1> QED BY <1>1, <1>2, <1>3, <1>4, <1>5, NoApproval

\* submitPayment: the id it stores is on no other order.
LEMMA SubmitPays ==
  ASSUME PaymentInv, TypeOK', NEW o \in Order, NEW x \in TrxId, NEW at \in Reading,
         SubmitPayment(o, x, at)
  PROVE  PaymentInv'
  <1> DEFINE e == Event(IF orders[o].status = "pending_payment"
                          THEN "payment.submitted" ELSE "payment.updated",
                        orders[o].status, "pending_verification", x)
  <1>1. /\ orders[o].status \in Submittable
        /\ verified' = verified
        /\ \A p \in Order \ {o} : orders'[p] = orders[p] /\ orders[p].trx # x
        /\ orders'[o].trx = x
    BY DEF SubmitPayment, PaymentInv, TypeOK, OrderRow
  <1>2. TrxIdsUnique'
    BY <1>1 DEF PaymentInv, TrxIdsUnique
  <1>3. \A p \in Order : PaidWith(p) # {} =>
          /\ orders'[p].trx = orders[p].trx
          /\ orders'[p].status \in {"issued", "cancelled"}
    BY <1>1 DEF PaymentInv, ApprovalsStand, Submittable
  <1>4. Log(o, <<e>>)
    BY DEF SubmitPayment
  <1>5. e \in EventRow /\ e.action # "payment.approved"
    BY <1>1, EventType DEF Event, EventAction, Status, Submittable
  <1> HIDE DEF e
  <1> QED BY <1>1, <1>2, <1>3, <1>4, <1>5, NoApproval

\* The expiry job and rejectOrder end orders that were not approved, and leave
\* their transaction ids on them.
LEMMA EndPays ==
  ASSUME PaymentInv, TypeOK', NEW o \in Order, ExpireHold(o) \/ RejectOrder(o)
  PROVE  PaymentInv'
  <1>1. /\ orders[o].status \in Submittable
        /\ verified' = verified
        /\ \A p \in Order : orders'[p].trx = orders[p].trx
        /\ \A p \in Order \ {o} : orders'[p] = orders[p]
    <2>1. PICK s \in Status : orders' = [orders EXCEPT ![o].status = s]
      BY DEF ExpireHold, RejectOrder, Status
    <2>2. orders \in [Order -> OrderRow]
      BY DEF PaymentInv, TypeOK
    <2> QED BY <2>1, <2>2 DEF ExpireHold, Expirable, RejectOrder, OrderRow, Submittable
  <1>2. TrxIdsUnique'
    BY <1>1 DEF PaymentInv, TrxIdsUnique
  <1>3. \A p \in Order : PaidWith(p) # {} =>
          /\ orders'[p].trx = orders[p].trx
          /\ orders'[p].status \in {"issued", "cancelled"}
    BY <1>1 DEF PaymentInv, ApprovalsStand, Submittable
  <1>4. \/ Log(o, <<Event("order.expired", "pending_payment", "expired", NULL)>>)
        \/ Log(o, <<Event("payment.rejected", "pending_verification", "rejected", NULL)>>)
    BY DEF ExpireHold, RejectOrder
  <1>5. /\ Event("order.expired", "pending_payment", "expired", NULL) \in EventRow
        /\ Event("payment.rejected", "pending_verification", "rejected", NULL) \in EventRow
        /\ Event("order.expired", "pending_payment", "expired", NULL).action
             # "payment.approved"
        /\ Event("payment.rejected", "pending_verification", "rejected", NULL).action
             # "payment.approved"
    BY EventType DEF Event, EventAction, Status, Submittable
  <1> QED BY <1>1, <1>2, <1>3, <1>4, <1>5, NoApproval

\* approveOrder records the verified id, which the row goes on carrying.
LEMMA ApprovePays ==
  ASSUME PaymentInv, TypeOK', NEW o \in Order, NEW x \in TrxId, ApproveOrder(o, x)
  PROVE  PaymentInv'
  <1> DEFINE e == Event("payment.approved", "pending_verification", "paid", orders[o].trx)
             f == Event("tickets.issued", "paid", "issued", NULL)
  <1>1. /\ orders[o].status = "pending_verification"
        /\ orders[o].trx = x
        /\ <<o, x>> \in verified
        /\ verified' = verified
        /\ \A p \in Order \ {o} : orders'[p] = orders[p]
        /\ orders'[o].trx = x
        /\ orders'[o].status = "issued"
    BY DEF ApproveOrder, TrxIdUnchanged, PaymentInv, TypeOK, OrderRow
  <1>2. TrxIdsUnique'
    BY <1>1 DEF PaymentInv, TrxIdsUnique
  <1>3. Log(o, <<e, f>>)
    BY DEF ApproveOrder
  <1>4. e \in EventRow /\ f \in EventRow
    BY <1>1, EventType DEF EventAction, Status, Submittable
  <1>5. e.trx = x /\ f.action # "payment.approved"
    BY <1>1 DEF Event
  <1> HIDE DEF e, f
  <1>6. ASSUME NEW p \in Order, NEW y \in PaidWith(p)'
        PROVE  y \in PaidWith(p) \/ (p = o /\ y = x)
    <2> DEFINE both == <<e, f>>
    <2>1. both \in Seq(EventRow) /\ trail \in [Order -> Seq(EventRow)]
      BY <1>4 DEF PaymentInv, TypeOK
    <2>2. \A i \in DOMAIN both : both[i].action = "payment.approved" => both[i].trx = x
      BY <1>5
    <2>3. Log(o, both)
      BY <1>3
    <2> HIDE DEF both
    <2>4. y \in PaidWith(p) \/ (p = o /\ y \in ApprovedIn(both))
      BY <2>1, <2>3, PaidAfterLog
    <2> QED BY <2>2, <2>4 DEF ApprovedIn
  <1>7. ApprovalsStand'
    <2> SUFFICES ASSUME NEW p \in Order, NEW y \in PaidWith(p)'
                 PROVE  /\ y \in TrxId
                        /\ <<p, y>> \in verified'
                        /\ orders'[p].trx = y
                        /\ orders'[p].status \in {"issued", "cancelled"}
      BY DEF ApprovalsStand
    <2>1. CASE p = o /\ y = x
      BY <1>1, <2>1
    <2>2. CASE y \in PaidWith(p)
      <3>1. /\ y \in TrxId
            /\ <<p, y>> \in verified
            /\ orders[p].trx = y
            /\ orders[p].status \in {"issued", "cancelled"}
        BY <2>2 DEF PaymentInv, ApprovalsStand
      <3>2. p # o
        BY <1>1, <3>1
      <3> QED BY <1>1, <3>1, <3>2
    <2> QED BY <1>6, <2>1, <2>2
  <1> QED BY <1>2, <1>7 DEF PaymentInv

\* cancelTicket: the order keeps its transaction id, also when it ends.
LEMMA CancelPays ==
  ASSUME PaymentInv, TypeOK', NEW k \in Ticket, CancelTicket(k)
  PROVE  PaymentInv'
  <1> DEFINE o == k[1]
             e == Event("order.cancelled", "issued", "cancelled", NULL)
  <1>1. o \in Order
    BY DEF Ticket
  <1>2. /\ verified' = verified
        /\ \A p \in Order : orders'[p].trx = orders[p].trx
        /\ \A p \in Order : orders'[p].status = orders[p].status
                              \/ orders'[p].status = "cancelled"
    BY <1>1 DEF CancelTicket, PaymentInv, TypeOK, OrderRow
  <1>3. TrxIdsUnique'
    BY <1>2 DEF PaymentInv, TrxIdsUnique
  <1>4. \A p \in Order : PaidWith(p) # {} =>
          /\ orders'[p].trx = orders[p].trx
          /\ orders'[p].status \in {"issued", "cancelled"}
    BY <1>2 DEF PaymentInv, ApprovalsStand
  <1>5. Log(o, <<e>>) \/ Log(o, <<>>)
    BY DEF CancelTicket
  <1>6. e \in EventRow /\ e.action # "payment.approved"
    BY EventType DEF Event, EventAction, Status, Submittable
  <1> HIDE DEF e, o
  <1>7. CASE Log(o, <<e>>)
    BY <1>1, <1>2, <1>3, <1>4, <1>6, <1>7, NoApproval
  <1>8. CASE Log(o, <<>>)
    <2>1. \A p \in Order : PaidWith(p)' \subseteq PaidWith(p)
      <3>1. <<>> \in Seq(EventRow) /\ DOMAIN <<>> = {}
        OBVIOUS
      <3>2. trail \in [Order -> Seq(EventRow)] /\ ApprovedIn(<<>>) = {}
        BY <3>1 DEF PaymentInv, TypeOK, ApprovedIn
      <3> QED BY <1>1, <1>8, <3>1, <3>2, PaidAfterLog
    <2>2. ApprovalsStand'
      BY <1>2, <1>4, <2>1 DEF PaymentInv, ApprovalsStand
    <2> QED BY <1>3, <2>2 DEF PaymentInv
  <1> QED BY <1>5, <1>7, <1>8

\* Every step keeps payments and orders one to one.
LEMMA NextPays == PaymentInv /\ [Next]_vars => PaymentInv'
  <1> SUFFICES ASSUME PaymentInv, [Next]_vars PROVE PaymentInv'
    OBVIOUS
  <1>0. TypeOK'
    BY NextType DEF PaymentInv
  <1>1. CASE UNCHANGED <<orders, trail>> /\ verified \subseteq verified'
    BY <1>0, <1>1 DEF PaymentInv, TrxIdsUnique, ApprovalsStand, PaidWith
  <1>2. ASSUME NEW k \in Ticket, CancelTicket(k)
        PROVE  PaymentInv'
    BY <1>0, <1>2, CancelPays
  <1>3. \/ \E o \in Order, t \in TicketType, q \in 1 .. MaxQuantity :
             \/ \E b \in Buyer, at \in Reading : CreateOrder(o, b, t, q, at)
             \/ IssueComplimentaryTickets(o, t, q)
        \/ \E o \in Order, x \in TrxId :
             \/ \E at \in Reading : SubmitPayment(o, x, at)
             \/ ApproveOrder(o, x)
        \/ \E o \in Order : ExpireHold(o) \/ RejectOrder(o)
        \/ \E k \in Ticket : CancelTicket(k)
        \/ UNCHANGED <<orders, trail>> /\ verified \subseteq verified'
    BY DEF Next, Worker, vars, ListLapsedHolds, SkipHold, WorkerCrash,
           VerifyOnStatement, CheckIn, UndoCheckIn, UpdateTicketType, Tick
  <1> QED BY <1>0, <1>1, <1>2, <1>3, NewOrderPays, SubmitPays, ApprovePays, EndPays

\* One bKash payment pays for one order, for ever, and it is one an admin found
\* on the statement for that very order: no sequence of corrections,
\* rejections, expiries and cancellations spends a payment twice.
THEOREM PaymentsSpentOnce == Spec => []OnePaymentOneOrder
  <1>1. Init => PaymentInv
    BY InitType DEF Init, PaymentInv, TrxIdsUnique, ApprovalsStand, PaidWith, NewRow
  <1>2. PaymentInv => OnePaymentOneOrder
    <2> SUFFICES ASSUME PaymentInv, NEW o \in Order, NEW x \in PaidWith(o),
                        NEW p \in Order \ {o}, x \in PaidWith(p)
                 PROVE  FALSE
      BY DEF PaymentInv, ApprovalsStand, OnePaymentOneOrder
    <2>1. x # NULL /\ orders[o].trx = x /\ orders[p].trx = x
      BY NullAssumption DEF PaymentInv, ApprovalsStand
    <2> QED BY <2>1 DEF PaymentInv, TrxIdsUnique
  <1> QED BY <1>1, <1>2, NextPays, PTL DEF Spec

-----------------------------------------------------------------------------
(* Ended orders, and holds that expire.                                    *)

\* No handler writes a row that is rejected, expired or cancelled: each asks,
\* under the row's lock, for a status it may leave.
THEOREM EndedForGood == Spec => EndedOrdersFrozen
  <1> DEFINE Ended == {"rejected", "expired", "cancelled"}
             Frozen == \A o \in Order : orders[o].status \in Ended => orders'[o] = orders[o]
  <1>1. TypeOK /\ [Next]_vars => Frozen
    <2> SUFFICES ASSUME TypeOK, [Next]_vars PROVE Frozen
      OBVIOUS
    <2>1. ASSUME NEW o \in Order, orders[o].status \notin Ended, NEW row,
                 orders' = [orders EXCEPT ![o] = row]
          PROVE  Frozen
      BY <2>1 DEF TypeOK
    <2>2. ASSUME NEW o \in Order, NEW t \in TicketType, NEW q \in 1 .. MaxQuantity,
                 \/ \E b \in Buyer, at \in Reading : CreateOrder(o, b, t, q, at)
                 \/ IssueComplimentaryTickets(o, t, q)
          PROVE  Frozen
      <3>1. orders[o].status \notin Ended
        BY <2>2 DEF CreateOrder, IssueComplimentaryTickets
      <3>2. \E row : orders' = [orders EXCEPT ![o] = row]
        BY <2>2 DEF CreateOrder, IssueComplimentaryTickets
      <3> QED BY <2>1, <3>1, <3>2
    <2>3. ASSUME NEW o \in Order, NEW x \in TrxId, NEW at \in Reading,
                 SubmitPayment(o, x, at)
          PROVE  Frozen
      <3>1. orders[o].status \notin Ended
        BY <2>3 DEF SubmitPayment, Submittable
      <3>2. \E row : orders' = [orders EXCEPT ![o] = row]
        BY <2>3 DEF SubmitPayment
      <3> QED BY <2>1, <3>1, <3>2
    <2>4. ASSUME NEW o \in Order, NEW s, orders[o].status \notin Ended,
                 orders' = [orders EXCEPT ![o].status = s]
          PROVE  Frozen
      BY <2>4 DEF TypeOK
    <2>5. ASSUME NEW o \in Order,
                 \/ ExpireHold(o) \/ RejectOrder(o)
                 \/ \E x \in TrxId : ApproveOrder(o, x)
          PROVE  Frozen
      <3>1. orders[o].status \notin Ended
        BY <2>5 DEF ExpireHold, Expirable, RejectOrder, ApproveOrder
      <3>2. \E s : orders' = [orders EXCEPT ![o].status = s]
        BY <2>5 DEF ExpireHold, RejectOrder, ApproveOrder
      <3> QED BY <2>4, <3>1, <3>2
    <2>6. ASSUME NEW k \in Ticket, CancelTicket(k)
          PROVE  Frozen
      <3>1. k[1] \in Order
        BY DEF Ticket
      <3>2. orders[k[1]].status \notin Ended
        BY <2>6 DEF CancelTicket
      <3>3. orders' = [orders EXCEPT ![k[1]].status = "cancelled"] \/ orders' = orders
        BY <2>6 DEF CancelTicket
      <3> QED BY <2>4, <3>1, <3>2, <3>3
    <2>7. \/ \E o \in Order, t \in TicketType, q \in 1 .. MaxQuantity :
               \/ \E b \in Buyer, at \in Reading : CreateOrder(o, b, t, q, at)
               \/ IssueComplimentaryTickets(o, t, q)
          \/ \E o \in Order, x \in TrxId, at \in Reading : SubmitPayment(o, x, at)
          \/ \E o \in Order : \/ ExpireHold(o) \/ RejectOrder(o)
                              \/ \E x \in TrxId : ApproveOrder(o, x)
          \/ \E k \in Ticket : CancelTicket(k)
          \/ orders' = orders
      BY DEF Next, Worker, vars, ListLapsedHolds, SkipHold, WorkerCrash,
             VerifyOnStatement, CheckIn, UndoCheckIn, UpdateTicketType, Tick
    <2> QED BY <2>2, <2>3, <2>5, <2>6, <2>7
  <1> QED BY <1>1, TypeCorrect, PTL DEF Spec, EndedOrdersFrozen

\* An unpaid order has no transaction id, and a hold that was fetched as lapsed
\* has lapsed for every clock that is not slow: time only moves on.
HoldInv ==
  /\ TypeOK
  /\ \A o \in Order : orders[o].status = "pending_payment" => orders[o].trx = NULL
  /\ \A o \in listed : /\ orders[o].status # "none"
                       /\ orders[o].holdEnds \in Nat
                       /\ orders[o].holdEnds + GraceTime <= now

\* Every step keeps the fetched holds lapsed.
LEMMA NextHold == HoldInv /\ [Next]_vars => HoldInv'
  <1> SUFFICES ASSUME HoldInv, [Next]_vars PROVE HoldInv'
    OBVIOUS
  <1> USE BoundAssumption
  <1>0. TypeOK'
    BY NextType DEF HoldInv
  <1>1. \* a step of one order, which keeps its hold unless it is new
        ASSUME NEW o \in Order, NEW row, orders' = [orders EXCEPT ![o] = row],
               row.status = "pending_payment" => row.trx = NULL,
               \/ orders[o].status = "none"
               \/ row.status # "none" /\ row.holdEnds = orders[o].holdEnds,
               listed' \subseteq listed, now' = now
        PROVE  HoldInv'
    BY <1>0, <1>1 DEF HoldInv, TypeOK
  <1>2. ASSUME NEW o \in Order, NEW t \in TicketType, NEW q \in 1 .. MaxQuantity,
               \/ \E b \in Buyer, at \in Reading : CreateOrder(o, b, t, q, at)
               \/ IssueComplimentaryTickets(o, t, q)
        PROVE  HoldInv'
    <2>1. /\ orders[o].status = "none"
          /\ UNCHANGED <<listed, now>>
          /\ \E b, s, e :
               orders' = [orders EXCEPT ![o] = NewRow(s, b, t, q, e)]
      BY <1>2 DEF CreateOrder, IssueComplimentaryTickets
    <2>2. \A s, b, e : NewRow(s, b, t, q, e).trx = NULL
      BY DEF NewRow
    <2> QED BY <1>1, <2>1, <2>2
  <1>3. ASSUME NEW o \in Order, NEW x \in TrxId, NEW at \in Reading, SubmitPayment(o, x, at)
        PROVE  HoldInv'
    <2> DEFINE row == [orders[o] EXCEPT !.status = "pending_verification", !.trx = x]
    <2>1. row.status = "pending_verification" /\ row.holdEnds = orders[o].holdEnds
      BY DEF HoldInv, TypeOK, OrderRow
    <2>2. orders' = [orders EXCEPT ![o] = row] /\ UNCHANGED <<listed, now>>
      BY <1>3 DEF SubmitPayment
    <2> HIDE DEF row
    <2> QED BY <1>1, <2>1, <2>2
  <1>4. ASSUME NEW o \in Order, NEW s \in Status \ {"none", "pending_payment"},
               orders' = [orders EXCEPT ![o].status = s],
               listed' \subseteq listed, now' = now
        PROVE  HoldInv'
    <2> DEFINE row == [orders[o] EXCEPT !.status = s]
    <2>1. row.status = s /\ row.holdEnds = orders[o].holdEnds
      BY DEF HoldInv, TypeOK, OrderRow
    <2>2. orders' = [orders EXCEPT ![o] = row]
      BY <1>4 DEF HoldInv, TypeOK
    <2> HIDE DEF row
    <2> QED BY <1>1, <1>4, <2>1, <2>2
  <1>5. ASSUME NEW o \in Order,
               \/ ExpireHold(o) \/ RejectOrder(o)
               \/ \E x \in TrxId : ApproveOrder(o, x)
        PROVE  HoldInv'
    <2>1. PICK s \in {"expired", "rejected", "issued"} :
            orders' = [orders EXCEPT ![o].status = s]
      BY <1>5 DEF ExpireHold, RejectOrder, ApproveOrder
    <2>2. listed' \subseteq listed /\ now' = now
      BY <1>5 DEF ExpireHold, RejectOrder, ApproveOrder
    <2> QED BY <1>4, <2>1, <2>2 DEF Status, Submittable
  <1>6. CASE orders' = orders /\ listed' \subseteq listed /\ (now' = now \/ now' = now + 1)
    BY <1>0, <1>6 DEF HoldInv, TypeOK
  <1>7. ASSUME NEW k \in Ticket, CancelTicket(k)
        PROVE  HoldInv'
    <2>1. k[1] \in Order
      BY DEF Ticket
    <2>2. \/ orders' = [orders EXCEPT ![k[1]].status = "cancelled"]
          \/ orders' = orders
      BY <1>7 DEF CancelTicket
    <2>3. UNCHANGED <<listed, now>>
      BY <1>7 DEF CancelTicket
    <2> QED BY <1>4, <1>6, <2>1, <2>2, <2>3 DEF Status
  <1>8. ASSUME NEW at \in Reading, ListLapsedHolds(at)
        PROVE  HoldInv'
    <2>1. /\ orders' = orders /\ now' = now
          /\ listed' = {o \in Order : HoldLapsed(o, at)}
      BY <1>8 DEF ListLapsedHolds
    <2>2. ASSUME NEW o \in Order, HoldLapsed(o, at)
          PROVE  /\ orders[o].status = "pending_payment"
                 /\ orders[o].holdEnds \in Nat
                 /\ orders[o].holdEnds + GraceTime <= now
      BY <2>2 DEF HoldLapsed, LapsedBefore, Reading, HoldInv, TypeOK
    <2> QED BY <1>0, <2>1, <2>2 DEF HoldInv
  <1>9. \/ \E o \in Order, t \in TicketType, q \in 1 .. MaxQuantity :
             \/ \E b \in Buyer, at \in Reading : CreateOrder(o, b, t, q, at)
             \/ IssueComplimentaryTickets(o, t, q)
        \/ \E o \in Order, x \in TrxId, at \in Reading : SubmitPayment(o, x, at)
        \/ \E o \in Order : \/ ExpireHold(o) \/ RejectOrder(o)
                            \/ \E x \in TrxId : ApproveOrder(o, x)
        \/ \E k \in Ticket : CancelTicket(k)
        \/ \E at \in Reading : ListLapsedHolds(at)
        \/ orders' = orders /\ listed' \subseteq listed /\ (now' = now \/ now' = now + 1)
    BY DEF Next, Worker, vars, SkipHold, WorkerCrash, VerifyOnStatement, CheckIn,
           UndoCheckIn, UpdateTicketType, Tick
  <1> QED BY <1>2, <1>3, <1>5, <1>6, <1>7, <1>8, <1>9

\* Only a hold past its grace, without a transaction id, expires, although the
\* job fetched it with an old clock and without a lock, and payments for it
\* were on their way.
THEOREM HoldsExpireLate == Spec => OnlyLapsedHoldsExpire
  <1> DEFINE Late == \A o \in Order :
               orders[o].status # "expired" /\ orders'[o].status = "expired" =>
                 /\ orders[o].trx = NULL
                 /\ now >= orders[o].holdEnds + GraceTime
  <1>1. Init => HoldInv
    BY InitType DEF Init, HoldInv, NewRow
  <1>2. HoldInv /\ [Next]_vars => Late
    <2> SUFFICES ASSUME HoldInv, [Next]_vars, NEW o \in Order,
                        orders[o].status # "expired", orders'[o].status = "expired"
                 PROVE  /\ orders[o].trx = NULL
                        /\ now >= orders[o].holdEnds + GraceTime
      OBVIOUS
    <2>1. ASSUME NEW p \in Order, NEW row, orders' = [orders EXCEPT ![p] = row],
                 row.status # "expired"
          PROVE  FALSE
      BY <2>1 DEF HoldInv, TypeOK
    <2>2. ASSUME NEW p \in Order, NEW s \in Status \ {"expired"},
                 orders' = [orders EXCEPT ![p].status = s]
          PROVE  FALSE
      BY <2>2 DEF HoldInv, TypeOK, OrderRow
    <2>3. ExpireHold(o)
      <3>1. ASSUME NEW p \in Order, NEW t \in TicketType, NEW q \in 1 .. MaxQuantity,
                   \/ \E b \in Buyer, at \in Reading : CreateOrder(p, b, t, q, at)
                   \/ IssueComplimentaryTickets(p, t, q)
            PROVE  FALSE
        BY <2>1, <3>1 DEF CreateOrder, IssueComplimentaryTickets, NewRow
      <3>2. ASSUME NEW p \in Order, NEW x \in TrxId, NEW at \in Reading,
                   SubmitPayment(p, x, at)
            PROVE  FALSE
        <4> DEFINE row == [orders[p] EXCEPT !.status = "pending_verification", !.trx = x]
        <4>1. row.status = "pending_verification"
          BY DEF HoldInv, TypeOK, OrderRow
        <4>2. orders' = [orders EXCEPT ![p] = row]
          BY <3>2 DEF SubmitPayment
        <4> HIDE DEF row
        <4> QED BY <2>1, <4>1, <4>2
      <3>3. ASSUME NEW p \in Order, RejectOrder(p) \/ \E x \in TrxId : ApproveOrder(p, x)
            PROVE  FALSE
        BY <2>2, <3>3 DEF RejectOrder, ApproveOrder, Status
      <3>4. ASSUME NEW k \in Ticket, CancelTicket(k)
            PROVE  FALSE
        <4>1. k[1] \in Order
          BY DEF Ticket
        <4>2. orders' = [orders EXCEPT ![k[1]].status = "cancelled"] \/ orders' = orders
          BY <3>4 DEF CancelTicket
        <4> QED BY <2>2, <4>1, <4>2 DEF Status
      <3>5. ASSUME NEW p \in Order \ {o}, ExpireHold(p)
            PROVE  FALSE
        BY <3>5 DEF ExpireHold, HoldInv, TypeOK
      <3>6. \/ \E p \in Order, t \in TicketType, q \in 1 .. MaxQuantity :
                 \/ \E b \in Buyer, at \in Reading : CreateOrder(p, b, t, q, at)
                 \/ IssueComplimentaryTickets(p, t, q)
            \/ \E p \in Order, x \in TrxId, at \in Reading : SubmitPayment(p, x, at)
            \/ \E p \in Order : \/ ExpireHold(p) \/ RejectOrder(p)
                                \/ \E x \in TrxId : ApproveOrder(p, x)
            \/ \E k \in Ticket : CancelTicket(k)
            \/ orders' = orders
        BY DEF Next, Worker, vars, ListLapsedHolds, SkipHold, WorkerCrash,
               VerifyOnStatement, CheckIn, UndoCheckIn, UpdateTicketType, Tick
      <3> QED BY <3>1, <3>2, <3>3, <3>4, <3>5, <3>6
    <2>4. o \in listed /\ orders[o].status = "pending_payment"
      BY <2>3 DEF ExpireHold, Expirable
    <2>5. orders[o].holdEnds \in Nat /\ now \in Nat /\ GraceTime \in Nat
      BY <2>4, BoundAssumption DEF HoldInv, TypeOK
    <2> QED BY <2>4, <2>5 DEF HoldInv
  <1> QED BY <1>1, <1>2, NextHold, PTL DEF Spec, OnlyLapsedHoldsExpire

-----------------------------------------------------------------------------
(* The audit trail.                                                        *)

\* An audit row that the order state machine allows.
Fits(e) ==
  \/ LegalMove(e.from, e.to)
  \/ e.action = "payment.updated" /\ e.from = e.to

\* A trail of such rows, each from where the last one ended, leading to status.
Explains(q, status) ==
  /\ status = (IF Len(q) = 0 THEN "none" ELSE q[Len(q)].to)
  /\ \A i \in 1 .. Len(q) :
       q[i].from = (IF i = 1 THEN "none" ELSE q[i - 1].to) /\ Fits(q[i])

\* One more row leads on.
LEMMA OneRowMore ==
  ASSUME NEW q \in Seq(EventRow), NEW e \in EventRow, Explains(q, e.from), Fits(e)
  PROVE  Explains(q \o <<e>>, e.to) /\ q \o <<e>> \in Seq(EventRow)
  <1> DEFINE n == Len(q)
             a == q \o <<e>>
  <1>1. n \in Nat /\ <<e>> \in Seq(EventRow) /\ Len(<<e>>) = 1 /\ <<e>>[1] = e
    OBVIOUS
  <1>2. /\ a \in Seq(EventRow) /\ Len(a) = n + 1
        /\ a[n + 1] = e
        /\ \A i \in 1 .. n : a[i] = q[i]
    BY <1>1, ConcatProperties
  <1>3. ASSUME NEW i \in 1 .. n + 1
        PROVE  a[i].from = (IF i = 1 THEN "none" ELSE a[i - 1].to) /\ Fits(a[i])
    <2>1. CASE i = n + 1
      <3>1. e.from = (IF n = 0 THEN "none" ELSE a[n].to)
        <4>1. n # 0 => n \in 1 .. n
          BY <1>1
        <4> QED BY <1>2, <4>1 DEF Explains
      <3>2. (i = 1 <=> n = 0) /\ i - 1 = n
        BY <1>1, <2>1
      <3> HIDE DEF a, n
      <3> QED BY <1>2, <2>1, <3>1, <3>2
    <2>2. CASE i # n + 1
      <3>1. i \in 1 .. n /\ (i # 1 => i - 1 \in 1 .. n)
        BY <1>1, <2>2
      <3>2. q[i].from = (IF i = 1 THEN "none" ELSE q[i - 1].to) /\ Fits(q[i])
        BY <3>1 DEF Explains
      <3> HIDE DEF a, n
      <3> QED BY <1>2, <3>1, <3>2
    <2> QED BY <2>1, <2>2
  <1> HIDE DEF a, n
  <1>4. Explains(a, e.to)
    BY <1>1, <1>2, <1>3 DEF Explains
  <1> QED BY <1>2, <1>4 DEF a

\* Two rows one after the other are the pair of them.
LEMMA RowPair ==
  ASSUME NEW e \in EventRow, NEW f \in EventRow
  PROVE  <<e>> \o <<f>> = <<e, f>>
  <1>1. <<e>> \in Seq(EventRow) /\ <<f>> \in Seq(EventRow) /\ <<e, f>> \in Seq(EventRow)
    OBVIOUS
  <1>2. /\ Len(<<e>>) = 1 /\ Len(<<f>>) = 1 /\ Len(<<e, f>>) = 2
        /\ <<e, f>>[1] = e /\ <<e, f>>[2] = f /\ <<e>>[1] = e /\ <<f>>[1] = f
    OBVIOUS
  <1> DEFINE a == <<e>> \o <<f>>
             b == <<e, f>>
  <1>3. a \in Seq(EventRow) /\ Len(a) = 2 /\ a[1] = e /\ a[2] = f
    BY <1>1, <1>2, ConcatProperties
  <1>4. b \in Seq(EventRow) /\ Len(b) = 2 /\ b[1] = e /\ b[2] = f
    BY <1>1, <1>2
  <1> HIDE DEF a, b
  <1>5. a = b
    BY <1>3, <1>4, SeqEqual
  <1> QED BY <1>5 DEF a, b

\* AuditTrailExplainsStatus, order by order.
LEMMA TrailExplains ==
  /\ AuditTrailExplainsStatus <=> \A o \in Order : Explains(trail[o], orders[o].status)
  /\ AuditTrailExplainsStatus' <=> \A o \in Order : Explains(trail'[o], orders'[o].status)
  BY DEF AuditTrailExplainsStatus, Explains, Fits

\* A handler that logs one row and moves its order along.
LEMMA OneRowLogged ==
  ASSUME TypeOK, AuditTrailExplainsStatus, NEW o \in Order, NEW e \in EventRow,
         Log(o, <<e>>), e.from = orders[o].status, e.to = orders'[o].status, Fits(e),
         \A p \in Order \ {o} : orders'[p] = orders[p]
  PROVE  AuditTrailExplainsStatus'
  <1>1. \A p \in Order : Explains(trail[p], orders[p].status) /\ trail[p] \in Seq(EventRow)
    BY TrailExplains DEF TypeOK
  <1>2. trail'[o] = trail[o] \o <<e>> /\ \A p \in Order \ {o} : trail'[p] = trail[p]
    BY DEF Log, TypeOK
  <1>3. Explains(trail'[o], orders'[o].status)
    BY <1>1, <1>2, OneRowMore
  <1>4. \A p \in Order \ {o} : Explains(trail'[p], orders'[p].status)
    BY <1>1, <1>2
  <1> QED BY <1>3, <1>4, TrailExplains

\* Every handler logs where its order came from and where it went.
LEMMA NextTrail == TypeOK /\ AuditTrailExplainsStatus /\ [Next]_vars => AuditTrailExplainsStatus'
  <1> SUFFICES ASSUME TypeOK, AuditTrailExplainsStatus, [Next]_vars
               PROVE  AuditTrailExplainsStatus'
    OBVIOUS
  <1>0. {"none", "pending_payment", "pending_verification", "paid", "issued", "rejected",
         "expired", "cancelled"} \subseteq Status
    BY DEF Status, Submittable
  <1>1. CASE UNCHANGED trail /\ \A o \in Order : orders'[o].status = orders[o].status
    BY <1>1, TrailExplains
  <1>2. ASSUME NEW o \in Order, NEW t \in TicketType, NEW q \in 1 .. MaxQuantity,
               \/ \E b \in Buyer, at \in Reading : CreateOrder(o, b, t, q, at)
               \/ IssueComplimentaryTickets(o, t, q)
        PROVE  AuditTrailExplainsStatus'
    <2>1. PICK e \in EventRow :
            /\ Log(o, <<e>>)
            /\ e.from = "none" /\ e.to \in {"pending_payment", "issued"}
            /\ e.to = orders'[o].status
      <3>1. CASE \E b \in Buyer, at \in Reading : CreateOrder(o, b, t, q, at)
        <4> DEFINE e == Event("order.created", "none", "pending_payment", NULL)
        <4>1. e \in EventRow /\ e.from = "none" /\ e.to = "pending_payment"
          BY <1>0, EventType DEF Event, EventAction
        <4>2. Log(o, <<e>>) /\ orders'[o].status = "pending_payment"
          BY <3>1 DEF CreateOrder, NewRow, TypeOK
        <4> QED BY <4>1, <4>2
      <3>2. CASE IssueComplimentaryTickets(o, t, q)
        <4> DEFINE e == Event("order.comp_issued", "none", "issued", NULL)
        <4>1. e \in EventRow /\ e.from = "none" /\ e.to = "issued"
          BY <1>0, EventType DEF Event, EventAction
        <4>2. Log(o, <<e>>) /\ orders'[o].status = "issued"
          BY <3>2 DEF IssueComplimentaryTickets, NewRow, TypeOK
        <4> QED BY <4>1, <4>2
      <3> QED BY <1>2, <3>1, <3>2
    <2>2. orders[o].status = "none" /\ \A p \in Order \ {o} : orders'[p] = orders[p]
      BY <1>2 DEF CreateOrder, IssueComplimentaryTickets, TypeOK
    <2>3. Fits(e)
      BY <2>1 DEF Fits, LegalMove
    <2> QED BY <2>1, <2>2, <2>3, OneRowLogged
  <1>3. ASSUME NEW o \in Order, NEW x \in TrxId, NEW at \in Reading, SubmitPayment(o, x, at)
        PROVE  AuditTrailExplainsStatus'
    <2>1. /\ orders[o].status \in Submittable
          /\ orders'[o].status = "pending_verification"
          /\ \A p \in Order \ {o} : orders'[p] = orders[p]
      BY <1>3 DEF SubmitPayment, TypeOK, OrderRow
    <2> DEFINE act == IF orders[o].status = "pending_payment" THEN "payment.submitted"
                                                              ELSE "payment.updated"
               e == Event(act, orders[o].status, "pending_verification", x)
    <2>2. Log(o, <<e>>)
      BY <1>3 DEF SubmitPayment
    <2>3. e \in EventRow
      BY <1>0, <2>1, EventType DEF EventAction, Submittable
    <2>4. e.from = orders[o].status /\ e.to = "pending_verification" /\ e.action = act
      BY DEF Event
    <2>5. Fits(e)
      BY <2>1, <2>4 DEF Fits, LegalMove, Submittable
    <2> HIDE DEF e
    <2> QED BY <2>1, <2>2, <2>3, <2>4, <2>5, OneRowLogged
  <1>4. ASSUME NEW o \in Order, RejectOrder(o) \/ ExpireHold(o)
        PROVE  AuditTrailExplainsStatus'
    <2>1. PICK e \in EventRow :
            /\ Log(o, <<e>>) /\ e.from = orders[o].status
            /\ \/ e.from = "pending_verification" /\ e.to = "rejected"
               \/ e.from = "pending_payment" /\ e.to = "expired"
            /\ orders' = [orders EXCEPT ![o].status = e.to]
      <3>1. CASE RejectOrder(o)
        <4> DEFINE e == Event("payment.rejected", "pending_verification", "rejected", NULL)
        <4>1. e \in EventRow /\ e.from = "pending_verification" /\ e.to = "rejected"
          BY <1>0, EventType DEF Event, EventAction
        <4> QED BY <3>1, <4>1 DEF RejectOrder
      <3>2. CASE ExpireHold(o)
        <4> DEFINE e == Event("order.expired", "pending_payment", "expired", NULL)
        <4>1. e \in EventRow /\ e.from = "pending_payment" /\ e.to = "expired"
          BY <1>0, EventType DEF Event, EventAction
        <4> QED BY <3>2, <4>1 DEF ExpireHold, Expirable
      <3> QED BY <1>4, <3>1, <3>2
    <2>2. orders'[o].status = e.to /\ \A p \in Order \ {o} : orders'[p] = orders[p]
      BY <2>1 DEF TypeOK, OrderRow
    <2>3. Fits(e)
      BY <2>1 DEF Fits, LegalMove
    <2> QED BY <2>1, <2>2, <2>3, OneRowLogged
  <1>5. ASSUME NEW o \in Order, NEW x \in TrxId, ApproveOrder(o, x)
        PROVE  AuditTrailExplainsStatus'
    <2> DEFINE e == Event("payment.approved", "pending_verification", "paid", orders[o].trx)
               f == Event("tickets.issued", "paid", "issued", NULL)
    <2>1. /\ orders[o].status = "pending_verification"
          /\ orders[o].trx \in TrxId
          /\ orders'[o].status = "issued"
          /\ \A p \in Order \ {o} : orders'[p] = orders[p]
          /\ Log(o, <<e, f>>)
      BY <1>5 DEF ApproveOrder, TypeOK, OrderRow
    <2>2. e \in EventRow /\ f \in EventRow
      BY <1>0, <2>1, EventType DEF EventAction
    <2>3. /\ e.from = "pending_verification" /\ e.to = "paid"
          /\ f.from = "paid" /\ f.to = "issued"
      BY DEF Event
    <2>4. Fits(e) /\ Fits(f)
      BY <2>3 DEF Fits, LegalMove
    <2> HIDE DEF e, f
    <2>5. \A p \in Order : Explains(trail[p], orders[p].status) /\ trail[p] \in Seq(EventRow)
      BY TrailExplains DEF TypeOK
    <2>6. Explains(trail[o] \o <<e>>, "paid") /\ trail[o] \o <<e>> \in Seq(EventRow)
      BY <2>1, <2>2, <2>3, <2>4, <2>5, OneRowMore
    <2>7. Explains((trail[o] \o <<e>>) \o <<f>>, "issued")
      BY <2>2, <2>3, <2>4, <2>6, OneRowMore
    <2>8. (trail[o] \o <<e>>) \o <<f>> = trail[o] \o <<e, f>>
      <3>1. <<e>> \in Seq(EventRow) /\ <<f>> \in Seq(EventRow) /\ trail[o] \in Seq(EventRow)
        BY <2>2, <2>5
      <3>2. <<e>> \o <<f>> = <<e, f>>
        BY <2>2, <3>1, RowPair
      <3>3. (trail[o] \o <<e>>) \o <<f>> = trail[o] \o (<<e>> \o <<f>>)
        BY <3>1, ConcatAssociative
      <3> QED BY <3>2, <3>3
    <2>9. /\ trail'[o] = trail[o] \o <<e, f>>
          /\ \A p \in Order \ {o} : trail'[p] = trail[p]
      BY <2>1 DEF Log, TypeOK
    <2> QED BY <2>1, <2>5, <2>7, <2>8, <2>9, TrailExplains
  <1>6. ASSUME NEW k \in Ticket, CancelTicket(k)
        PROVE  AuditTrailExplainsStatus'
    <2> DEFINE o == k[1]
               e == Event("order.cancelled", "issued", "cancelled", NULL)
    <2>0. o \in Order
      BY DEF Ticket
    <2>1. CASE LiveTickets(o) = {k}
      <3>1. e \in EventRow /\ e.from = "issued" /\ e.to = "cancelled"
        BY <1>0, EventType DEF Event, EventAction
      <3>2. /\ Log(o, <<e>>) /\ orders[o].status = "issued"
            /\ orders' = [orders EXCEPT ![o].status = "cancelled"]
        BY <1>6, <2>1 DEF CancelTicket
      <3>3. orders'[o].status = "cancelled" /\ \A p \in Order \ {o} : orders'[p] = orders[p]
        BY <2>0, <3>2 DEF TypeOK, OrderRow
      <3>4. Fits(e)
        BY <3>1 DEF Fits, LegalMove
      <3> HIDE DEF e, o
      <3> QED BY <2>0, <3>1, <3>2, <3>3, <3>4, OneRowLogged
    <2>2. CASE LiveTickets(o) # {k}
      <3>1. orders' = orders /\ Log(o, <<>>)
        BY <1>6, <2>2 DEF CancelTicket
      <3>2. trail' = trail
        <4>1. trail[o] \in Seq(EventRow)
          BY <2>0 DEF TypeOK
        <4>2. trail[o] \o <<>> = trail[o]
          BY <4>1, ConcatEmptySeq
        <4> QED BY <2>0, <3>1, <4>2 DEF Log, TypeOK
      <3> QED BY <1>1, <3>1, <3>2
    <2> QED BY <2>1, <2>2
  <1> QED BY <1>1, <1>2, <1>3, <1>4, <1>5, <1>6
          DEF Next, Worker, vars, ListLapsedHolds, SkipHold, WorkerCrash,
              VerifyOnStatement, CheckIn, UndoCheckIn, UpdateTicketType, Tick

\* The audit trail never lies about how an order got where it is: each row
\* starts where the last one ended and is a move of the state machine.
THEOREM TrailNeverLies == Spec => []AuditTrailExplainsStatus
  <1>1. Init => AuditTrailExplainsStatus
    BY DEF Init, AuditTrailExplainsStatus, NewRow
  <1> QED BY <1>1, NextTrail, TypeCorrect, PTL DEF Spec

-----------------------------------------------------------------------------
(* The cap on open orders, where a handler's clock is that of its commit.  *)

\* The orders that the cap counts.
OpenOf(b) ==
  {o \in Order : /\ orders[o].buyer = b
                 /\ orders[o].status \in Submittable
                 /\ ~HoldLapsed(o, now)}

\* Without a lag a handler reads the time of its commit, and then createOrder
\* counts exactly these.
LEMMA ReadsNow ==
  ASSUME Lag = 0, TypeOK
  PROVE  /\ \A at \in Reading : at = now
         /\ \A b \in Buyer : OpenOrders(b, now) = OpenOf(b)
  <1>1. \A at \in Reading : at = now
    BY DEF Reading, TypeOK
  <1>2. ASSUME NEW o \in Order
        PROVE  orders[o].status \in Submittable /\ ~HoldLapsed(o, now) <=>
                 \/ orders[o].status = "pending_verification"
                 \/ /\ orders[o].status = "pending_payment"
                    /\ orders[o].holdEnds > LapsedBefore(now)
    <2>1. orders[o].status = "pending_payment" => orders[o].holdEnds \in Nat
      BY DEF TypeOK
    <2>2. LapsedBefore(now) \in Int
      BY BoundAssumption DEF LapsedBefore, TypeOK
    <2> QED BY <2>1, <2>2 DEF HoldLapsed, Submittable
  <1> QED BY <1>1, <1>2 DEF OpenOrders, OpenOf

\* Any buyer's open orders are finitely many, and fewer are not more.
LEMMA FewerOpen ==
  ASSUME OpenOrdersCapped, \A b \in Buyer : OpenOf(b)' \subseteq OpenOf(b)
  PROVE  OpenOrdersCapped'
  <1> SUFFICES ASSUME NEW b \in Buyer PROVE Cardinality(OpenOf(b)') <= MaxOpenOrders
    BY DEF OpenOrdersCapped, OpenOf
  <1>1. IsFiniteSet(OpenOf(b)) /\ OpenOf(b) \subseteq Order
    BY OrderAssumption, FS_Subset DEF OpenOf
  <1>2. Cardinality(OpenOf(b)) <= MaxOpenOrders
    BY DEF OpenOrdersCapped, OpenOf
  <1>3. /\ IsFiniteSet(OpenOf(b)') /\ Cardinality(OpenOf(b)') <= Cardinality(OpenOf(b))
        /\ Cardinality(OpenOf(b)) \in Nat /\ Cardinality(OpenOf(b)') \in Nat
    BY <1>1, FS_Subset, FS_CardinalityType
  <1> QED BY <1>2, <1>3, BoundAssumption

\* A step that opens no order: each one open after it was open before, of the
\* same buyer.
LEMMA NoneOpened ==
  ASSUME OpenOrdersCapped,
         \A o \in Order :
           (orders[o].status \in Submittable /\ ~HoldLapsed(o, now))' =>
             /\ orders[o].status \in Submittable /\ ~HoldLapsed(o, now)
             /\ orders'[o].buyer = orders[o].buyer
  PROVE  OpenOrdersCapped'
  <1>1. \A b \in Buyer : OpenOf(b)' \subseteq OpenOf(b)
    BY DEF OpenOf
  <1> QED BY <1>1, FewerOpen

\* createOrder opens one order, of a buyer who had fewer than the cap allows.
LEMMA OneOpened ==
  ASSUME Lag = 0, TypeOK, OpenOrdersCapped,
         NEW o \in Order, NEW b \in Buyer, NEW t \in TicketType, NEW q \in 1 .. MaxQuantity,
         NEW at \in Reading, CreateOrder(o, b, t, q, at)
  PROVE  OpenOrdersCapped'
  <1> SUFFICES ASSUME NEW c \in Buyer PROVE Cardinality(OpenOf(c)') <= MaxOpenOrders
    BY DEF OpenOrdersCapped, OpenOf
  <1>1. /\ Cardinality(OpenOf(b)) < MaxOpenOrders /\ now' = now
        /\ orders' = [orders EXCEPT ![o] = NewRow("pending_payment", b, t, q, HoldEndsAt(at))]
    BY ReadsNow DEF CreateOrder
  <1>2. orders'[o].buyer = b /\ \A p \in Order \ {o} : orders'[p] = orders[p]
    BY <1>1 DEF TypeOK, NewRow
  <1>3. /\ OpenOf(c)' \subseteq OpenOf(c) \cup {o}
        /\ c # b => OpenOf(c)' \subseteq OpenOf(c)
    BY <1>1, <1>2 DEF OpenOf, HoldLapsed
  <1>4. IsFiniteSet(OpenOf(c)) /\ Cardinality(OpenOf(c)) \in Nat
    BY OrderAssumption, FS_Subset, FS_CardinalityType DEF OpenOf
  <1>5. Cardinality(OpenOf(c)) <= MaxOpenOrders
    BY DEF OpenOrdersCapped, OpenOf
  <1>6. CASE c # b
    <2>1. /\ IsFiniteSet(OpenOf(c)') /\ Cardinality(OpenOf(c)') <= Cardinality(OpenOf(c))
          /\ Cardinality(OpenOf(c)') \in Nat
      BY <1>3, <1>4, <1>6, FS_Subset, FS_CardinalityType
    <2> QED BY <1>4, <1>5, <2>1, BoundAssumption
  <1>7. CASE c = b
    <2>1. /\ IsFiniteSet(OpenOf(c) \cup {o})
          /\ Cardinality(OpenOf(c) \cup {o}) <= Cardinality(OpenOf(c)) + 1
          /\ Cardinality(OpenOf(c) \cup {o}) \in Nat
      <3> DEFINE S == OpenOf(c)
      <3>1. IsFiniteSet(S) /\ Cardinality(S) \in Nat
        BY <1>4
      <3> HIDE DEF S
      <3>2. /\ IsFiniteSet(S \cup {o})
            /\ Cardinality(S \cup {o}) = IF o \in S THEN Cardinality(S) ELSE Cardinality(S) + 1
        BY <3>1, FS_AddElement
      <3>3. IsFiniteSet(S \cup {o}) /\ Cardinality(S \cup {o}) <= Cardinality(S) + 1
            /\ Cardinality(S \cup {o}) \in Nat
        BY <3>1, <3>2
      <3> QED BY <3>3 DEF S
    <2>2. /\ Cardinality(OpenOf(c)') <= Cardinality(OpenOf(c) \cup {o})
          /\ Cardinality(OpenOf(c)') \in Nat
      BY <1>3, <2>1, FS_Subset, FS_CardinalityType
    <2> QED BY <1>1, <1>4, <1>7, <2>1, <2>2, BoundAssumption
  <1> QED BY <1>6, <1>7

\* No other step opens an order.
LEMMA NextCapped ==
  ASSUME Lag = 0
  PROVE  TypeOK /\ OpenOrdersCapped /\ [Next]_vars => OpenOrdersCapped'
  <1> SUFFICES ASSUME TypeOK, OpenOrdersCapped, [Next]_vars
               PROVE  OpenOrdersCapped'
    OBVIOUS
  <1>1. ASSUME UNCHANGED <<orders, now>>
        PROVE  OpenOrdersCapped'
    BY <1>1, NoneOpened DEF HoldLapsed
  <1>2. ASSUME NEW o \in Order, NEW s, s \notin Submittable,
               orders' = [orders EXCEPT ![o].status = s], now' = now
        PROVE  OpenOrdersCapped'
    <2>1. orders'[o].status = s /\ \A p \in Order \ {o} : orders'[p] = orders[p]
      BY <1>2 DEF TypeOK, OrderRow
    <2> QED BY <1>2, <2>1, NoneOpened DEF HoldLapsed
  <1>3. ASSUME NEW o \in Order, NEW t \in TicketType, NEW q \in 1 .. MaxQuantity,
               IssueComplimentaryTickets(o, t, q)
        PROVE  OpenOrdersCapped'
    <2>1. /\ orders'[o].status = "issued" /\ now' = now
          /\ \A p \in Order \ {o} : orders'[p] = orders[p]
      BY <1>3 DEF IssueComplimentaryTickets, NewRow, TypeOK
    <2> QED BY <2>1, NoneOpened DEF HoldLapsed, Submittable
  <1>4. ASSUME NEW o \in Order, NEW x \in TrxId, NEW at \in Reading, SubmitPayment(o, x, at)
        PROVE  OpenOrdersCapped'
    <2>1. orders[o].status \in Submittable /\ ~HoldLapsed(o, now) /\ now' = now
      BY <1>4, ReadsNow DEF SubmitPayment
    <2>2. orders' = [orders EXCEPT ![o] = [@ EXCEPT !.status = "pending_verification", !.trx = x]]
      BY <1>4 DEF SubmitPayment
    <2>3. orders'[o].buyer = orders[o].buyer /\ \A p \in Order \ {o} : orders'[p] = orders[p]
      BY <2>2 DEF TypeOK, OrderRow
    <2> QED BY <2>1, <2>3, NoneOpened DEF HoldLapsed
  <1>5. ASSUME NEW k \in Ticket, CancelTicket(k)
        PROVE  OpenOrdersCapped'
    <2>1. CASE orders' = orders
      BY <1>1, <1>5, <2>1 DEF CancelTicket
    <2>2. CASE orders' # orders
      <3>1. k[1] \in Order /\ orders' = [orders EXCEPT ![k[1]].status = "cancelled"] /\ now' = now
        BY <1>5, <2>2 DEF CancelTicket, Ticket
      <3>2. "cancelled" \notin Submittable
        BY DEF Submittable
      <3> DEFINE o == k[1]
                 s == "cancelled"
      <3>3. o \in Order /\ orders' = [orders EXCEPT ![o].status = s] /\ now' = now
            /\ s \notin Submittable
        BY <3>1, <3>2
      <3> HIDE DEF o, s
      <3> QED BY <1>2, <3>3
    <2> QED BY <2>1, <2>2
  <1>6. ASSUME Tick PROVE OpenOrdersCapped'
    <2>1. now \in Nat /\ now' = now + 1 /\ orders' = orders
      BY <1>6, BoundAssumption DEF Tick, TypeOK
    <2>2. \A o \in Order : HoldLapsed(o, now) => HoldLapsed(o, now)'
      BY <2>1, BoundAssumption DEF HoldLapsed, LapsedBefore, TypeOK
    <2> QED BY <2>1, <2>2, NoneOpened
  <1>7. ASSUME NEW o \in Order,
               \/ ExpireHold(o) \/ RejectOrder(o)
               \/ \E x \in TrxId : ApproveOrder(o, x)
        PROVE  OpenOrdersCapped'
    <2>1. \E s : /\ s \in {"expired", "rejected", "issued"} /\ now' = now
                 /\ orders' = [orders EXCEPT ![o].status = s]
      BY <1>7 DEF ExpireHold, RejectOrder, ApproveOrder
    <2> QED BY <1>2, <2>1 DEF Submittable
  <1> QED BY <1>1, <1>3, <1>4, <1>5, <1>6, <1>7, OneOpened
          DEF Next, Worker, vars, ListLapsedHolds, SkipHold, WorkerCrash,
              VerifyOnStatement, CheckIn, UndoCheckIn, UpdateTicketType

\* createOrder's count under the buyer's lock is enough, for any cap and any
\* number of orders at once, if no time passes between a handler's reading of
\* the clock and its commit.  (With a lag it is not.)
THEOREM CapHolds ==
  ASSUME Lag = 0
  PROVE  Spec => []OpenOrdersCapped
  <1>1. Init => OpenOrdersCapped
    <2> SUFFICES ASSUME Init PROVE OpenOrdersCapped
      OBVIOUS
    <2>1. \A b \in Buyer : OpenOf(b) = {}
      BY DEF Init, OpenOf, NewRow, Submittable
    <2>2. Cardinality({}) = 0
      BY FS_EmptySet
    <2>3. \A b \in Buyer : Cardinality(OpenOf(b)) <= MaxOpenOrders
      <3>1. 0 <= MaxOpenOrders
        BY BoundAssumption
      <3> QED BY <2>1, <2>2, <3>1
    <2> QED BY <2>3 DEF OpenOrdersCapped, OpenOf
  <1> QED BY <1>1, NextCapped, TypeCorrect, PTL DEF Spec
=============================================================================
