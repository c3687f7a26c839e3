----------------------------- MODULE SeatProofs -----------------------------
(***************************************************************************)
(* The counters of module Orders count what they are supposed to, and no   *)
(* ticket type is oversold: the inductive invariant behind both, and its   *)
(* proof, for every number of orders and every bound; and from it, that    *)
(* the order service implements SeatLedger.                                *)
(***************************************************************************)
EXTENDS OrdersProofs

\* The CHECK of the ticket_types row.
StockWithinTotal ==
  \A t \in TicketType : stock[t].sold + stock[t].reserved <= stock[t].total

\* No conjunct is inductive alone: the counters match only if an order's
\* tickets exist exactly when its status says so, and the total bounds the
\* seats only through the counters.
SeatInv ==
  /\ TypeOK
  /\ TicketsMatchOrder
  /\ CountersMatchRows
  /\ StockWithinTotal

-----------------------------------------------------------------------------
(* Sets of seats.                                                          *)

\* The seats of an order for q people.
Block(o, q) == {o} \X (1 .. q)

\* An order for q people takes q seats.
LEMMA BlockSize ==
  ASSUME NEW o, NEW q \in Nat
  PROVE  IsFiniteSet(Block(o, q)) /\ Cardinality(Block(o, q)) = q
  <1>1. IsFiniteSet({o}) /\ Cardinality({o}) = 1
    BY FS_Singleton
  <1>2. IsFiniteSet(1 .. q) /\ Cardinality(1 .. q) = q
    BY FS_Interval
  <1>3. /\ IsFiniteSet({o} \X (1 .. q))
        /\ Cardinality({o} \X (1 .. q)) = Cardinality({o}) * Cardinality(1 .. q)
    BY <1>1, <1>2, FS_Product
  <1> QED BY <1>1, <1>2, <1>3 DEF Block

\* Any set of seats is finite: there are finitely many orders.
LEMMA SeatsFinite ==
  ASSUME NEW S \in SUBSET Ticket
  PROVE  IsFiniteSet(S) /\ Cardinality(S) \in Nat
  <1>1. IsFiniteSet(1 .. MaxQuantity)
    BY FS_Interval, BoundAssumption
  <1>2. IsFiniteSet(Ticket)
    BY <1>1, OrderAssumption, FS_Product DEF Ticket
  <1> QED BY <1>2, FS_Subset, FS_CardinalityType

\* Adding an order's seats adds their number.
LEMMA AddBlock ==
  ASSUME NEW S \in SUBSET Ticket, NEW o \in Order, NEW q \in Nat,
         S \cap Block(o, q) = {}
  PROVE  Cardinality(S \cup Block(o, q)) = Cardinality(S) + q
  <1>1. IsFiniteSet(S) /\ Cardinality(S) \in Nat
    BY SeatsFinite
  <1>2. IsFiniteSet(Block(o, q)) /\ Cardinality(Block(o, q)) = q
    BY BlockSize
  <1>3. Cardinality(S \cup Block(o, q)) =
          Cardinality(S) + Cardinality(Block(o, q)) - Cardinality(S \cap Block(o, q))
    BY <1>1, <1>2, FS_Union
  <1> QED BY <1>1, <1>2, <1>3, FS_EmptySet

\* Taking an order's seats away subtracts their number.
LEMMA RemoveBlock ==
  ASSUME NEW S \in SUBSET Ticket, NEW o \in Order, NEW q \in Nat,
         Block(o, q) \subseteq S
  PROVE  Cardinality(S \ Block(o, q)) = Cardinality(S) - q
  <1>1. IsFiniteSet(S)
    BY SeatsFinite
  <1>2. Cardinality(Block(o, q)) = q
    BY BlockSize
  <1>3. S \cap Block(o, q) = Block(o, q)
    OBVIOUS
  <1>4. Cardinality(S \ Block(o, q)) =
          Cardinality(S) - Cardinality(S \cap Block(o, q))
    BY <1>1, FS_Difference
  <1> QED BY <1>2, <1>3, <1>4

-----------------------------------------------------------------------------
(* How a step of one order moves its seats.                                *)

\* The seats held or sold of a type are seats.
LEMMA SeatSets ==
  ASSUME NEW t
  PROVE  HeldSeats(t) \in SUBSET Ticket /\ SoldSeats(t) \in SUBSET Ticket
  BY DEF HeldSeats, SoldSeats

\* An order that starts to hold seats.
LEMMA HeldGrows ==
  ASSUME TypeOK, NEW o \in Order, NEW row \in OrderRow, NEW t \in TicketType,
         orders[o].status \notin Submittable,
         row.status \in Submittable,
         orders' = [orders EXCEPT ![o] = row]
  PROVE  IF t = row.type
           THEN /\ HeldSeats(t)' = HeldSeats(t) \cup Block(o, row.quantity)
                /\ HeldSeats(t) \cap Block(o, row.quantity) = {}
           ELSE HeldSeats(t)' = HeldSeats(t)
  <1>1. \A p \in Order \ {o} : orders'[p] = orders[p]
    BY DEF TypeOK
  <1>2. orders'[o] = row
    BY DEF TypeOK
  <1>3. row.quantity \in 0 .. MaxQuantity
    BY DEF OrderRow
  <1> QED
    BY <1>1, <1>2, <1>3, BoundAssumption DEF HeldSeats, Block, Ticket, HoldsInventory

\* An order that stops holding seats.
LEMMA HeldShrinks ==
  ASSUME TypeOK, NEW o \in Order, NEW s, NEW t \in TicketType,
         orders[o].status \in Submittable, s \notin Submittable,
         orders' = [orders EXCEPT ![o].status = s]
  PROVE  IF t = orders[o].type
           THEN /\ HeldSeats(t)' = HeldSeats(t) \ Block(o, orders[o].quantity)
                /\ Block(o, orders[o].quantity) \subseteq HeldSeats(t)
           ELSE HeldSeats(t)' = HeldSeats(t)
  <1>1. \A p \in Order \ {o} : orders'[p] = orders[p]
    BY DEF TypeOK
  <1>2. /\ orders'[o].status = s
        /\ orders'[o].type = orders[o].type
        /\ orders'[o].quantity = orders[o].quantity
    BY DEF TypeOK, OrderRow
  <1>3. orders[o].quantity \in 0 .. MaxQuantity
    BY DEF TypeOK, OrderRow
  <1> QED
    BY <1>1, <1>2, <1>3, BoundAssumption DEF HeldSeats, Block, Ticket, HoldsInventory

\* Issuing the tickets of an order that had no live one.
LEMMA SoldGrows ==
  ASSUME TypeOK, NEW o \in Order, NEW q \in 0 .. MaxQuantity, NEW t \in TicketType,
         \A i \in 1 .. MaxQuantity : tickets[<<o, i>>] # "issued",
         IssueTickets(o, q),
         \A p \in Order \ {o} : orders'[p].type = orders[p].type
  PROVE  IF t = orders'[o].type
           THEN /\ SoldSeats(t)' = SoldSeats(t) \cup Block(o, q)
                /\ SoldSeats(t) \cap Block(o, q) = {}
           ELSE SoldSeats(t)' = SoldSeats(t)
  BY BoundAssumption DEF SoldSeats, Block, Ticket, IssueTickets

\* An order neither starts nor stops holding seats.
LEMMA HeldSame ==
  ASSUME \A p \in Order :
           /\ orders'[p].status \in Submittable <=> orders[p].status \in Submittable
           /\ orders[p].status \in Submittable =>
                /\ orders'[p].type = orders[p].type
                /\ orders'[p].quantity = orders[p].quantity
  PROVE  \A t \in TicketType : HeldSeats(t)' = HeldSeats(t)
  BY DEF HeldSeats, HoldsInventory, Ticket

\* The statuses of orders that have tickets.
Ticketed == {"issued", "cancelled"}

\* A step of an order that has no tickets, and gets none.
LEMMA NoTicketsYet ==
  ASSUME TypeOK, TicketsMatchOrder, NEW o \in Order,
         UNCHANGED tickets, \A p \in Order \ {o} : orders'[p] = orders[p],
         orders[o].status \notin Ticketed, orders'[o].status \notin Ticketed
  PROVE  /\ TicketsMatchOrder'
         /\ \A t \in TicketType : SoldSeats(t)' = SoldSeats(t)
  <1>1. \A i \in 1 .. MaxQuantity : tickets[<<o, i>>] = "none"
    BY DEF TicketsMatchOrder, Ticketed
  <1>2. \A p \in Order : LiveTickets(p)' = LiveTickets(p)
    BY DEF LiveTickets
  <1>3. TicketsMatchOrder'
    BY <1>1, <1>2 DEF TicketsMatchOrder, Ticketed
  <1>4. \A t \in TicketType : SoldSeats(t)' = SoldSeats(t)
    BY <1>1 DEF SoldSeats, Ticket
  <1> QED BY <1>3, <1>4

\* An order without tickets gets all of its tickets.
LEMMA TicketsIssued ==
  ASSUME TypeOK, TicketsMatchOrder, NEW o \in Order, NEW q \in 1 .. MaxQuantity,
         orders[o].status \notin Ticketed, IssueTickets(o, q),
         \A p \in Order \ {o} : orders'[p] = orders[p],
         orders'[o].status = "issued", orders'[o].quantity = q
  PROVE  /\ TicketsMatchOrder'
         /\ \A i \in 1 .. MaxQuantity : tickets[<<o, i>>] # "issued"
  <1>1. \A i \in 1 .. MaxQuantity : tickets[<<o, i>>] = "none"
    BY DEF TicketsMatchOrder, Ticketed
  <1>2. \A i \in 1 .. MaxQuantity :
          tickets'[<<o, i>>] = IF i <= q THEN "issued" ELSE "none"
    BY <1>1 DEF IssueTickets, Ticket
  <1>3. \A p \in Order \ {o}, i \in 1 .. MaxQuantity : tickets'[<<p, i>>] = tickets[<<p, i>>]
    BY DEF IssueTickets, Ticket
  <1>4. LiveTickets(o)' # {}
    <2>1. <<o, 1>> \in Ticket /\ 1 \in 1 .. MaxQuantity /\ 1 <= q
      BY BoundAssumption DEF Ticket
    <2>2. tickets'[<<o, 1>>] = "issued"
      BY <1>2, <2>1
    <2>3. <<o, 1>> \in LiveTickets(o)'
      BY <2>1, <2>2 DEF LiveTickets
    <2> QED BY <2>3
  <1>5. \A p \in Order \ {o} : LiveTickets(p)' = LiveTickets(p)
    BY <1>3 DEF LiveTickets, Ticket
  <1>6. TicketsMatchOrder'
    BY <1>2, <1>3, <1>4, <1>5 DEF TicketsMatchOrder
  <1> QED BY <1>1, <1>6

-----------------------------------------------------------------------------
(* Each handler keeps the books.                                           *)

\* What the counters have to follow: seats held and sold, per type.
LEMMA CountersOK ==
  ASSUME TypeOK, NEW t \in TicketType
  PROVE  /\ stock[t].total \in Nat /\ stock[t].sold \in Nat /\ stock[t].reserved \in Nat
         /\ Cardinality(HeldSeats(t)) \in Nat
         /\ Cardinality(SoldSeats(t)) \in Nat
  <1>1. stock[t].total \in Nat /\ stock[t].sold \in Nat /\ stock[t].reserved \in Nat
    BY BoundAssumption DEF TypeOK, StockRow
  <1> QED BY <1>1, SeatSets, SeatsFinite

\* What each counter statement does to the counters of every type.
LEMMA CounterMoves ==
  ASSUME stock \in [TicketType -> StockRow], NEW t \in TicketType, NEW q \in Nat,
         NEW u \in TicketType
  PROVE  LET d == IF u = t THEN q ELSE 0
             Moved(dsold, dreserved) ==
               /\ stock'[u].total = stock[u].total
               /\ stock'[u].sold = stock[u].sold + dsold
               /\ stock'[u].reserved = stock[u].reserved + dreserved
         IN  /\ Reserve(t, q) => Moved(0, d)
             /\ Release(t, q) => Moved(0, -d)
             /\ ConvertToSold(t, q) => Moved(d, -d)
             /\ ReserveAndSell(t, q) => Moved(d, 0)
             /\ ReleaseSold(t, q) => Moved(-d, 0)
  <1>1. /\ stock[t] \in StockRow /\ stock[u] \in StockRow
        /\ stock[t].sold \in Nat /\ stock[t].reserved \in Nat
        /\ stock[u].sold \in Nat /\ stock[u].reserved \in Nat
    BY DEF StockRow
  <1>2. CASE u = t
    BY <1>1, <1>2 DEF Reserve, Release, ConvertToSold, ReserveAndSell, ReleaseSold, StockRow
  <1>3. CASE u # t
    BY <1>1, <1>3 DEF Reserve, Release, ConvertToSold, ReserveAndSell, ReleaseSold
  <1> QED BY <1>2, <1>3

\* createOrder: reserve fits the seats it adds.
LEMMA CreateOrderSeats ==
  ASSUME SeatInv, TypeOK', NEW o \in Order, NEW b \in Buyer, NEW t \in TicketType,
         NEW q \in 1 .. MaxQuantity, NEW at \in Reading, CreateOrder(o, b, t, q, at)
  PROVE  SeatInv'
  <1> DEFINE row == NewRow("pending_payment", b, t, q, HoldEndsAt(at))
  <1>1. /\ orders' = [orders EXCEPT ![o] = row]
        /\ orders[o].status = "none"
        /\ Reserve(t, q)
        /\ UNCHANGED tickets
    BY DEF CreateOrder
  <1>2. /\ row.status = "pending_payment" /\ row.type = t /\ row.quantity = q
        /\ orders'[o] = row
        /\ \A p \in Order \ {o} : orders'[p] = orders[p]
    BY <1>1 DEF NewRow, SeatInv, TypeOK
  <1>3. row \in OrderRow
    BY <1>2 DEF TypeOK
  <1> HIDE DEF row
  <1>4. TicketsMatchOrder' /\ \A u \in TicketType : SoldSeats(u)' = SoldSeats(u)
    BY <1>1, <1>2, NoTicketsYet DEF SeatInv, Ticketed
  <1>5. \A u \in TicketType :
          IF u = t THEN /\ HeldSeats(u)' = HeldSeats(u) \cup Block(o, q)
                        /\ HeldSeats(u) \cap Block(o, q) = {}
                   ELSE HeldSeats(u)' = HeldSeats(u)
    <2>1. TypeOK /\ orders[o].status \notin Submittable /\ row.status \in Submittable
      BY <1>1, <1>2 DEF SeatInv, Submittable
    <2>2. ASSUME NEW u \in TicketType
          PROVE  IF u = row.type
                   THEN /\ HeldSeats(u)' = HeldSeats(u) \cup Block(o, row.quantity)
                        /\ HeldSeats(u) \cap Block(o, row.quantity) = {}
                   ELSE HeldSeats(u)' = HeldSeats(u)
      BY <1>1, <1>3, <2>1, HeldGrows
    <2> QED BY <1>2, <2>2
  <1>6. q \in Nat
    BY BoundAssumption
  <1>7. \A u \in TicketType : Cardinality(HeldSeats(u)') =
          Cardinality(HeldSeats(u)) + (IF u = t THEN q ELSE 0)
    <2> SUFFICES ASSUME NEW u \in TicketType
                 PROVE  Cardinality(HeldSeats(u)') =
                          Cardinality(HeldSeats(u)) + (IF u = t THEN q ELSE 0)
      OBVIOUS
    <2>1. Cardinality(HeldSeats(u)) \in Nat
      BY SeatSets, SeatsFinite
    <2>2. CASE u = t
      BY <1>5, <1>6, <2>2, SeatSets, AddBlock
    <2>3. CASE u # t
      BY <1>5, <2>1, <2>3
    <2> QED BY <2>2, <2>3
  <1>8. \A u \in TicketType : /\ stock'[u].total = stock[u].total
                              /\ stock'[u].sold = stock[u].sold
                              /\ stock'[u].reserved =
                                   stock[u].reserved + (IF u = t THEN q ELSE 0)
    BY <1>1, <1>6, CountersOK, CounterMoves DEF SeatInv, TypeOK
  <1>9. CountersMatchRows'
    BY <1>4, <1>7, <1>8 DEF CountersMatchRows, SeatInv
  <1>10. StockWithinTotal'
    BY <1>1, <1>6, <1>8, CountersOK DEF StockWithinTotal, SeatInv, Reserve, Available
  <1> QED BY <1>4, <1>9, <1>10 DEF SeatInv

\* The seats of an order that expires or is rejected come back.
LEMMA ReleaseSeats ==
  ASSUME SeatInv, TypeOK', NEW o \in Order, NEW s \in {"expired", "rejected"},
         orders[o].status \in Submittable,
         orders' = [orders EXCEPT ![o].status = s],
         Release(orders[o].type, orders[o].quantity), UNCHANGED tickets
  PROVE  SeatInv'
  <1> DEFINE t == orders[o].type
             q == orders[o].quantity
  <1>1. t \in TicketType /\ q \in Nat
    BY BoundAssumption DEF SeatInv, TypeOK, Submittable
  <1>2. orders'[o].status = s /\ \A p \in Order \ {o} : orders'[p] = orders[p]
    BY DEF SeatInv, TypeOK, OrderRow
  <1>3. TicketsMatchOrder' /\ \A u \in TicketType : SoldSeats(u)' = SoldSeats(u)
    BY <1>2, NoTicketsYet DEF SeatInv, Ticketed, Submittable
  <1>4. \A u \in TicketType :
          IF u = t THEN /\ HeldSeats(u)' = HeldSeats(u) \ Block(o, q)
                        /\ Block(o, q) \subseteq HeldSeats(u)
                   ELSE HeldSeats(u)' = HeldSeats(u)
    BY HeldShrinks DEF SeatInv, Submittable
  <1>5. Release(t, q)
    OBVIOUS
  <1> HIDE DEF t, q
  <1>6. \A u \in TicketType : Cardinality(HeldSeats(u)') =
          Cardinality(HeldSeats(u)) - (IF u = t THEN q ELSE 0)
    BY <1>1, <1>4, SeatSets, RemoveBlock, CountersOK DEF SeatInv
  <1>7. \A u \in TicketType : /\ stock'[u].total = stock[u].total
                              /\ stock'[u].sold = stock[u].sold
                              /\ stock'[u].reserved =
                                   stock[u].reserved - (IF u = t THEN q ELSE 0)
    BY <1>1, <1>5, CountersOK, CounterMoves DEF SeatInv, TypeOK
  <1>8. CountersMatchRows'
    BY <1>3, <1>6, <1>7 DEF CountersMatchRows, SeatInv
  <1>9. StockWithinTotal'
    BY <1>1, <1>7, CountersOK DEF StockWithinTotal, SeatInv
  <1> QED BY <1>3, <1>8, <1>9 DEF SeatInv

\* approveOrder: held seats become sold ones, and every one gets a ticket.
LEMMA ApproveOrderSeats ==
  ASSUME SeatInv, TypeOK', NEW o \in Order, NEW x \in TrxId, ApproveOrder(o, x)
  PROVE  SeatInv'
  <1> DEFINE t == orders[o].type
             q == orders[o].quantity
  <1>1. /\ orders' = [orders EXCEPT ![o].status = "issued"]
        /\ orders[o].status = "pending_verification"
        /\ ConvertToSold(t, q)
        /\ IssueTickets(o, q)
    BY DEF ApproveOrder
  <1>2. t \in TicketType /\ q \in 1 .. MaxQuantity /\ q \in 0 .. MaxQuantity /\ q \in Nat
    BY <1>1, BoundAssumption DEF SeatInv, TypeOK
  <1>3. /\ orders'[o].status = "issued" /\ orders'[o].quantity = q /\ orders'[o].type = t
        /\ \A p \in Order \ {o} : orders'[p] = orders[p]
    BY <1>1 DEF SeatInv, TypeOK, OrderRow
  <1>4. \A u \in TicketType :
          IF u = t THEN /\ HeldSeats(u)' = HeldSeats(u) \ Block(o, q)
                        /\ Block(o, q) \subseteq HeldSeats(u)
                   ELSE HeldSeats(u)' = HeldSeats(u)
    <2>1. /\ orders[o].status \in Submittable
          /\ "issued" \notin Submittable
          /\ orders' = [orders EXCEPT ![o].status = "issued"]
      BY <1>1 DEF Submittable
    <2> QED BY <2>1, HeldShrinks DEF SeatInv
  <1> HIDE DEF t, q
  <1>5. /\ TicketsMatchOrder'
        /\ \A i \in 1 .. MaxQuantity : tickets[<<o, i>>] # "issued"
    BY <1>1, <1>2, <1>3, TicketsIssued DEF SeatInv, Ticketed
  <1>6. \A u \in TicketType :
          IF u = t THEN /\ SoldSeats(u)' = SoldSeats(u) \cup Block(o, q)
                        /\ SoldSeats(u) \cap Block(o, q) = {}
                   ELSE SoldSeats(u)' = SoldSeats(u)
    BY <1>1, <1>2, <1>3, <1>5, SoldGrows DEF SeatInv
  <1>7. \A u \in TicketType :
          /\ Cardinality(HeldSeats(u)') =
               Cardinality(HeldSeats(u)) - (IF u = t THEN q ELSE 0)
          /\ Cardinality(SoldSeats(u)') =
               Cardinality(SoldSeats(u)) + (IF u = t THEN q ELSE 0)
    BY <1>2, <1>4, <1>6, SeatSets, AddBlock, RemoveBlock, CountersOK DEF SeatInv
  <1>8. \A u \in TicketType : /\ stock'[u].total = stock[u].total
                              /\ stock'[u].sold =
                                   stock[u].sold + (IF u = t THEN q ELSE 0)
                              /\ stock'[u].reserved =
                                   stock[u].reserved - (IF u = t THEN q ELSE 0)
    BY <1>1, <1>2, CountersOK, CounterMoves, SMTT(30) DEF SeatInv, TypeOK
  <1>9. CountersMatchRows'
    BY <1>7, <1>8 DEF CountersMatchRows, SeatInv
  <1>10. StockWithinTotal'
    BY <1>2, <1>8, CountersOK DEF StockWithinTotal, SeatInv
  <1> QED BY <1>5, <1>9, <1>10 DEF SeatInv

\* issueComplimentaryTickets: seats that were never held are sold.
LEMMA CompSeats ==
  ASSUME SeatInv, TypeOK', NEW o \in Order, NEW t \in TicketType,
         NEW q \in 1 .. MaxQuantity, IssueComplimentaryTickets(o, t, q)
  PROVE  SeatInv'
  <1> DEFINE row == NewRow("issued", NULL, t, q, NULL)
  <1>1. /\ orders' = [orders EXCEPT ![o] = row]
        /\ orders[o].status = "none"
        /\ ReserveAndSell(t, q)
        /\ IssueTickets(o, q)
    BY DEF IssueComplimentaryTickets
  <1>2. /\ orders'[o].status = "issued" /\ orders'[o].quantity = q /\ orders'[o].type = t
        /\ \A p \in Order \ {o} : orders'[p] = orders[p]
    BY <1>1 DEF NewRow, SeatInv, TypeOK
  <1> HIDE DEF row
  <1>3. q \in 0 .. MaxQuantity /\ q \in Nat
    BY BoundAssumption
  <1>4. \A u \in TicketType : HeldSeats(u)' = HeldSeats(u)
    BY <1>1, <1>2, HeldSame DEF Submittable
  <1>5. /\ TicketsMatchOrder'
        /\ \A i \in 1 .. MaxQuantity : tickets[<<o, i>>] # "issued"
    BY <1>1, <1>2, TicketsIssued DEF SeatInv, Ticketed
  <1>6. \A u \in TicketType :
          IF u = t THEN /\ SoldSeats(u)' = SoldSeats(u) \cup Block(o, q)
                        /\ SoldSeats(u) \cap Block(o, q) = {}
                   ELSE SoldSeats(u)' = SoldSeats(u)
    BY <1>1, <1>2, <1>3, <1>5, SoldGrows DEF SeatInv
  <1>7. \A u \in TicketType :
          Cardinality(SoldSeats(u)') = Cardinality(SoldSeats(u)) + (IF u = t THEN q ELSE 0)
    BY <1>3, <1>6, SeatSets, AddBlock, CountersOK DEF SeatInv
  <1>8. \A u \in TicketType : /\ stock'[u].total = stock[u].total
                              /\ stock'[u].sold =
                                   stock[u].sold + (IF u = t THEN q ELSE 0)
                              /\ stock'[u].reserved = stock[u].reserved
    BY <1>1, <1>3, CountersOK, CounterMoves DEF SeatInv, TypeOK
  <1>9. CountersMatchRows'
    BY <1>4, <1>7, <1>8 DEF CountersMatchRows, SeatInv
  <1>10. StockWithinTotal'
    BY <1>1, <1>3, <1>8, CountersOK
       DEF StockWithinTotal, SeatInv, ReserveAndSell, Available
  <1> QED BY <1>5, <1>9, <1>10 DEF SeatInv

\* cancelTicket: one live ticket less, and the order ends with its last one.
LEMMA CancelTicketSeats ==
  ASSUME SeatInv, TypeOK', NEW k \in Ticket, CancelTicket(k)
  PROVE  SeatInv'
  <1> DEFINE o == k[1]
             t == orders[o].type
  <1>0. o \in Order /\ k[2] \in 1 .. MaxQuantity /\ k = <<o, k[2]>>
    BY DEF Ticket
  <1>1. /\ orders[o].status = "issued"
        /\ tickets[k] = "issued"
        /\ ReleaseSold(t, 1)
        /\ tickets' = [tickets EXCEPT ![k] = "cancelled"]
        /\ orders' = IF LiveTickets(o) = {k} THEN [orders EXCEPT ![o].status = "cancelled"]
                                             ELSE orders
    BY DEF CancelTicket, Cancellable
  <1>2. t \in TicketType
    BY <1>0, <1>1 DEF SeatInv, TypeOK
  <1>3. /\ \A p \in Order : orders'[p].type = orders[p].type
                         /\ orders'[p].quantity = orders[p].quantity
        /\ \A p \in Order \ {o} : orders'[p] = orders[p]
        /\ orders'[o].status = IF LiveTickets(o) = {k} THEN "cancelled" ELSE "issued"
    <2>1. CASE LiveTickets(o) = {k}
      BY <1>0, <1>1, <2>1 DEF SeatInv, TypeOK, OrderRow
    <2>2. CASE LiveTickets(o) # {k}
      BY <1>0, <1>1, <2>2
    <2> QED BY <2>1, <2>2
  <1>4. \A u \in TicketType : HeldSeats(u)' = HeldSeats(u)
    BY <1>0, <1>1, <1>3, HeldSame DEF Submittable
  <1>5. /\ tickets'[k] = "cancelled"
        /\ \A j \in Ticket \ {k} : tickets'[j] = tickets[j]
    BY <1>1 DEF SeatInv, TypeOK
  <1>6. /\ LiveTickets(o)' = LiveTickets(o) \ {k}
        /\ \A p \in Order \ {o} : LiveTickets(p)' = LiveTickets(p)
        /\ k \in LiveTickets(o)
    BY <1>0, <1>1, <1>5 DEF LiveTickets
  <1>7. TicketsMatchOrder'
    <2>1. \A p \in Order, i \in 1 .. MaxQuantity :
            tickets'[<<p, i>>] # "none" <=> tickets[<<p, i>>] # "none"
      BY <1>1, <1>5 DEF Ticket
    <2>2. \A p \in Order : orders'[p].status \in {"issued", "cancelled"}
                             <=> orders[p].status \in {"issued", "cancelled"}
      BY <1>1, <1>3
    <2>3. \A p \in Order :
            /\ orders'[p].status = "issued" => LiveTickets(p)' # {}
            /\ orders'[p].status = "cancelled" => LiveTickets(p)' = {}
      <3>1. orders'[o].status = "issued" => LiveTickets(o)' # {}
        BY <1>3, <1>6
      <3>2. orders'[o].status = "cancelled" => LiveTickets(o)' = {}
        BY <1>3, <1>6
      <3>3. \A p \in Order \ {o} :
              /\ orders'[p].status = "issued" => LiveTickets(p)' # {}
              /\ orders'[p].status = "cancelled" => LiveTickets(p)' = {}
        BY <1>3, <1>6 DEF SeatInv, TicketsMatchOrder
      <3> HIDE DEF o
      <3> QED BY <3>1, <3>2, <3>3
    <2> QED BY <1>3, <2>1, <2>2, <2>3 DEF SeatInv, TicketsMatchOrder
  <1>8. \A u \in TicketType : Cardinality(SoldSeats(u)') =
          Cardinality(SoldSeats(u)) - (IF u = t THEN 1 ELSE 0)
    <2> TAKE u \in TicketType
    <2>1. CASE u = t
      <3>1. SoldSeats(u)' = SoldSeats(u) \ {k} /\ k \in SoldSeats(u)
        BY <1>1, <1>3, <1>5, <2>1 DEF SoldSeats, Ticket
      <3> QED BY <2>1, <3>1, SeatSets, SeatsFinite, FS_RemoveElement
    <2>2. CASE u # t
      <3>1. SoldSeats(u)' = SoldSeats(u)
        BY <1>1, <1>3, <1>5, <2>2 DEF SoldSeats, Ticket
      <3> QED BY <2>2, <3>1, CountersOK DEF SeatInv
    <2> QED BY <2>1, <2>2
  <1> HIDE DEF t
  <1>9. \A u \in TicketType : /\ stock'[u].total = stock[u].total
                              /\ stock'[u].sold =
                                   stock[u].sold - (IF u = t THEN 1 ELSE 0)
                              /\ stock'[u].reserved = stock[u].reserved
    <2>1. ASSUME NEW q \in Nat, q = 1, NEW u \in TicketType
          PROVE  /\ stock'[u].total = stock[u].total
                 /\ stock'[u].sold = stock[u].sold - (IF u = t THEN q ELSE 0)
                 /\ stock'[u].reserved = stock[u].reserved
      <3>1. ReleaseSold(t, q)
        BY <1>1, <2>1
      <3>2. /\ stock'[u].total = stock[u].total
            /\ stock'[u].sold = stock[u].sold + -(IF u = t THEN q ELSE 0)
            /\ stock'[u].reserved = stock[u].reserved + 0
        BY <1>2, <3>1, CounterMoves DEF SeatInv, TypeOK
      <3> QED BY <3>2, CountersOK DEF SeatInv
    <2> QED BY <2>1
  <1>10. CountersMatchRows'
    BY <1>4, <1>8, <1>9 DEF CountersMatchRows, SeatInv
  <1>11. StockWithinTotal'
    BY <1>9, CountersOK DEF StockWithinTotal, SeatInv
  <1> QED BY <1>7, <1>10, <1>11 DEF SeatInv

\* submitPayment: the order goes on holding the same seats.
LEMMA SubmitPaymentSeats ==
  ASSUME SeatInv, TypeOK', NEW o \in Order, NEW x \in TrxId, NEW at \in Reading,
         SubmitPayment(o, x, at)
  PROVE  SeatInv'
  <1>1. /\ orders[o].status \in Submittable
        /\ orders'[o].status = "pending_verification"
        /\ orders'[o].type = orders[o].type
        /\ orders'[o].quantity = orders[o].quantity
        /\ \A p \in Order \ {o} : orders'[p] = orders[p]
        /\ UNCHANGED <<stock, tickets>>
    BY DEF SubmitPayment, SeatInv, TypeOK, OrderRow
  <1>2. \A u \in TicketType : HeldSeats(u)' = HeldSeats(u)
    BY <1>1, HeldSame DEF Submittable
  <1>3. TicketsMatchOrder' /\ \A u \in TicketType : SoldSeats(u)' = SoldSeats(u)
    BY <1>1, NoTicketsYet DEF SeatInv, Ticketed, Submittable
  <1>4. CountersMatchRows'
    BY <1>1, <1>2, <1>3 DEF CountersMatchRows, SeatInv
  <1> QED BY <1>1, <1>3, <1>4 DEF SeatInv, StockWithinTotal

\* updateTicketType: only the total moves, and never below what is taken.
LEMMA UpdateTicketTypeSeats ==
  ASSUME SeatInv, TypeOK', NEW t \in TicketType, NEW n \in 0 .. MaxCapacity,
         UpdateTicketType(t, n)
  PROVE  SeatInv'
  <1>1. /\ stock' = [stock EXCEPT ![t].total = n]
        /\ n - stock[t].sold - stock[t].reserved >= 0
        /\ UNCHANGED <<orders, tickets>>
    BY DEF UpdateTicketType
  <1>2. \A u \in TicketType : /\ stock'[u].sold = stock[u].sold
                              /\ stock'[u].reserved = stock[u].reserved
                              /\ stock'[u].total = IF u = t THEN n ELSE stock[u].total
    BY <1>1 DEF SeatInv, TypeOK, StockRow
  <1>3. \A u \in TicketType : /\ HeldSeats(u)' = HeldSeats(u)
                              /\ SoldSeats(u)' = SoldSeats(u)
    BY <1>1 DEF HeldSeats, SoldSeats
  <1>4. CountersMatchRows'
    BY <1>2, <1>3 DEF CountersMatchRows, SeatInv
  <1>5. StockWithinTotal'
    BY <1>1, <1>2, CountersOK, BoundAssumption DEF StockWithinTotal, SeatInv
  <1>6. TicketsMatchOrder'
    BY <1>1 DEF SeatInv, TicketsMatchOrder, LiveTickets
  <1> QED BY <1>4, <1>5, <1>6 DEF SeatInv

-----------------------------------------------------------------------------

\* The books are right when the event opens.
LEMMA InitSeats == Init => SeatInv
  <1> SUFFICES ASSUME Init PROVE SeatInv
    OBVIOUS
  <1> USE BoundAssumption
  <1>1. TypeOK
    BY InitType
  <1>2. \A o \in Order : orders[o].status = "none" /\ orders[o].quantity = 0
    BY DEF Init, NewRow
  <1>3. \A t \in TicketType : stock[t].sold = 0 /\ stock[t].reserved = 0
    BY DEF Init
  <1>4. \A k \in Ticket : tickets[k] = "none"
    BY DEF Init
  <1>5. TicketsMatchOrder
    BY <1>2, <1>4 DEF TicketsMatchOrder, Ticket
  <1>6. \A t \in TicketType : HeldSeats(t) = {} /\ SoldSeats(t) = {}
    BY <1>2, <1>4 DEF HeldSeats, SoldSeats, HoldsInventory, Submittable, Ticket
  <1>7. CountersMatchRows
    BY <1>3, <1>6, FS_EmptySet DEF CountersMatchRows
  <1>8. StockWithinTotal
    BY <1>1, <1>3 DEF StockWithinTotal, TypeOK, StockRow
  <1> QED BY <1>1, <1>5, <1>7, <1>8 DEF SeatInv

\* Every step of a handler, the worker, the gate or the clock keeps the books.
LEMMA NextSeats == SeatInv /\ [Next]_vars => SeatInv'
  <1> SUFFICES ASSUME SeatInv, [Next]_vars PROVE SeatInv'
    OBVIOUS
  <1>0. TypeOK'
    BY NextType DEF SeatInv
  <1>1. ASSUME NEW o \in Order, NEW t \in TicketType, NEW q \in 1 .. MaxQuantity,
               \/ \E b \in Buyer, at \in Reading : CreateOrder(o, b, t, q, at)
               \/ IssueComplimentaryTickets(o, t, q)
        PROVE  SeatInv'
    BY <1>0, <1>1, CreateOrderSeats, CompSeats
  <1>2. ASSUME NEW o \in Order, NEW x \in TrxId,
               \/ \E at \in Reading : SubmitPayment(o, x, at)
               \/ ApproveOrder(o, x)
        PROVE  SeatInv'
    BY <1>0, <1>2, SubmitPaymentSeats, ApproveOrderSeats
  <1>3. ASSUME NEW o \in Order, RejectOrder(o)
        PROVE  SeatInv'
    BY <1>0, <1>3, ReleaseSeats DEF RejectOrder, Submittable
  <1>4. ASSUME NEW o \in Order, ExpireHold(o)
        PROVE  SeatInv'
    BY <1>0, <1>4, ReleaseSeats DEF ExpireHold, Expirable, Submittable
  <1>5. ASSUME NEW k \in Ticket, CancelTicket(k)
        PROVE  SeatInv'
    BY <1>0, <1>5, CancelTicketSeats
  <1>6. ASSUME NEW t \in TicketType, NEW n \in 0 .. MaxCapacity, UpdateTicketType(t, n)
        PROVE  SeatInv'
    BY <1>0, <1>6, UpdateTicketTypeSeats
  <1>7. CASE UNCHANGED <<orders, stock, tickets>>
    <2>1. TicketsMatchOrder' /\ CountersMatchRows' /\ StockWithinTotal'
      <3>1. TicketsMatchOrder'
        BY <1>7 DEF SeatInv, TicketsMatchOrder, LiveTickets
      <3>2. CountersMatchRows'
        BY <1>7 DEF SeatInv, CountersMatchRows, HeldSeats, SoldSeats
      <3>3. StockWithinTotal'
        BY <1>7 DEF SeatInv, StockWithinTotal
      <3> QED BY <3>1, <3>2, <3>3
    <2> QED BY <1>0, <2>1 DEF SeatInv
  <1>8. \/ \E o \in Order, t \in TicketType, q \in 1 .. MaxQuantity :
             \/ \E b \in Buyer, at \in Reading : CreateOrder(o, b, t, q, at)
             \/ IssueComplimentaryTickets(o, t, q)
        \/ \E o \in Order, x \in TrxId :
             \/ \E at \in Reading : SubmitPayment(o, x, at)
             \/ ApproveOrder(o, x)
        \/ \E o \in Order : RejectOrder(o) \/ ExpireHold(o)
        \/ \E k \in Ticket : CancelTicket(k)
        \/ \E t \in TicketType, n \in 0 .. MaxCapacity : UpdateTicketType(t, n)
        \/ UNCHANGED <<orders, stock, tickets>>
    BY DEF Next, Worker, vars, ListLapsedHolds, SkipHold, WorkerCrash,
           VerifyOnStatement, CheckIn, UndoCheckIn, Tick
  <1> QED BY <1>1, <1>2, <1>3, <1>4, <1>5, <1>6, <1>7, <1>8

\* The books of the whole sale, as one invariant.
THEOREM SeatsKept == Spec => []SeatInv
  <1> QED BY InitSeats, NextSeats, PTL DEF Spec

\* quantity_reserved and quantity_sold count, at every moment, the seats of the
\* open orders and the live tickets: no expiry, approval, rejection, gift or
\* cancellation, in any order, lets them drift.
THEOREM CountersCorrect == Spec => []CountersMatchRows
  <1>1. SeatInv => CountersMatchRows
    BY DEF SeatInv
  <1> QED BY <1>1, SeatsKept, PTL

\* An order has its tickets exactly from approval on, one for each seat, and is
\* cancelled exactly when the last of them is.
THEOREM TicketsCorrect == Spec => []TicketsMatchOrder
  <1>1. SeatInv => TicketsMatchOrder
    BY DEF SeatInv
  <1> QED BY <1>1, SeatsKept, PTL

\* The event is never oversold.
THEOREM NeverOversold == Spec => []SeatsWithinCapacity
  <1>1. SeatInv => SeatsWithinCapacity
    BY CountersOK DEF SeatInv, CountersMatchRows, StockWithinTotal, SeatsWithinCapacity
  <1> QED BY <1>1, SeatsKept, PTL

-----------------------------------------------------------------------------
(* Orders implements SeatLedger: the counters and status columns keep the  *)
(* books of every single seat.                                             *)


\* A row that does not exist yet asks for no seat.
UnbornEmpty == \A o \in Order : orders[o].status = "none" => orders[o].quantity = 0

\* What the mapping of the rows onto seats needs: the books, and nothing
\* booked for an order that has not been placed.
MapInv == SeatInv /\ UnbornEmpty

-----------------------------------------------------------------------------
(* The mapping.                                                            *)

\* SeatState case by case, when a ticket row has one of its three states.
LEMMA SeatStateCases ==
  ASSUME NEW k \in Ticket, tickets[k] \in {"none", "issued", "cancelled"}
  PROVE  SeatState(k) =
           IF tickets[k] = "issued" THEN "sold"
           ELSE IF tickets[k] = "cancelled" THEN "back"
           ELSE IF ~(k[2] <= orders[k[1]].quantity) THEN "unused"
           ELSE IF orders[k[1]].status \in Submittable THEN "held" ELSE "back"
  BY DEF SeatState, HoldsInventory

\* The same after a step.
LEMMA SeatStateCasesNext ==
  ASSUME NEW k \in Ticket, tickets'[k] \in {"none", "issued", "cancelled"}
  PROVE  SeatState(k)' =
           IF tickets'[k] = "issued" THEN "sold"
           ELSE IF tickets'[k] = "cancelled" THEN "back"
           ELSE IF ~(k[2] <= orders'[k[1]].quantity) THEN "unused"
           ELSE IF orders'[k[1]].status \in Submittable THEN "held" ELSE "back"
  BY DEF SeatState, HoldsInventory

\* The seats the ledger has as held and as sold are those the rows hold and
\* those with a live ticket.
LEMMA LedgerSeats ==
  ASSUME SeatInv, NEW t \in TicketType
  PROVE  /\ Ledger!SeatsIn(t, "held") = HeldSeats(t)
         /\ Ledger!SeatsIn(t, "sold") = SoldSeats(t)
  <1>1. \A k \in Ticket : k[1] \in Order /\ k[2] \in 1 .. MaxQuantity /\ k = <<k[1], k[2]>>
    BY DEF Ticket
  <1>2. \A k \in Ticket : /\ tickets[k] \in {"none", "issued", "cancelled"}
                          /\ orders[k[1]].status \in Submittable => tickets[k] = "none"
    <2> TAKE k \in Ticket
    <2>1. tickets[k] \in {"none", "issued", "cancelled"}
      BY DEF SeatInv, TypeOK
    <2>2. tickets[<<k[1], k[2]>>] # "none" => orders[k[1]].status \notin Submittable
      BY <1>1 DEF SeatInv, TicketsMatchOrder, Submittable
    <2> QED BY <1>1, <2>1, <2>2
  <1>3. \A k \in Ticket : /\ SeatState(k) = "sold" <=> tickets[k] = "issued"
                          /\ SeatState(k) = "held" <=>
                               /\ orders[k[1]].status \in Submittable
                               /\ k[2] <= orders[k[1]].quantity
    BY <1>2, SeatStateCases
  <1>4. Ledger!SeatsIn(t, "held") = {k \in Ticket : orders[k[1]].type = t
                                                     /\ SeatState(k) = "held"}
    BY <1>1 DEF Ledger!SeatsIn, Ledger!Seat, Ticket
  <1>5. Ledger!SeatsIn(t, "sold") = {k \in Ticket : orders[k[1]].type = t
                                                     /\ SeatState(k) = "sold"}
    BY <1>1 DEF Ledger!SeatsIn, Ledger!Seat, Ticket
  <1> QED BY <1>3, <1>4, <1>5 DEF HeldSeats, SoldSeats, HoldsInventory

\* The ledger counts what the two counters count.
LEMMA LedgerTaken ==
  ASSUME SeatInv, NEW t \in TicketType
  PROVE  Ledger!Taken(t) = stock[t].reserved + stock[t].sold
  <1>1. \A S : Ledger!Cardinality(S) = Cardinality(S)
    BY DEF Ledger!Cardinality, Cardinality
  <1>2. stock[t].reserved = Cardinality(HeldSeats(t)) /\ stock[t].sold = Cardinality(SoldSeats(t))
    BY DEF SeatInv, CountersMatchRows
  <1> QED BY <1>1, <1>2, LedgerSeats, CountersOK DEF Ledger!Taken, SeatInv

\* Nothing is taken by an order that has not been placed.
LEMMA UnbornUnused ==
  ASSUME MapInv, NEW o \in Order, orders[o].status = "none"
  PROVE  Ledger!Unused(o) /\ \A i \in 1 .. MaxQuantity : tickets[<<o, i>>] = "none"
  <1>1. \A i \in 1 .. MaxQuantity : <<o, i>> \in Ticket /\ tickets[<<o, i>>] = "none"
    BY DEF MapInv, SeatInv, TicketsMatchOrder, Ticket
  <1>2. orders[o].quantity = 0
    BY DEF MapInv, UnbornEmpty
  <1>3. \A i \in 1 .. MaxQuantity : ~(i <= orders[o].quantity)
    BY <1>2, BoundAssumption
  <1>4. \A i \in 1 .. MaxQuantity : SeatState(<<o, i>>) = "unused"
    BY <1>1, <1>3, SeatStateCases
  <1>5. Ledger!Unused(o)
    BY <1>1, <1>4 DEF Ledger!Unused, Ledger!Seat, Ticket
  <1> QED BY <1>1, <1>5

\* A step that leaves type, seats and totals alone is none of the ledger's.
LEMMA LedgerStutters ==
  ASSUME \A o \in Order : orders'[o].type = orders[o].type,
         \A k \in Ticket : SeatState(k)' = SeatState(k),
         \A t \in TicketType : stock'[t].total = stock[t].total
  PROVE  UNCHANGED Ledger!vars
  BY DEF Ledger!vars, Ledger!Seat, Ticket

-----------------------------------------------------------------------------
(* Each handler is a step of the ledger.                                   *)

\* A step of one order moves no other order's seats.
LEMMA OthersSeats ==
  ASSUME TypeOK, TypeOK', NEW o \in Order, NEW k \in Ticket, k[1] # o,
         orders'[k[1]] = orders[k[1]], tickets'[k] = tickets[k]
  PROVE  SeatState(k)' = SeatState(k)
  <1>1. tickets[k] \in {"none", "issued", "cancelled"}
    BY DEF TypeOK
  <1> QED BY <1>1, SeatStateCases, SeatStateCasesNext

\* An order that is born takes its seats: held when somebody registered, sold
\* when the organizer gives tickets away.
LEMMA BirthTakes ==
  ASSUME MapInv, TypeOK', NEW o \in Order, NEW t \in TicketType,
         NEW q \in 1 .. MaxQuantity, NEW s \in {"held", "sold"},
         orders[o].status = "none",
         Available(t) >= q,
         \A u \in TicketType : stock'[u].total = stock[u].total,
         orders'[o].type = t, orders'[o].quantity = q,
         \A p \in Order \ {o} : orders'[p] = orders[p],
         \/ /\ s = "held" /\ orders'[o].status = "pending_payment" /\ UNCHANGED tickets
         \/ /\ s = "sold" /\ orders'[o].status = "issued" /\ IssueTickets(o, q)
  PROVE  Ledger!Take(o, t, q, s)
  <1>1. Ledger!Unused(o) /\ \A i \in 1 .. MaxQuantity : tickets[<<o, i>>] = "none"
    BY UnbornUnused
  <1>2. Ledger!Taken(t) + q <= stock[t].total
    BY LedgerTaken, CountersOK, BoundAssumption DEF MapInv, SeatInv, Available
  <1>3. \A k \in Ticket : k[1] \in Order /\ k[2] \in 1 .. MaxQuantity /\ k = <<k[1], k[2]>>
    BY DEF Ticket
  <1>4. \A k \in Ticket :
          /\ k[1] = o => tickets'[k] = IF s = "sold" /\ k[2] <= q THEN "issued" ELSE "none"
          /\ k[1] # o => tickets'[k] = tickets[k]
    <2>1. CASE s = "held" /\ UNCHANGED tickets
      BY <1>1, <1>3, <2>1
    <2>2. CASE s = "sold" /\ IssueTickets(o, q)
      BY <1>1, <1>3, <2>2 DEF IssueTickets
    <2> QED BY <2>1, <2>2
  <1>5. \A k \in Ticket :
          SeatState(k)' = IF k[1] = o /\ k[2] <= q THEN s ELSE SeatState(k)
    <2> TAKE k \in Ticket
    <2>1. CASE k[1] # o
      BY <1>3, <1>4, <2>1, OthersSeats DEF MapInv, SeatInv
    <2>2. CASE k[1] = o
      <3>1. SeatState(k)' = IF k[2] <= q THEN s ELSE "unused"
        BY <1>4, <2>2, SeatStateCasesNext DEF Submittable
      <3>2. SeatState(k) = "unused"
        <4>1. tickets[k] = "none" /\ ~(k[2] <= orders[k[1]].quantity)
          BY <1>1, <1>3, <2>2, BoundAssumption DEF MapInv, UnbornEmpty
        <4> QED BY <4>1, SeatStateCases
      <3> QED BY <2>2, <3>1, <3>2
    <2> QED BY <2>1, <2>2
  <1>6. [k \in Ticket |-> SeatState(k)]' =
          [k \in Ticket |-> IF k[1] = o /\ k[2] <= q THEN s
                                                     ELSE [j \in Ticket |-> SeatState(j)][k]]
    BY <1>5
  <1>7. [p \in Order |-> orders[p].type]' =
          [[p \in Order |-> orders[p].type] EXCEPT ![o] = t]
    OBVIOUS
  <1>8. [u \in TicketType |-> stock[u].total]' = [u \in TicketType |-> stock[u].total]
    OBVIOUS
  <1> QED BY <1>1, <1>2, <1>6, <1>7, <1>8
          DEF Ledger!Take, Ledger!FirstSeats, Ledger!Seat, Ticket

\* An order that stops holding seats settles them all together.
LEMMA HoldSettles ==
  ASSUME MapInv, TypeOK', NEW o \in Order, NEW s \in {"sold", "back"},
         orders[o].status \in Submittable,
         \A u \in TicketType : stock'[u].total = stock[u].total,
         orders'[o].type = orders[o].type, orders'[o].quantity = orders[o].quantity,
         \A p \in Order \ {o} : orders'[p] = orders[p],
         orders'[o].status \notin Submittable,
         \/ s = "back" /\ UNCHANGED tickets
         \/ s = "sold" /\ IssueTickets(o, orders[o].quantity)
  PROVE  Ledger!Settle(o, s)
  <1> DEFINE q == orders[o].quantity
  <1>0. q \in 1 .. MaxQuantity
    BY DEF MapInv, SeatInv, TypeOK, Submittable
  <1>1. \A i \in 1 .. MaxQuantity : <<o, i>> \in Ticket /\ tickets[<<o, i>>] = "none"
    BY DEF MapInv, SeatInv, TicketsMatchOrder, Ticket, Submittable
  <1>2. \A k \in Ticket : k[1] \in Order /\ k[2] \in 1 .. MaxQuantity /\ k = <<k[1], k[2]>>
    BY DEF Ticket
  <1>3. \A k \in Ticket :
          /\ k[1] = o => tickets'[k] = IF s = "sold" /\ k[2] <= q THEN "issued" ELSE "none"
          /\ k[1] # o => tickets'[k] = tickets[k]
    <2>1. CASE s = "back" /\ UNCHANGED tickets
      BY <1>1, <1>2, <2>1
    <2>2. CASE s = "sold" /\ IssueTickets(o, q)
      BY <1>1, <1>2, <2>2 DEF IssueTickets
    <2> QED BY <2>1, <2>2
  <1>4. \A k \in Ticket : k[1] = o =>
          /\ SeatState(k) = IF k[2] <= q THEN "held" ELSE "unused"
          /\ SeatState(k)' = IF k[2] <= q THEN s ELSE "unused"
    <2> SUFFICES ASSUME NEW k \in Ticket, k[1] = o
                 PROVE  /\ SeatState(k) = IF k[2] <= q THEN "held" ELSE "unused"
                        /\ SeatState(k)' = IF k[2] <= q THEN s ELSE "unused"
      OBVIOUS
    <2>1. tickets[k] = "none"
      BY <1>1, <1>2
    <2>2. SeatState(k) = IF k[2] <= q THEN "held" ELSE "unused"
      BY <2>1, SeatStateCases
    <2>3. SeatState(k)' = IF k[2] <= q THEN s ELSE "unused"
      BY <1>3, SeatStateCasesNext
    <2> QED BY <2>2, <2>3
  <1>5. \A k \in Ticket :
          SeatState(k)' = IF k[1] = o /\ SeatState(k) = "held" THEN s ELSE SeatState(k)
    <2> TAKE k \in Ticket
    <2>1. CASE k[1] # o
      BY <1>2, <1>3, <2>1, OthersSeats DEF MapInv, SeatInv
    <2>2. CASE k[1] = o
      BY <1>4, <2>2
    <2> QED BY <2>1, <2>2
  <1>6. [k \in Ticket |-> SeatState(k)]' =
          [k \in Ticket |-> IF k[1] = o /\ [j \in Ticket |-> SeatState(j)][k] = "held"
                              THEN s ELSE [j \in Ticket |-> SeatState(j)][k]]
    BY <1>5
  <1>7. [p \in Order |-> orders[p].type]' = [p \in Order |-> orders[p].type]
    OBVIOUS
  <1>8. [u \in TicketType |-> stock[u].total]' = [u \in TicketType |-> stock[u].total]
    OBVIOUS
  <1>9. \E i \in 1 .. MaxQuantity : [k \in Ticket |-> SeatState(k)][<<o, i>>] = "held"
    <2>1. <<o, 1>> \in Ticket /\ 1 \in 1 .. MaxQuantity /\ 1 <= q
      BY <1>0, BoundAssumption DEF Ticket
    <2>2. SeatState(<<o, 1>>) = "held"
      BY <1>4, <2>1
    <2> QED BY <2>1, <2>2
  <1> QED BY <1>6, <1>7, <1>8, <1>9
          DEF Ledger!Settle, Ledger!MoveAll, Ledger!Seat, Ticket

\* cancelTicket gives its one seat back, whether or not the order ends with it.
LEMMA CancelGivesBack ==
  ASSUME MapInv, TypeOK', NEW k \in Ticket, CancelTicket(k)
  PROVE  Ledger!GiveBack(k[1], k[2])
  <1> DEFINE o == k[1]
  <1>1. o \in Order /\ k[2] \in 1 .. MaxQuantity /\ k = <<o, k[2]>>
    BY DEF Ticket
  <1>2. /\ orders[o].status = "issued"
        /\ tickets[k] = "issued"
        /\ ReleaseSold(orders[o].type, 1)
        /\ tickets' = [tickets EXCEPT ![k] = "cancelled"]
        /\ orders' = IF LiveTickets(o) = {k} THEN [orders EXCEPT ![o].status = "cancelled"]
                                             ELSE orders
    BY DEF CancelTicket, Cancellable
  <1>3. /\ \A p \in Order : orders'[p].type = orders[p].type
                         /\ orders'[p].quantity = orders[p].quantity
        /\ \A p \in Order \ {o} : orders'[p] = orders[p]
        /\ orders'[o].status \notin Submittable
    <2>1. CASE LiveTickets(o) = {k}
      BY <1>1, <1>2, <2>1 DEF MapInv, SeatInv, TypeOK, OrderRow, Submittable
    <2>2. CASE LiveTickets(o) # {k}
      BY <1>1, <1>2, <2>2 DEF Submittable
    <2> QED BY <2>1, <2>2
  <1>4. /\ tickets'[k] = "cancelled"
        /\ \A j \in Ticket \ {k} : tickets'[j] = tickets[j]
    BY <1>2 DEF MapInv, SeatInv, TypeOK
  <1>5. \A j \in Ticket : tickets[j] \in {"none", "issued", "cancelled"}
    BY DEF MapInv, SeatInv, TypeOK
  <1>6. \A j \in Ticket : SeatState(j)' = IF j = k THEN "back" ELSE SeatState(j)
    <2> TAKE j \in Ticket
    <2>1. CASE j = k
      BY <1>4, <2>1, SeatStateCasesNext
    <2>2. CASE j # k
      <3>1. tickets'[j] = tickets[j] /\ j[1] \in Order
        BY <1>4, <2>2 DEF Ticket
      <3>2. orders'[j[1]].status \in Submittable <=> orders[j[1]].status \in Submittable
        BY <1>2, <1>3, <3>1 DEF Submittable
      <3>3. orders'[j[1]].quantity = orders[j[1]].quantity
        BY <1>3, <3>1
      <3> HIDE DEF o
      <3> QED BY <1>5, <2>2, <3>1, <3>2, <3>3, SeatStateCases, SeatStateCasesNext
    <2> QED BY <2>1, <2>2
  <1>7. SeatState(k) = "sold"
    BY <1>2, SeatStateCases
  <1>8. [j \in Ticket |-> SeatState(j)]' =
          [[j \in Ticket |-> SeatState(j)] EXCEPT ![<<k[1], k[2]>>] = "back"]
    BY <1>1, <1>6
  <1>9. [j \in Ticket |-> SeatState(j)][<<k[1], k[2]>>] = "sold"
    BY <1>1, <1>7
  <1>10. [p \in Order |-> orders[p].type]' = [p \in Order |-> orders[p].type]
    BY <1>3
  <1>11. [u \in TicketType |-> stock[u].total]' = [u \in TicketType |-> stock[u].total]
    <2>1. orders[o].type \in TicketType
      BY <1>1, <1>2 DEF MapInv, SeatInv, TypeOK
    <2>2. \A u \in TicketType : stock'[u].total = stock[u].total
      BY <1>2, <2>1 DEF ReleaseSold, MapInv, SeatInv, TypeOK, StockRow
    <2> QED BY <2>2
  <1> HIDE DEF o
  <1> QED BY <1>8, <1>9, <1>10, <1>11 DEF Ledger!GiveBack, Ledger!Seat, Ticket

\* updateTicketType puts another number of seats on sale, never fewer than are
\* taken.
LEMMA EditResizes ==
  ASSUME MapInv, NEW t \in TicketType, NEW n \in 0 .. MaxCapacity,
         UpdateTicketType(t, n)
  PROVE  Ledger!Resize(t, n)
  <1>1. /\ stock' = [stock EXCEPT ![t].total = n]
        /\ n - stock[t].sold - stock[t].reserved >= 0
        /\ UNCHANGED <<orders, tickets>>
    BY DEF UpdateTicketType
  <1>2. Ledger!Taken(t) <= n
    BY <1>1, LedgerTaken, CountersOK, BoundAssumption DEF MapInv, SeatInv
  <1>3. [u \in TicketType |-> stock[u].total]' =
          [[u \in TicketType |-> stock[u].total] EXCEPT ![t] = n]
    BY <1>1 DEF MapInv, SeatInv, TypeOK, StockRow
  <1>4. \A k \in Ticket : SeatState(k)' = SeatState(k)
    BY <1>1 DEF SeatState
  <1>5. /\ [k \in Ticket |-> SeatState(k)]' = [k \in Ticket |-> SeatState(k)]
        /\ [p \in Order |-> orders[p].type]' = [p \in Order |-> orders[p].type]
    BY <1>1, <1>4
  <1> QED BY <1>2, <1>3, <1>5 DEF Ledger!Resize, Ledger!Seat, Ticket

\* submitPayment: the order goes on holding the same seats.
LEMMA SubmitStutters ==
  ASSUME MapInv, TypeOK', NEW o \in Order, NEW x \in TrxId, NEW at \in Reading,
         SubmitPayment(o, x, at)
  PROVE  UNCHANGED Ledger!vars
  <1>1. /\ orders[o].status \in Submittable
        /\ orders'[o].status \in Submittable
        /\ orders'[o].type = orders[o].type
        /\ orders'[o].quantity = orders[o].quantity
        /\ \A p \in Order \ {o} : orders'[p] = orders[p]
        /\ UNCHANGED <<stock, tickets>>
    BY DEF SubmitPayment, MapInv, SeatInv, TypeOK, OrderRow, Submittable
  <1>2. \A k \in Ticket : k[1] \in Order /\ tickets[k] \in {"none", "issued", "cancelled"}
    BY DEF MapInv, SeatInv, TypeOK, Ticket
  <1>3. \A k \in Ticket : SeatState(k)' = SeatState(k)
    BY <1>1, <1>2, SeatStateCases, SeatStateCasesNext
  <1> QED BY <1>1, <1>3, LedgerStutters

-----------------------------------------------------------------------------
(* The refinement.                                                         *)

\* Nothing has been placed when the event opens.
LEMMA InitMap == Init => MapInv /\ Ledger!Init
  <1> SUFFICES ASSUME Init PROVE MapInv /\ Ledger!Init
    OBVIOUS
  <1>1. /\ \A o \in Order : /\ orders[o].status = "none" /\ orders[o].quantity = 0
                            /\ orders[o].type = NULL
        /\ \A k \in Ticket : tickets[k] = "none" /\ k[1] \in Order /\ k[2] \in 1 .. MaxQuantity
        /\ \A t \in TicketType : stock[t].total \in 0 .. MaxCapacity
    BY DEF Init, NewRow, Ticket
  <1>2. MapInv
    BY <1>1, InitSeats DEF MapInv, UnbornEmpty
  <1>3. \A k \in Ticket : SeatState(k) = "unused"
    <2> TAKE k \in Ticket
    <2>1. tickets[k] = "none" /\ ~(k[2] <= orders[k[1]].quantity)
      BY <1>1, BoundAssumption
    <2> QED BY <2>1, SeatStateCases
  <1>4. Ledger!Init
    BY <1>1, <1>3 DEF Ledger!Init, Ledger!Seat, Ticket
  <1> QED BY <1>2, <1>4

\* A step writes complete rows or leaves an unplaced order as it is.
LEMMA UnbornStays ==
  ASSUME TypeOK, TypeOK', UnbornEmpty, [Next]_vars
  PROVE  UnbornEmpty'
  <1> SUFFICES \A p \in Order : orders'[p].status = "none" => orders'[p] = orders[p]
    BY DEF UnbornEmpty
  <1>1. ASSUME NEW o \in Order, NEW row, row.status # "none",
               orders' = [orders EXCEPT ![o] = row]
        PROVE  \A p \in Order : orders'[p].status = "none" => orders'[p] = orders[p]
    BY <1>1 DEF TypeOK
  <1>2. ASSUME NEW o \in Order, NEW s, s # "none",
               orders' = [orders EXCEPT ![o].status = s]
        PROVE  \A p \in Order : orders'[p].status = "none" => orders'[p] = orders[p]
    BY <1>2 DEF TypeOK, OrderRow
  <1>3. CASE UNCHANGED orders
    BY <1>3
  <1>4. ASSUME NEW o \in Order, NEW t \in TicketType, NEW q \in 1 .. MaxQuantity,
               \/ \E b \in Buyer, at \in Reading : CreateOrder(o, b, t, q, at)
               \/ IssueComplimentaryTickets(o, t, q)
        PROVE  \A p \in Order : orders'[p].status = "none" => orders'[p] = orders[p]
    <2>1. PICK row : row.status # "none" /\ orders' = [orders EXCEPT ![o] = row]
      BY <1>4 DEF CreateOrder, IssueComplimentaryTickets, NewRow
    <2> QED BY <1>1, <2>1
  <1>5. ASSUME NEW o \in Order, NEW x \in TrxId, NEW at \in Reading, SubmitPayment(o, x, at)
        PROVE  \A p \in Order : orders'[p].status = "none" => orders'[p] = orders[p]
    BY <1>5 DEF SubmitPayment, TypeOK, OrderRow
  <1>6. ASSUME NEW o \in Order,
               \/ \E x \in TrxId : ApproveOrder(o, x)
               \/ RejectOrder(o) \/ ExpireHold(o)
        PROVE  \A p \in Order : orders'[p].status = "none" => orders'[p] = orders[p]
    <2>1. PICK s : s # "none" /\ orders' = [orders EXCEPT ![o].status = s]
      BY <1>6 DEF ApproveOrder, RejectOrder, ExpireHold
    <2> QED BY <1>2, <2>1
  <1>7. ASSUME NEW k \in Ticket, CancelTicket(k)
        PROVE  \A p \in Order : orders'[p].status = "none" => orders'[p] = orders[p]
    <2>1. k[1] \in Order
      BY DEF Ticket
    <2>2. \/ UNCHANGED orders
          \/ orders' = [orders EXCEPT ![k[1]].status = "cancelled"]
      BY <1>7 DEF CancelTicket
    <2>3. CASE orders' = [orders EXCEPT ![k[1]].status = "cancelled"]
      BY <1>2, <2>1, <2>3
    <2> QED BY <1>3, <2>2, <2>3
  <1> QED BY <1>3, <1>4, <1>5, <1>6, <1>7
          DEF Next, Worker, vars, ListLapsedHolds, SkipHold, WorkerCrash,
              VerifyOnStatement, CheckIn, UndoCheckIn, UpdateTicketType, Tick

\* Every step is one of the ledger's, or none.
LEMMA NextMaps ==
  ASSUME MapInv, TypeOK', [Next]_vars
  PROVE  [Ledger!Next]_(Ledger!vars)
  <1>1. ASSUME NEW o \in Order, NEW t \in TicketType, NEW q \in 1 .. MaxQuantity,
               \E b \in Buyer, at \in Reading : CreateOrder(o, b, t, q, at)
        PROVE  Ledger!Take(o, t, q, "held")
    <2>1. PICK b \in Buyer, at \in Reading : CreateOrder(o, b, t, q, at)
      BY <1>1
    <2>2. /\ orders[o].status = "none" /\ Reserve(t, q) /\ UNCHANGED tickets
          /\ orders' = [orders EXCEPT ![o] =
                          NewRow("pending_payment", b, t, q, HoldEndsAt(at))]
      BY <2>1 DEF CreateOrder
    <2>3. /\ orders'[o].status = "pending_payment"
          /\ orders'[o].type = t /\ orders'[o].quantity = q
          /\ \A p \in Order \ {o} : orders'[p] = orders[p]
      BY <2>2 DEF NewRow, MapInv, SeatInv, TypeOK
    <2>4. Available(t) >= q /\ \A u \in TicketType : stock'[u].total = stock[u].total
      BY <2>2 DEF Reserve, MapInv, SeatInv, TypeOK, StockRow
    <2> QED BY <2>2, <2>3, <2>4, BirthTakes
  <1>2. ASSUME NEW o \in Order, NEW t \in TicketType, NEW q \in 1 .. MaxQuantity,
               IssueComplimentaryTickets(o, t, q)
        PROVE  Ledger!Take(o, t, q, "sold")
    <2>1. /\ orders[o].status = "none" /\ ReserveAndSell(t, q) /\ IssueTickets(o, q)
          /\ orders' = [orders EXCEPT ![o] = NewRow("issued", NULL, t, q, NULL)]
      BY <1>2 DEF IssueComplimentaryTickets
    <2>2. /\ orders'[o].status = "issued"
          /\ orders'[o].type = t /\ orders'[o].quantity = q
          /\ \A p \in Order \ {o} : orders'[p] = orders[p]
      BY <2>1 DEF NewRow, MapInv, SeatInv, TypeOK
    <2>3. Available(t) >= q /\ \A u \in TicketType : stock'[u].total = stock[u].total
      BY <2>1 DEF ReserveAndSell, MapInv, SeatInv, TypeOK, StockRow
    <2> QED BY <2>1, <2>2, <2>3, BirthTakes
  <1>3. ASSUME NEW o \in Order, NEW x \in TrxId, ApproveOrder(o, x)
        PROVE  Ledger!Settle(o, "sold")
    <2>1. /\ orders[o].status = "pending_verification"
          /\ ConvertToSold(orders[o].type, orders[o].quantity)
          /\ IssueTickets(o, orders[o].quantity)
          /\ orders' = [orders EXCEPT ![o].status = "issued"]
      BY <1>3 DEF ApproveOrder
    <2>2. /\ orders[o].status \in Submittable
          /\ orders'[o].status \notin Submittable
          /\ orders'[o].type = orders[o].type /\ orders'[o].quantity = orders[o].quantity
          /\ \A p \in Order \ {o} : orders'[p] = orders[p]
      BY <2>1 DEF MapInv, SeatInv, TypeOK, OrderRow, Submittable
    <2>3. orders[o].type \in TicketType
      BY <2>1 DEF MapInv, SeatInv, TypeOK
    <2>4. \A u \in TicketType : stock'[u].total = stock[u].total
      BY <2>1, <2>3 DEF ConvertToSold, MapInv, SeatInv, TypeOK, StockRow
    <2> QED BY <2>1, <2>2, <2>4, HoldSettles
  <1>4. ASSUME NEW o \in Order, RejectOrder(o) \/ ExpireHold(o)
        PROVE  Ledger!Settle(o, "back")
    <2>1. /\ orders[o].status \in Submittable
          /\ Release(orders[o].type, orders[o].quantity) /\ UNCHANGED tickets
          /\ \/ orders' = [orders EXCEPT ![o].status = "rejected"]
             \/ orders' = [orders EXCEPT ![o].status = "expired"]
      BY <1>4 DEF RejectOrder, ExpireHold, Expirable, Submittable
    <2>2. /\ orders'[o].status \notin Submittable
          /\ orders'[o].type = orders[o].type /\ orders'[o].quantity = orders[o].quantity
          /\ \A p \in Order \ {o} : orders'[p] = orders[p]
      BY <2>1 DEF MapInv, SeatInv, TypeOK, OrderRow, Submittable
    <2>3. orders[o].type \in TicketType
      BY <2>1 DEF MapInv, SeatInv, TypeOK, Submittable
    <2>4. \A u \in TicketType : stock'[u].total = stock[u].total
      BY <2>1, <2>3 DEF Release, MapInv, SeatInv, TypeOK, StockRow
    <2> QED BY <2>1, <2>2, <2>4, HoldSettles
  <1>5. ASSUME NEW k \in Ticket, CancelTicket(k)
        PROVE  \E o \in Order, i \in 1 .. MaxQuantity : Ledger!GiveBack(o, i)
    <2>1. k[1] \in Order /\ k[2] \in 1 .. MaxQuantity
      BY DEF Ticket
    <2> QED BY <1>5, <2>1, CancelGivesBack
  <1>6. CASE UNCHANGED <<orders, stock, tickets>>
    <2>1. \A k \in Ticket : SeatState(k)' = SeatState(k)
      BY <1>6 DEF SeatState
    <2> QED BY <1>6, <2>1, LedgerStutters
  <1>7. \/ \E o \in Order, t \in TicketType, q \in 1 .. MaxQuantity :
             \/ \E b \in Buyer, at \in Reading : CreateOrder(o, b, t, q, at)
             \/ IssueComplimentaryTickets(o, t, q)
        \/ \E o \in Order, x \in TrxId :
             \/ \E at \in Reading : SubmitPayment(o, x, at)
             \/ ApproveOrder(o, x)
        \/ \E o \in Order : RejectOrder(o) \/ ExpireHold(o)
        \/ \E k \in Ticket : CancelTicket(k)
        \/ \E t \in TicketType, n \in 0 .. MaxCapacity : UpdateTicketType(t, n)
        \/ UNCHANGED <<orders, stock, tickets>>
    BY DEF Next, Worker, vars, ListLapsedHolds, SkipHold, WorkerCrash,
           VerifyOnStatement, CheckIn, UndoCheckIn, Tick
  <1>8. \A t \in TicketType, n \in 0 .. MaxCapacity :
          UpdateTicketType(t, n) => Ledger!Resize(t, n)
    BY EditResizes
  <1>9. \A o \in Order, x \in TrxId, at \in Reading :
          SubmitPayment(o, x, at) => UNCHANGED Ledger!vars
    BY SubmitStutters
  <1> QED BY <1>1, <1>2, <1>3, <1>4, <1>5, <1>6, <1>7, <1>8, <1>9 DEF Ledger!Next

\* Whatever buyers, admins and the expiry job do in whatever order, two counters
\* per ticket type and a status per order keep the books of every seat: each is
\* held or sold only while the type has room, comes back at most once and is
\* never taken again.
THEOREM LedgerImplemented == Spec => ImplementsLedger
  <1>1. Init => MapInv /\ Ledger!Init
    BY InitMap
  <1>2. MapInv /\ [Next]_vars => MapInv'
    <2> SUFFICES ASSUME MapInv, [Next]_vars PROVE MapInv'
      OBVIOUS
    <2>1. SeatInv'
      BY NextSeats DEF MapInv
    <2>2. UnbornEmpty'
      BY <2>1, UnbornStays DEF MapInv, SeatInv
    <2> QED BY <2>1, <2>2 DEF MapInv
  <1>3. MapInv /\ MapInv' /\ [Next]_vars => [Ledger!Next]_(Ledger!vars)
    <2> SUFFICES ASSUME MapInv, MapInv', [Next]_vars
                 PROVE  [Ledger!Next]_(Ledger!vars)
      OBVIOUS
    <2>1. TypeOK'
      BY DEF MapInv, SeatInv
    <2> QED BY <2>1, NextMaps
  <1> QED BY <1>1, <1>2, <1>3, PTL DEF Spec, ImplementsLedger, Ledger!Spec
=============================================================================
