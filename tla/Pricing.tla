------------------------------- MODULE Pricing -------------------------------
(***************************************************************************)
(* What an order costs.  Amounts are whole paisa; a promo code takes       *)
(* something off each ticket, and is refused where it would leave nothing  *)
(* to pay.  The same arithmetic prices the form's preview and the order,   *)
(* so the theorems say what the buyer can rely on between the two, for     *)
(* every price and code that can be entered.                               *)
(***************************************************************************)
EXTENDS Integers, TLAPS

Price == Nat
Quantity == 1 .. 10

\* A code's rule: a whole percentage, or an amount off each ticket.
Promo == [type : {"percentage"}, value : 1 .. 99] \cup [type : {"fixed"}, value : Price \ {0}]

PercentOfPaisa(paisa, percent) == (paisa * percent) \div 100

Smaller(a, b) == IF a <= b THEN a ELSE b

DiscountPerTicket(rule, price) ==
  IF rule.type = "percentage" THEN PercentOfPaisa(price, rule.value)
                              ELSE Smaller(rule.value, price)

Discount(rule, price, quantity) == DiscountPerTicket(rule, price) * quantity

\* computeOrderTotals
Totals(price, quantity, discount) ==
  LET subtotal == price * quantity
      applied == Smaller(discount, subtotal)
  IN  [subtotal |-> subtotal, discount |-> applied, total |-> subtotal - applied]

MakesTicketFree(rule, price) == DiscountPerTicket(rule, price) >= price

\* promoAppliesTo, over the event's ticket types: a code is restricted to the
\* types in only, or to none.
Covered(only, types) == {t \in types : only = {} \/ t \in only}

\* judgePromo: why a code cannot be used on the chosen ticket type of an event
\* whose types and their prices are given, or "none".
Refusal(rule, active, only, price, chosen) ==
  LET covered == Covered(only, DOMAIN price)
  IN  IF ~active \/ covered = {} THEN "unknown"
      ELSE IF chosen \notin covered THEN "not_for_ticket_type"
      ELSE IF MakesTicketFree(rule, price[chosen]) THEN "makes_ticket_free"
      ELSE "none"

\* assertValidPaisa: amounts are naturals that a number holds exactly.
ValidPaisa(n, largest) == n \in 0 .. largest

-----------------------------------------------------------------------------

\* percentOfPaisa: the quotient is rounded down, by less than a paisa.
LEMMA PercentRoundsDown ==
  ASSUME NEW paisa \in Nat, NEW percent \in Nat
  PROVE  /\ PercentOfPaisa(paisa, percent) \in Nat
         /\ 100 * PercentOfPaisa(paisa, percent) <= paisa * percent
         /\ paisa * percent < 100 * PercentOfPaisa(paisa, percent) + 100
<1> DEFINE n == paisa * percent
<1>1. n \in Nat
  OBVIOUS
<1> HIDE DEF n
<1>2. /\ n \div 100 \in Nat
      /\ 100 * (n \div 100) <= n
      /\ n < 100 * (n \div 100) + 100
  BY <1>1
<1> QED
  BY <1>2 DEF n, PercentOfPaisa

\* The product of two naturals is monotone in the first factor.
LEMMA TimesMonotone ==
  ASSUME NEW a \in Nat, NEW b \in Nat, NEW q \in Nat, a <= b
  PROVE  a * q <= b * q
<1>1. PICK d \in Nat : b = a + d
  <2>1. b - a \in Nat
    OBVIOUS
  <2> QED
    BY <2>1
<1>2. (a + d) * q = a * q + d * q
  OBVIOUS
<1>3. d * q \in Nat /\ a * q \in Nat
  OBVIOUS
<1> QED
  BY <1>1, <1>2, <1>3

\* promoDiscountPerTicket: whatever the code, a ticket's discount is a natural
\* number of paisa, never more than the price - and a percentage always leaves
\* something of a price that is not zero.
THEOREM DiscountWithinPrice ==
  ASSUME NEW rule \in Promo, NEW price \in Price
  PROVE  /\ DiscountPerTicket(rule, price) \in Nat
         /\ DiscountPerTicket(rule, price) <= price
         /\ rule.type = "percentage" /\ price > 0 => ~MakesTicketFree(rule, price)
<1>1. CASE rule.type = "percentage"
  <2> DEFINE d == PercentOfPaisa(price, rule.value)
  <2>1. rule.value \in 1 .. 99 /\ price \in Nat
    BY <1>1 DEF Promo, Price
  <2> DEFINE percent == rule.value
  <2>a. percent \in Nat /\ price \in Nat
    BY <2>1
  <2> HIDE DEF percent
  <2>b. PercentOfPaisa(price, percent) \in Nat /\ 100 * PercentOfPaisa(price, percent) <= price * percent
    BY <2>a, PercentRoundsDown
  <2>2. d \in Nat /\ 100 * d <= price * rule.value
    BY <2>b DEF percent
  <2>3. rule.value * price <= 99 * price
    BY <2>1, TimesMonotone
  <2>4. price * rule.value = rule.value * price
    BY <2>1
  <2> HIDE DEF d
  <2>5. d <= price /\ (price > 0 => d < price)
    BY <2>1, <2>2, <2>3, <2>4
  <2>6. DiscountPerTicket(rule, price) = d
    BY <1>1 DEF DiscountPerTicket, d
  <2> QED
    BY <2>1, <2>2, <2>5, <2>6 DEF MakesTicketFree
<1>2. CASE rule.type = "fixed"
  <2>1. rule.value \in Nat /\ price \in Nat
    BY <1>2 DEF Promo, Price
  <2> QED
    BY <1>2, <2>1 DEF DiscountPerTicket, Smaller
<1> QED
  BY <1>1, <1>2 DEF Promo

\* computeOrderTotals of a discount that leaves something of each ticket: the
\* cap at the subtotal never cuts in.
LEMMA TotalOfTickets ==
  ASSUME NEW rule \in Promo, NEW price \in Price, NEW quantity \in Quantity,
         ~MakesTicketFree(rule, price)
  PROVE  LET each == price - DiscountPerTicket(rule, price)
             totals == Totals(price, quantity, Discount(rule, price, quantity))
         IN  /\ totals.total = each * quantity
             /\ totals.total > 0
             /\ totals.discount = Discount(rule, price, quantity)
<1> DEFINE d == DiscountPerTicket(rule, price)
           each == price - d
<1>1. price \in Nat /\ quantity \in Nat /\ quantity >= 1
  BY DEF Price, Quantity
<1>2. d \in Nat /\ d < price
  BY <1>1, DiscountWithinPrice DEF MakesTicketFree
<1>3. each \in Nat /\ 1 <= each
  BY <1>1, <1>2
<1>4. Discount(rule, price, quantity) = d * quantity
  BY DEF Discount
<1> HIDE DEF d
<1>5. d * quantity <= price * quantity
  BY <1>1, <1>2, TimesMonotone
<1>6. each * quantity = price * quantity - d * quantity
  BY <1>1, <1>2
<1>7. 1 * quantity <= each * quantity
  BY <1>1, <1>3, TimesMonotone
<1>8. Totals(price, quantity, d * quantity)
        = [subtotal |-> price * quantity, discount |-> d * quantity,
           total |-> price * quantity - d * quantity]
  BY <1>5 DEF Totals, Smaller
<1>9. each * quantity > 0
  <2>1. quantity \in Nat /\ each * quantity \in Int
    BY <1>1, <1>3
  <2> QED
    BY <2>1, <1>1, <1>7
<1> QED
  BY <1>4, <1>6, <1>8, <1>9 DEF d

\* judgePromo and computeOrderTotals together: an order whose code was not
\* refused has a code that is switched on and covers its ticket type, and costs
\* exactly the discounted price of each ticket, times their number - and never
\* nothing, which nobody could pay.
THEOREM TotalExact ==
  ASSUME NEW rule \in Promo, NEW active \in BOOLEAN, NEW only,
         NEW types, NEW price \in [types -> Price], NEW chosen, NEW quantity \in Quantity,
         Refusal(rule, active, only, price, chosen) = "none"
  PROVE  /\ active /\ chosen \in types /\ (only = {} \/ chosen \in only)
         /\ LET each == price[chosen] - DiscountPerTicket(rule, price[chosen])
                totals == Totals(price[chosen], quantity, Discount(rule, price[chosen], quantity))
            IN  /\ totals.total = each * quantity
                /\ totals.total > 0
                /\ totals.discount = Discount(rule, price[chosen], quantity)
<1>1. active /\ chosen \in Covered(only, types) /\ ~MakesTicketFree(rule, price[chosen])
  BY DEF Refusal
<1>2. chosen \in types /\ (only = {} \/ chosen \in only)
  BY <1>1 DEF Covered
<1>3. price[chosen] \in Price
  BY <1>2
<1> QED
  BY <1>1, <1>2, <1>3, TotalOfTickets

\* assertValidPaisa: no amount that pricing an order passes through, the
\* percentage before its division included, is one the assertion throws at, if
\* numbers are exact up to 99 times the highest price.  (The form takes prices
\* of nine digits and two decimals, and 99 * 99999999999 is far below 2^53.)
THEOREM NoAmountRefused ==
  ASSUME NEW highest \in Nat, NEW largest \in Nat, 99 * highest <= largest,
         NEW rule \in Promo, NEW price \in 0 .. highest, NEW quantity \in Quantity
  PROVE  /\ ValidPaisa(price * quantity, largest)
         /\ rule.type = "percentage" => ValidPaisa(price * rule.value, largest)
         /\ ValidPaisa(Discount(rule, price, quantity), largest)
         /\ ValidPaisa(Totals(price, quantity, Discount(rule, price, quantity)).total, largest)
<1> DEFINE d == DiscountPerTicket(rule, price)
<1>1. price \in Nat /\ price <= highest /\ quantity \in 1 .. 10
  BY DEF Quantity
<1>2. ASSUME NEW n \in 1 .. 99
      PROVE  price * n \in Nat /\ price * n <= largest
  <2>1. price * n <= highest * n
    BY <1>1, TimesMonotone
  <2>2. n * highest <= 99 * highest
    BY TimesMonotone
  <2>3. n * highest = highest * n /\ highest * n \in Nat /\ price * n \in Nat
    BY <1>1
  <2>4. 99 * highest \in Nat
    OBVIOUS
  <2> QED
    BY <2>1, <2>2, <2>3, <2>4
<1>3. price * quantity \in Nat /\ price * quantity <= largest
  <2>1. quantity \in 1 .. 99
    BY <1>1
  <2> QED
    BY <2>1, <1>2
<1>4. ASSUME rule.type = "percentage"
      PROVE  price * rule.value \in Nat /\ price * rule.value <= largest
  <2>1. rule.value \in 1 .. 99
    BY <1>4 DEF Promo
  <2> QED
    BY <2>1, <1>2
<1>5. d \in Nat /\ d <= price
  BY <1>1, DiscountWithinPrice DEF Price
<1> HIDE DEF d
<1>6. d * quantity \in Nat /\ d * quantity <= price * quantity
  BY <1>1, <1>5, TimesMonotone
<1>7. Discount(rule, price, quantity) = d * quantity
  BY DEF Discount, d
<1>8. Totals(price, quantity, d * quantity).total = price * quantity - d * quantity
  BY <1>6 DEF Totals, Smaller
<1>9. /\ price * quantity \in 0 .. largest
      /\ d * quantity \in 0 .. largest
      /\ price * quantity - d * quantity \in 0 .. largest
  BY <1>3, <1>6
<1> QED
  BY <1>4, <1>7, <1>8, <1>9 DEF ValidPaisa

\* percentOfPaisa and the form's preview: of two prices the higher never gets
\* the smaller percentage discount, so no ticket type overtakes another.
THEOREM PercentMonotone ==
  ASSUME NEW low \in Price, NEW high \in Price, low <= high, NEW percent \in 1 .. 99
  PROVE  /\ PercentOfPaisa(low, percent) <= PercentOfPaisa(high, percent)
         /\ low - PercentOfPaisa(low, percent) <= high - PercentOfPaisa(high, percent)
<1> DEFINE a == PercentOfPaisa(low, percent)
           b == PercentOfPaisa(high, percent)
<1>1. low \in Nat /\ high \in Nat /\ percent \in Nat /\ percent <= 99
  BY DEF Price
<1>2. /\ a \in Nat /\ 100 * a <= low * percent /\ low * percent < 100 * a + 100
      /\ b \in Nat /\ 100 * b <= high * percent /\ high * percent < 100 * b + 100
  BY <1>1, PercentRoundsDown
<1>3. low * percent <= high * percent
  BY <1>1, TimesMonotone
<1>4. /\ low * percent \in Nat /\ high * percent \in Nat
      /\ high * percent - low * percent = (high - low) * percent
  BY <1>1
<1>5. (high - low) * percent <= 99 * (high - low)
  <2>1. high - low \in Nat
    BY <1>1
  <2>2. percent * (high - low) <= 99 * (high - low)
    BY <1>1, <2>1, TimesMonotone
  <2> QED
    BY <1>1, <2>1, <2>2
<1> HIDE DEF a, b
<1>6. a <= b
  BY <1>1, <1>2, <1>3, <1>4
<1>7. low - a <= high - b
  BY <1>1, <1>2, <1>4, <1>5, <1>6
<1> QED
  BY <1>6, <1>7 DEF a, b
=============================================================================
