-------------------------- MODULE EventPlatformProofs --------------------------
(***************************************************************************)
(* Three parts.  The sale's properties hold for every set of checkouts,    *)
(* requests and forms, and every limit of seats and redemptions, and the   *)
(* sale implements the ledger of seats.  So they do on the day of the      *)
(* event: what its staff, attendees and managers do to the tickets that    *)
(* were sold, and what their pages show, for every set of addresses, staff *)
(* requests and senders.  The programme's properties hold for every set of *)
(* organizers' requests, rooms, speakers and sessions, every choice of     *)
(* slots and every bound on capacities.                                    *)
(***************************************************************************)
EXTENDS EventViews, EventPlanning, FiniteSetTheorems, TLAPS

------------------------------------------------------------------------------
(* The sale.                                                               *)

\* The orders that keep the discount code used.
Redeemers == {k \in DOMAIN orders : orders[k].form.coupon /\ orders[k].status # "failed"}

\* A request that goes on to complete an order has charged it.
ChargedInv ==
  \A r \in DOMAIN requests : requests[r].at = "charged" => requests[r].key \in charged

IInv ==
  /\ SalesTypeOK
  /\ ChargedInv
  /\ InventoryExact
  /\ RedemptionsExact
  /\ TicketsFollowOrders
  /\ ReceiptsAgree

------------------------------------------------------------------------------
(* Counting.                                                               *)

LEMMA CountWith ==
  ASSUME NEW S, IsFiniteSet(S), NEW x, x \notin S
  PROVE  Cardinality(S \union {x}) = Cardinality(S) + 1
BY FS_AddElement

LEMMA CountWithout ==
  ASSUME NEW S, IsFiniteSet(S), NEW x \in S
  PROVE  /\ Cardinality(S \ {x}) = Cardinality(S) - 1
         /\ Cardinality(S) > 0
<1>1. Cardinality(S) \in Nat
  BY FS_CardinalityType
<1>2. Cardinality(S) # 0
  BY FS_EmptySet
<1>. QED
  BY <1>1, <1>2, FS_RemoveElement

\* Orders are finitely many, whatever they are counted by.
LEMMA Counts ==
  ASSUME SalesTypeOK
  PROVE  /\ \A status : IsFiniteSet(OrdersIn(status)) /\ Cardinality(OrdersIn(status)) \in Nat
         /\ IsFiniteSet(Redeemers) /\ Cardinality(Redeemers) \in Nat
<1>1. \A S \in SUBSET Keys : IsFiniteSet(S) /\ Cardinality(S) \in Nat
  BY SalesAssumption, FS_Subset, FS_CardinalityType
<1>2. DOMAIN orders \subseteq Keys
  BY DEF SalesTypeOK
<1>3. Redeemers \in SUBSET Keys /\ \A status : OrdersIn(status) \in SUBSET Keys
  BY <1>2 DEF Redeemers, OrdersIn
<1>. QED
  BY <1>1, <1>3

\* A new order is pending, and every other one stays as it is.
LEMMA OrderAdded ==
  ASSUME SalesTypeOK, NEW k \in Keys, k \notin DOMAIN orders, NEW f \in Forms,
         orders' = Put(orders, k, [status |-> "pending", form |-> f])
  PROVE  /\ DOMAIN orders' = DOMAIN orders \union {k}
         /\ orders'[k] = [status |-> "pending", form |-> f]
         /\ \A j \in DOMAIN orders : orders'[j] = orders[j]
         /\ OrdersIn("pending")' = OrdersIn("pending") \union {k}
         /\ k \notin OrdersIn("pending")
         /\ \A status : status # "pending" => OrdersIn(status)' = OrdersIn(status)
         /\ k \notin Redeemers
         /\ Redeemers' = IF f.coupon THEN Redeemers \union {k} ELSE Redeemers
<1>1. DOMAIN orders' = DOMAIN orders \union {k}
  BY DEF Put
<1>2. orders'[k] = [status |-> "pending", form |-> f]
  BY DEF Put
<1>3. \A j \in DOMAIN orders : orders'[j] = orders[j]
  BY DEF Put
<1>4. orders'[k].status = "pending" /\ orders'[k].form = f
  BY <1>2
<1>5. OrdersIn("pending")' = OrdersIn("pending") \union {k} /\ k \notin OrdersIn("pending")
  BY <1>1, <1>3, <1>4 DEF OrdersIn
<1>6. \A status : status # "pending" => OrdersIn(status)' = OrdersIn(status)
  BY <1>1, <1>3, <1>4 DEF OrdersIn
<1>7. k \notin Redeemers
  BY DEF Redeemers
<1>8. Redeemers' = IF f.coupon THEN Redeemers \union {k} ELSE Redeemers
  <2>1. CASE f.coupon
    BY <2>1, <1>1, <1>3, <1>4 DEF Redeemers
  <2>2. CASE ~f.coupon
    BY <2>2, <1>1, <1>3, <1>4 DEF Redeemers
  <2>. QED
    BY <2>1, <2>2
<1>. QED
  BY <1>1, <1>2, <1>3, <1>5, <1>6, <1>7, <1>8

\* An order that changes its status leaves one set for another.
LEMMA OrderMoved ==
  ASSUME SalesTypeOK, NEW k \in DOMAIN orders, NEW to \in OrderStatus,
         NEW from, orders[k].status = from, to # from,
         orders' = [orders EXCEPT ![k].status = to]
  PROVE  /\ DOMAIN orders' = DOMAIN orders
         /\ orders'[k].status = to /\ orders'[k].form = orders[k].form
         /\ \A j \in DOMAIN orders \ {k} : orders'[j] = orders[j]
         /\ k \in OrdersIn(from) /\ k \notin OrdersIn(to)
         /\ OrdersIn(from)' = OrdersIn(from) \ {k}
         /\ OrdersIn(to)' = OrdersIn(to) \union {k}
         /\ \A status : status \notin {to, from} =>
              OrdersIn(status)' = OrdersIn(status)
         /\ Redeemers' = IF to = "failed" THEN Redeemers \ {k}
                         ELSE IF orders[k].form.coupon THEN Redeemers \union {k}
                         ELSE Redeemers
<1>1. DOMAIN orders' = DOMAIN orders
  OBVIOUS
<1>2. orders[k] \in Order
  BY DEF SalesTypeOK
<1>3. orders'[k] = [orders[k] EXCEPT !.status = to]
  OBVIOUS
<1>4. orders'[k].status = to /\ orders'[k].form = orders[k].form
  BY <1>2, <1>3 DEF Order
<1>5. \A j \in DOMAIN orders \ {k} : orders'[j] = orders[j]
  OBVIOUS
<1>6. k \in OrdersIn(from) /\ k \notin OrdersIn(to)
  BY DEF OrdersIn
<1>7. \A status : OrdersIn(status)' =
        IF status = to THEN OrdersIn(status) \union {k} ELSE OrdersIn(status) \ {k}
  BY <1>1, <1>4, <1>5 DEF OrdersIn
<1>8. \A status : status # from => OrdersIn(status) \ {k} = OrdersIn(status)
  BY DEF OrdersIn
<1>9. Redeemers' = IF to = "failed" THEN Redeemers \ {k}
                   ELSE IF orders[k].form.coupon THEN Redeemers \union {k}
                   ELSE Redeemers
  <2>1. CASE to = "failed"
    BY <2>1, <1>1, <1>4, <1>5 DEF Redeemers
  <2>2. CASE to # "failed" /\ orders[k].form.coupon
    BY <2>2, <1>1, <1>4, <1>5 DEF Redeemers
  <2>3. CASE to # "failed" /\ ~orders[k].form.coupon
    BY <2>3, <1>1, <1>4, <1>5 DEF Redeemers
  <2>. QED
    BY <2>1, <2>2, <2>3
<1>10. OrdersIn(from)' = OrdersIn(from) \ {k} /\ OrdersIn(to)' = OrdersIn(to) \union {k}
  BY <1>7
<1>11. \A status : status \notin {to, from} => OrdersIn(status)' = OrdersIn(status)
  BY <1>7, <1>8
<1>. QED
  BY <1>1, <1>4, <1>5, <1>6, <1>9, <1>10, <1>11
------------------------------------------------------------------------------
(* Steps that leave the orders, their tickets and the charges as they are. *)

LEMMA QuietStep ==
  ASSUME IInv, SalesTypeOK', ReceiptsAgree',
         UNCHANGED <<redeemed, orders, tickets>>,
         charged \subseteq charged',
         stock'.reserved = stock.reserved, stock'.sold = stock.sold,
         stock.reserved + stock.sold <= stock'.total,
         \A r \in DOMAIN requests' :
           requests'[r].at = "charged" => requests'[r].key \in charged'
  PROVE  IInv'
<1>1. ChargedInv'
  BY DEF ChargedInv
<1>2. InventoryExact'
  BY DEF IInv, InventoryExact, OrdersIn
<1>3. RedemptionsExact'
  BY DEF IInv, RedemptionsExact
<1>4. TicketsFollowOrders'
  BY DEF IInv, TicketsFollowOrders, OrdersIn
<1>. QED
  BY <1>1, <1>2, <1>3, <1>4 DEF IInv

LEMMA ReplayIInv ==
  ASSUME IInv, NEW r \in Requests, NEW k \in Keys, NEW f \in Forms, ReplayOrder(r, k, f)
  PROVE  IInv'
<1>1. UNCHANGED <<stock, redeemed, questions, orders, tickets, charged>> /\ k \in DOMAIN orders
  BY DEF ReplayOrder
<1>2. requests' = requests \/ requests' = Put(requests, r, [at |-> "reserved", key |-> k])
  BY DEF ReplayOrder
<1>3. SalesTypeOK'
  BY <1>1, <1>2 DEF IInv, SalesTypeOK, Put
<1>4. ReceiptsAgree'
  <2>1. answer'.told = "receipt" => answer'.ticket = tickets[k].id /\ orders[k].status = "paid"
    BY <1>1 DEF ReplayOrder, Verdict, Refuse, Silent, Receipt
  <2>2. orders[k].status = "paid" => k \in DOMAIN tickets
    BY <1>1 DEF IInv, TicketsFollowOrders, OrdersIn
  <2>3. receipts' = receipts \union (IF answer'.told = "receipt" THEN {<<k, answer'.ticket>>} ELSE {})
    BY DEF ReplayOrder
  <2>. QED
    BY <1>1, <2>1, <2>2, <2>3 DEF IInv, ReceiptsAgree
<1>5. \A x \in DOMAIN requests' :
        requests'[x].at = "charged" => requests'[x].key \in charged'
  BY <1>1, <1>2 DEF IInv, ChargedInv, Put
<1>. QED
  BY <1>1, <1>3, <1>4, <1>5, QuietStep DEF IInv, InventoryExact

LEMMA ChargeIInv ==
  ASSUME IInv, NEW r \in Requests, Charge(r)
  PROVE  IInv'
<1>1. r \in DOMAIN requests /\ requests[r] \in [at : {"reserved", "charged"}, key : DOMAIN orders]
  BY DEF Charge, IInv, SalesTypeOK
<1>2. UNCHANGED <<stock, redeemed, questions, orders, tickets, receipts>>
  BY DEF Charge
<1>3. charged' = charged \union {requests[r].key} /\ requests' = [requests EXCEPT ![r].at = "charged"]
  BY DEF Charge
<1>4. SalesTypeOK'
  BY <1>1, <1>2, <1>3 DEF IInv, SalesTypeOK
<1>5. \A x \in DOMAIN requests' :
        requests'[x].at = "charged" => requests'[x].key \in charged'
  BY <1>1, <1>3 DEF IInv, ChargedInv
<1>. QED
  BY <1>2, <1>3, <1>4, <1>5, QuietStep DEF IInv, InventoryExact, ReceiptsAgree

\* Requests that end, the organizer's changes, and what is refused.
LEMMA RequestsEnd ==
  ASSUME IInv, UNCHANGED <<stock, redeemed, orders, tickets, charged, receipts>>,
         questions' \in [Questions -> QuestionStatus],
         \A x \in DOMAIN requests' : x \in DOMAIN requests /\ requests'[x] = requests[x]
  PROVE  IInv'
<1>1. SalesTypeOK'
  BY DEF IInv, SalesTypeOK
<1>. QED
  BY <1>1, QuietStep DEF IInv, InventoryExact, ReceiptsAgree, ChargedInv

LEMMA StockChanges ==
  ASSUME IInv, ResizeTicketType \/ ChangeSale
  PROVE  IInv'
<1>1. UNCHANGED <<redeemed, questions, orders, tickets, requests, charged, receipts>>
  BY DEF ResizeTicketType, ChangeSale
<1>2. /\ stock' \in Stock
      /\ stock'.reserved = stock.reserved /\ stock'.sold = stock.sold
      /\ stock.reserved + stock.sold <= stock'.total
  <2>1. stock \in Stock /\ stock.reserved + stock.sold <= stock.total
    BY DEF IInv, SalesTypeOK, InventoryExact
  <2>2. CASE ResizeTicketType
    BY <2>1, <2>2, SalesAssumption DEF ResizeTicketType, Stock
  <2>3. CASE ChangeSale
    BY <2>1, <2>3 DEF ChangeSale, Stock
  <2>. QED
    BY <2>2, <2>3
<1>3. SalesTypeOK'
  BY <1>1, <1>2 DEF IInv, SalesTypeOK
<1>. QED
  BY <1>1, <1>2, <1>3, QuietStep DEF IInv, ReceiptsAgree, ChargedInv

------------------------------------------------------------------------------
(* Steps that move an order.                                               *)

LEMMA ReserveIInv ==
  ASSUME IInv, NEW r \in Requests, NEW k \in Keys, NEW f \in Forms, ReserveOrder(r, k, f)
  PROVE  IInv'
<1>1. /\ k \notin DOMAIN orders
      /\ stock.reserved + stock.sold < stock.total
      /\ f.coupon => redeemed < MaxRedemptions
      /\ stock' = [stock EXCEPT !.reserved = @ + 1]
      /\ redeemed' = IF f.coupon THEN redeemed + 1 ELSE redeemed
      /\ orders' = Put(orders, k, [status |-> "pending", form |-> f])
      /\ requests' = Put(requests, r, [at |-> "reserved", key |-> k])
      /\ UNCHANGED <<questions, tickets, charged, receipts>>
  BY DEF ReserveOrder, Admitted, Redeemable
<1>2. SalesTypeOK
  BY DEF IInv
<1>3. /\ DOMAIN orders' = DOMAIN orders \union {k}
      /\ orders'[k] = [status |-> "pending", form |-> f]
      /\ \A j \in DOMAIN orders : orders'[j] = orders[j]
      /\ OrdersIn("pending")' = OrdersIn("pending") \union {k}
      /\ k \notin OrdersIn("pending")
      /\ OrdersIn("paid")' = OrdersIn("paid")
      /\ OrdersIn("refunded")' = OrdersIn("refunded")
      /\ k \notin Redeemers
      /\ Redeemers' = IF f.coupon THEN Redeemers \union {k} ELSE Redeemers
  BY <1>1, <1>2, OrderAdded
<1>4. stock \in Stock /\ redeemed \in Nat
  BY <1>2 DEF SalesTypeOK
<1>5. stock' \in Stock /\ stock'.reserved = stock.reserved + 1 /\ stock'.sold = stock.sold /\ stock'.total = stock.total
  BY <1>1, <1>4 DEF Stock
<1>6. SalesTypeOK'
  <2>1. [status |-> "pending", form |-> f] \in Order
    BY DEF Order, OrderStatus
  <2>2. \A j \in DOMAIN orders' : orders'[j] \in Order
    BY <1>2, <1>3, <2>1 DEF SalesTypeOK
  <2>3. redeemed' \in Nat
    BY <1>1, <1>4
  <2>4. /\ DOMAIN requests' \subseteq Requests
        /\ \A x \in DOMAIN requests' :
             requests'[x] \in [at : {"reserved", "charged"}, key : DOMAIN orders']
    BY <1>1, <1>2, <1>3 DEF SalesTypeOK, Put
  <2>. QED
    BY <1>1, <1>2, <1>3, <1>5, <2>2, <2>3, <2>4 DEF SalesTypeOK
<1>7. ChargedInv'
  BY <1>1 DEF IInv, ChargedInv, Put
<1>8. InventoryExact'
  <2>1. Cardinality(OrdersIn("pending")') = Cardinality(OrdersIn("pending")) + 1
    BY <1>2, <1>3, Counts, CountWith
  <2>2. Cardinality(OrdersIn("pending")) \in Nat /\ Cardinality(OrdersIn("paid")) \in Nat
    BY <1>2, Counts
  <2>. QED
    BY <1>1, <1>3, <1>4, <1>5, <2>1, <2>2, SalesAssumption DEF IInv, InventoryExact, Stock
<1>9. RedemptionsExact'
  <2>1. redeemed = Cardinality(Redeemers) /\ redeemed <= MaxRedemptions
    BY DEF IInv, RedemptionsExact, Redeemers
  <2>2. redeemed' = Cardinality(Redeemers')
    BY <1>1, <1>2, <1>3, <2>1, Counts, CountWith
  <2>3. redeemed' <= MaxRedemptions
    BY <1>1, <1>4, <2>1, SalesAssumption
  <2>. QED
    BY <2>2, <2>3 DEF RedemptionsExact, Redeemers
<1>10. TicketsFollowOrders'
  <2>1. \A j \in DOMAIN tickets : j \in DOMAIN orders
    BY DEF IInv, TicketsFollowOrders, OrdersIn
  <2>. QED
    BY <1>1, <1>3, <2>1 DEF IInv, TicketsFollowOrders
<1>11. ReceiptsAgree'
  BY <1>1 DEF IInv, ReceiptsAgree
<1>. QED
  BY <1>6, <1>7, <1>8, <1>9, <1>10, <1>11 DEF IInv

\* Declined or interrupted: the order fails unless another request got further.
LEMMA FailIInv ==
  ASSUME IInv, NEW r \in Requests, r \in DOMAIN requests, FailOrder(requests[r].key),
         requests' = Drop(requests, r),
         charged \subseteq charged', charged' \subseteq Keys,
         UNCHANGED <<questions, tickets, receipts>>
  PROVE  IInv'
<1>1. SalesTypeOK
  BY DEF IInv
<1>2. PICK k : k = requests[r].key
  OBVIOUS
<1>3. k \in DOMAIN orders
  BY <1>1, <1>2 DEF SalesTypeOK
<1>4. stock \in Stock /\ redeemed \in Nat
  BY <1>1 DEF SalesTypeOK
<1>5. \A x \in DOMAIN requests' : x \in DOMAIN requests /\ requests'[x] = requests[x]
  BY DEF Drop
<1>6. ChargedInv'
  BY <1>5 DEF IInv, ChargedInv
<1>7. ReceiptsAgree'
  BY DEF IInv, ReceiptsAgree
<1>8. CASE orders[k].status # "pending"
  <2>1. UNCHANGED <<orders, stock, redeemed>>
    BY <1>2, <1>8 DEF FailOrder
  <2>2. SalesTypeOK'
    BY <1>1, <1>5, <2>1 DEF SalesTypeOK
  <2>. QED
    BY <1>6, <1>7, <2>1, <2>2, QuietStep DEF IInv, InventoryExact, ChargedInv
<1>9. CASE orders[k].status = "pending"
  <2>1. /\ orders' = [orders EXCEPT ![k].status = "failed"]
        /\ stock' = [stock EXCEPT !.reserved = Dec(@)]
        /\ redeemed' = IF orders[k].form.coupon THEN Dec(redeemed) ELSE redeemed
    BY <1>2, <1>9 DEF FailOrder
  <2>2. /\ DOMAIN orders' = DOMAIN orders
        /\ orders'[k].status = "failed" /\ orders'[k].form = orders[k].form
        /\ \A j \in DOMAIN orders \ {k} : orders'[j] = orders[j]
        /\ k \in OrdersIn("pending")
        /\ OrdersIn("pending")' = OrdersIn("pending") \ {k}
        /\ OrdersIn("paid")' = OrdersIn("paid")
        /\ OrdersIn("refunded")' = OrdersIn("refunded")
        /\ Redeemers' = Redeemers \ {k}
    <3>1. "failed" \in OrderStatus
      BY DEF OrderStatus
    <3>. QED
      BY <1>1, <1>3, <1>9, <2>1, <3>1, OrderMoved
  <2>3. Cardinality(OrdersIn("pending")') = Cardinality(OrdersIn("pending")) - 1
        /\ Cardinality(OrdersIn("pending")) > 0
    BY <1>1, <2>2, Counts, CountWithout
  <2>4. Cardinality(OrdersIn("pending")) \in Nat /\ Cardinality(OrdersIn("paid")) \in Nat
    BY <1>1, Counts
  <2>5. stock.reserved > 0
    BY <1>4, <2>3, <2>4, SalesAssumption DEF IInv, InventoryExact, Stock
  <2>6. stock' \in Stock /\ stock'.reserved = stock.reserved - 1 /\ stock'.sold = stock.sold /\ stock'.total = stock.total
    BY <1>4, <2>1, <2>5 DEF Dec, Stock
  <2>7. InventoryExact'
    BY <1>4, <2>2, <2>3, <2>4, <2>5, <2>6, SalesAssumption DEF IInv, InventoryExact, Stock
  <2>8. redeemed = Cardinality(Redeemers) /\ redeemed <= MaxRedemptions
    BY DEF IInv, RedemptionsExact, Redeemers
  <2>9. redeemed' = Cardinality(Redeemers') /\ redeemed' <= MaxRedemptions /\ redeemed' \in Nat
    <3>1. CASE orders[k].form.coupon
      <4>1. k \in Redeemers
        BY <1>3, <1>9, <3>1 DEF Redeemers
      <4>2. Cardinality(Redeemers \ {k}) = Cardinality(Redeemers) - 1 /\ Cardinality(Redeemers) > 0
        BY <1>1, <4>1, Counts, CountWithout
      <4>. QED
        BY <1>4, <2>1, <2>2, <2>8, <3>1, <4>2, SalesAssumption DEF Dec
    <3>2. CASE ~orders[k].form.coupon
      <4>1. Redeemers \ {k} = Redeemers
        BY <3>2 DEF Redeemers
      <4>. QED
        BY <1>4, <2>1, <2>2, <2>8, <3>2, <4>1
    <3>. QED
      BY <3>1, <3>2
  <2>10. RedemptionsExact'
    BY <2>9 DEF RedemptionsExact, Redeemers
  <2>11. SalesTypeOK'
    <3>1. orders'[k] \in Order
      BY <1>1, <1>3, <2>1 DEF SalesTypeOK, Order, OrderStatus
    <3>. QED
      BY <1>1, <1>5, <2>2, <2>6, <2>9, <3>1 DEF SalesTypeOK
  <2>12. TicketsFollowOrders'
    BY <1>9, <2>2 DEF IInv, TicketsFollowOrders, OrdersIn
  <2>. QED
    BY <1>6, <1>7, <2>7, <2>10, <2>11, <2>12 DEF IInv
<1>. QED
  BY <1>8, <1>9

\* Completed: the first request of the key issues the ticket, later ones find it.
LEMMA CompleteIInv ==
  ASSUME IInv, NEW r \in Requests, CompleteOrder(r)
  PROVE  IInv'
<1>1. SalesTypeOK
  BY DEF IInv
<1>2. PICK k : k = requests[r].key
  OBVIOUS
<1>3. r \in DOMAIN requests /\ requests[r].at = "charged"
  BY DEF CompleteOrder
<1>4. k \in DOMAIN orders /\ k \in Keys /\ k \in charged
  BY <1>1, <1>2, <1>3 DEF SalesTypeOK, IInv, ChargedInv
<1>5. /\ requests' = Drop(requests, r)
      /\ UNCHANGED <<redeemed, questions, charged>>
      /\ receipts' = receipts \union
           (IF answer'.told = "receipt" THEN {<<k, answer'.ticket>>} ELSE {})
  BY <1>2 DEF CompleteOrder
<1>6. \A x \in DOMAIN requests' : x \in DOMAIN requests /\ requests'[x] = requests[x]
  BY <1>5 DEF Drop
<1>7. ChargedInv'
  BY <1>5, <1>6 DEF IInv, ChargedInv
<1>8. stock \in Stock
  BY <1>1 DEF SalesTypeOK
<1>9. CASE ~(orders[k].status = "pending" /\ stock.reserved > 0)
  <2>1. UNCHANGED <<orders, stock, tickets>>
    BY <1>2, <1>9 DEF CompleteOrder
  <2>2. answer'.told = "receipt" => answer'.ticket = tickets[k].id /\ orders[k].status = "paid"
    BY <1>2, <1>9 DEF CompleteOrder, Verdict, Refuse, Receipt
  <2>3. orders[k].status = "paid" => k \in DOMAIN tickets
    BY <1>4 DEF IInv, TicketsFollowOrders, OrdersIn
  <2>4. ReceiptsAgree'
    BY <1>5, <2>1, <2>2, <2>3 DEF IInv, ReceiptsAgree
  <2>5. SalesTypeOK'
    BY <1>1, <1>5, <1>6, <2>1 DEF SalesTypeOK
  <2>. QED
    BY <1>5, <1>7, <2>1, <2>4, <2>5, QuietStep DEF IInv, InventoryExact, ChargedInv
<1>10. CASE orders[k].status = "pending" /\ stock.reserved > 0
  <2>1. PICK id \in FreshIds :
          /\ orders' = [orders EXCEPT ![k].status = "paid"]
          /\ stock' = [stock EXCEPT !.reserved = @ - 1, !.sold = @ + 1]
          /\ tickets' = Put(tickets, k, [id |-> id, status |-> "valid"])
          /\ answer' = Receipt(k, id)
    BY <1>2, <1>10 DEF CompleteOrder
  <2>2. id \in TicketIds /\ \A j \in DOMAIN tickets : tickets[j].id # id
    BY <2>1 DEF FreshIds
  <2>3. /\ DOMAIN orders' = DOMAIN orders
        /\ orders'[k].status = "paid" /\ orders'[k].form = orders[k].form
        /\ \A j \in DOMAIN orders \ {k} : orders'[j] = orders[j]
        /\ k \in OrdersIn("pending") /\ k \notin OrdersIn("paid")
        /\ OrdersIn("pending")' = OrdersIn("pending") \ {k}
        /\ OrdersIn("paid")' = OrdersIn("paid") \union {k}
        /\ OrdersIn("refunded")' = OrdersIn("refunded")
        /\ Redeemers' = IF orders[k].form.coupon THEN Redeemers \union {k} ELSE Redeemers
    <3>1. "paid" \in OrderStatus
      BY DEF OrderStatus
    <3>2. /\ DOMAIN orders' = DOMAIN orders
          /\ orders'[k].status = "paid" /\ orders'[k].form = orders[k].form
          /\ \A j \in DOMAIN orders \ {k} : orders'[j] = orders[j]
          /\ k \in OrdersIn("pending") /\ k \notin OrdersIn("paid")
          /\ OrdersIn("pending")' = OrdersIn("pending") \ {k}
          /\ OrdersIn("paid")' = OrdersIn("paid") \union {k}
          /\ \A status : status \notin {"paid", "pending"} => OrdersIn(status)' = OrdersIn(status)
          /\ Redeemers' = IF "paid" = "failed" THEN Redeemers \ {k}
                          ELSE IF orders[k].form.coupon THEN Redeemers \union {k} ELSE Redeemers
      BY <1>1, <1>4, <1>10, <2>1, <3>1, OrderMoved
    <3>. QED
      BY <3>2
  <2>4. Redeemers' = Redeemers
    BY <1>4, <1>10, <2>3 DEF Redeemers
  <2>5. RedemptionsExact'
    BY <1>5, <2>4 DEF IInv, RedemptionsExact, Redeemers
  <2>6. /\ stock' \in Stock
        /\ stock'.reserved = stock.reserved - 1 /\ stock'.sold = stock.sold + 1
        /\ stock'.total = stock.total
    <3>1. stock.reserved \in Nat /\ stock.sold \in Nat /\ stock.reserved > 0
      BY <1>8, <1>10 DEF Stock
    <3>2. stock.reserved - 1 \in Nat /\ stock.sold + 1 \in Nat
      BY <3>1
    <3>3. /\ stock'.reserved = stock.reserved - 1 /\ stock'.sold = stock.sold + 1
          /\ stock'.total = stock.total
      BY <1>8, <2>1 DEF Stock
    <3>4. \A a, b \in Nat : [stock EXCEPT !.reserved = a, !.sold = b] \in Stock
      BY <1>8 DEF Stock
    <3>. QED
      BY <2>1, <3>2, <3>3, <3>4
  <2>7. /\ Cardinality(OrdersIn("pending")') = Cardinality(OrdersIn("pending")) - 1
        /\ Cardinality(OrdersIn("paid")') = Cardinality(OrdersIn("paid")) + 1
    BY <1>1, <2>3, Counts, CountWith, CountWithout
  <2>8. Cardinality(OrdersIn("pending")) \in Nat /\ Cardinality(OrdersIn("paid")) \in Nat
    BY <1>1, Counts
  <2>9. InventoryExact'
    BY <1>8, <2>6, <2>7, <2>8, SalesAssumption DEF IInv, InventoryExact, Stock
  <2>10. k \notin DOMAIN tickets
    BY <1>10 DEF IInv, TicketsFollowOrders, OrdersIn
  <2>11. /\ DOMAIN tickets' = DOMAIN tickets \union {k}
         /\ tickets'[k] = [id |-> id, status |-> "valid"]
         /\ \A j \in DOMAIN tickets : tickets'[j] = tickets[j]
    BY <2>1, <2>10 DEF Put
  <2>12. TicketsFollowOrders'
    <3>1. DOMAIN tickets' = OrdersIn("paid")' \union OrdersIn("refunded")'
      BY <2>3, <2>11 DEF IInv, TicketsFollowOrders
    <3>2. \A j \in DOMAIN tickets : j \in DOMAIN orders \ {k}
      BY <2>10 DEF IInv, TicketsFollowOrders, OrdersIn
    <3>3. \A j \in DOMAIN tickets' :
            (tickets'[j].status = "cancelled") <=> (orders'[j].status = "refunded")
      <4>1. tickets'[k].status = "valid"
        BY <2>11
      <4>2. \A j \in DOMAIN tickets :
              (tickets'[j].status = "cancelled") <=> (orders'[j].status = "refunded")
        BY <2>3, <2>11, <3>2 DEF IInv, TicketsFollowOrders
      <4>. QED
        BY <2>3, <2>11, <4>1, <4>2
    <3>4. DOMAIN tickets' \subseteq charged'
      BY <1>4, <1>5, <2>11 DEF IInv, TicketsFollowOrders
    <3>. QED
      BY <3>1, <3>3, <3>4 DEF TicketsFollowOrders
  <2>13. ReceiptsAgree'
    <3>1. answer'.told = "receipt" /\ answer'.ticket = id
      BY <2>1 DEF Receipt
    <3>2. receipts' = receipts \union {<<k, id>>}
      BY <1>5, <3>1
    <3>3. tickets'[k].id = id
      BY <2>11
    <3>4. \A x \in receipts' : x[1] \in DOMAIN tickets' /\ x[2] = tickets'[x[1]].id
      BY <2>11, <3>2, <3>3 DEF IInv, ReceiptsAgree
    <3>5. \A i, j \in DOMAIN tickets' : tickets'[i].id = tickets'[j].id => i = j
      BY <2>2, <2>11, <3>3 DEF IInv, ReceiptsAgree
    <3>. QED
      BY <3>4, <3>5 DEF ReceiptsAgree
  <2>14. SalesTypeOK'
    <3>1. orders'[k] \in Order
      BY <1>1, <1>4, <2>1 DEF SalesTypeOK, Order, OrderStatus
    <3>2. tickets'[k] \in Ticket
      BY <2>2, <2>11 DEF Ticket, TicketStatus
    <3>3. redeemed' \in Nat /\ questions' \in [Questions -> QuestionStatus] /\ charged' \subseteq Keys
      BY <1>1, <1>5 DEF SalesTypeOK
    <3>4. DOMAIN orders' \subseteq Keys /\ \A j \in DOMAIN orders' : orders'[j] \in Order
      BY <1>1, <2>3, <3>1 DEF SalesTypeOK
    <3>5. DOMAIN tickets' \subseteq Keys /\ \A j \in DOMAIN tickets' : tickets'[j] \in Ticket
      BY <1>1, <1>4, <2>11, <3>2 DEF SalesTypeOK
    <3>6. DOMAIN requests' \subseteq Requests
          /\ \A x \in DOMAIN requests' :
               requests'[x] \in [at : {"reserved", "charged"}, key : DOMAIN orders']
      BY <1>1, <1>6, <2>3 DEF SalesTypeOK
    <3>. QED
      BY <2>6, <3>3, <3>4, <3>5, <3>6 DEF SalesTypeOK
  <2>. QED
    BY <1>7, <2>5, <2>9, <2>12, <2>13, <2>14 DEF IInv
<1>. QED
  BY <1>9, <1>10

LEMMA RefundIInv ==
  ASSUME IInv, NEW k \in Keys, Refund(k)
  PROVE  IInv'
<1>1. SalesTypeOK
  BY DEF IInv
<1>2. k \in DOMAIN orders /\ orders[k].status = "paid"
  BY DEF Refund
<1>3. k \in DOMAIN tickets
  BY <1>2 DEF IInv, TicketsFollowOrders, OrdersIn
<1>4. /\ orders' = [orders EXCEPT ![k].status = "refunded"]
      /\ stock' = [stock EXCEPT !.sold = Dec(@)]
      /\ tickets' = [tickets EXCEPT ![k].status = "cancelled"]
      /\ UNCHANGED <<redeemed, questions, requests, charged, receipts>>
  BY <1>3 DEF Refund
<1>5. /\ DOMAIN orders' = DOMAIN orders
      /\ orders'[k].status = "refunded" /\ orders'[k].form = orders[k].form
      /\ \A j \in DOMAIN orders \ {k} : orders'[j] = orders[j]
      /\ k \in OrdersIn("paid")
      /\ OrdersIn("paid")' = OrdersIn("paid") \ {k}
      /\ OrdersIn("refunded")' = OrdersIn("refunded") \union {k}
      /\ OrdersIn("pending")' = OrdersIn("pending")
      /\ Redeemers' = IF orders[k].form.coupon THEN Redeemers \union {k} ELSE Redeemers
  <2>1. "refunded" \in OrderStatus
    BY DEF OrderStatus
  <2>2. /\ DOMAIN orders' = DOMAIN orders
        /\ orders'[k].status = "refunded" /\ orders'[k].form = orders[k].form
        /\ \A j \in DOMAIN orders \ {k} : orders'[j] = orders[j]
        /\ k \in OrdersIn("paid") /\ k \notin OrdersIn("refunded")
        /\ OrdersIn("paid")' = OrdersIn("paid") \ {k}
        /\ OrdersIn("refunded")' = OrdersIn("refunded") \union {k}
        /\ \A status : status \notin {"refunded", "paid"} => OrdersIn(status)' = OrdersIn(status)
        /\ Redeemers' = IF "refunded" = "failed" THEN Redeemers \ {k}
                        ELSE IF orders[k].form.coupon THEN Redeemers \union {k} ELSE Redeemers
    BY <1>1, <1>2, <1>4, <2>1, OrderMoved
  <2>. QED
    BY <2>2
<1>6. Redeemers' = Redeemers
  BY <1>2, <1>5 DEF Redeemers
<1>7. RedemptionsExact'
  BY <1>4, <1>6 DEF IInv, RedemptionsExact, Redeemers
<1>8. stock \in Stock
  BY <1>1 DEF SalesTypeOK
<1>9. Cardinality(OrdersIn("paid")') = Cardinality(OrdersIn("paid")) - 1
      /\ Cardinality(OrdersIn("paid")) > 0
  BY <1>1, <1>5, Counts, CountWithout
<1>10. Cardinality(OrdersIn("pending")) \in Nat /\ Cardinality(OrdersIn("paid")) \in Nat
  BY <1>1, Counts
<1>11. stock.sold > 0
  BY <1>9 DEF IInv, InventoryExact
<1>12. /\ stock' \in Stock /\ stock'.sold = stock.sold - 1
       /\ stock'.reserved = stock.reserved /\ stock'.total = stock.total
  BY <1>4, <1>8, <1>11 DEF Dec, Stock
<1>13. InventoryExact'
  BY <1>5, <1>8, <1>9, <1>10, <1>12, SalesAssumption DEF IInv, InventoryExact, Stock
<1>14. tickets[k] \in Ticket
  BY <1>1, <1>3 DEF SalesTypeOK
<1>15. /\ DOMAIN tickets' = DOMAIN tickets
       /\ tickets'[k] = [tickets[k] EXCEPT !.status = "cancelled"]
       /\ \A j \in DOMAIN tickets \ {k} : tickets'[j] = tickets[j]
  BY <1>3, <1>4
<1>16. tickets'[k] \in Ticket /\ tickets'[k].status = "cancelled" /\ tickets'[k].id = tickets[k].id
  BY <1>14, <1>15 DEF Ticket, TicketStatus
<1>17. TicketsFollowOrders'
  <2>1. DOMAIN tickets' = OrdersIn("paid")' \union OrdersIn("refunded")'
    BY <1>3, <1>5, <1>15 DEF IInv, TicketsFollowOrders
  <2>2. \A j \in DOMAIN tickets : j \in DOMAIN orders
    BY DEF IInv, TicketsFollowOrders, OrdersIn
  <2>3. \A j \in DOMAIN tickets' :
          (tickets'[j].status = "cancelled") <=> (orders'[j].status = "refunded")
    BY <1>5, <1>15, <1>16, <2>2 DEF IInv, TicketsFollowOrders
  <2>. QED
    BY <1>4, <1>15, <2>1, <2>3 DEF IInv, TicketsFollowOrders
<1>18. ReceiptsAgree'
  <2>1. \A j \in DOMAIN tickets : tickets'[j].id = tickets[j].id
    BY <1>15, <1>16
  <2>. QED
    BY <1>4, <1>15, <2>1 DEF IInv, ReceiptsAgree
<1>19. ChargedInv'
  BY <1>4 DEF IInv, ChargedInv
<1>20. SalesTypeOK'
  <2>1. orders'[k] \in Order
    BY <1>1, <1>2, <1>4 DEF SalesTypeOK, Order, OrderStatus
  <2>2. \A j \in DOMAIN orders' : orders'[j] \in Order
    BY <1>1, <1>5, <2>1 DEF SalesTypeOK
  <2>3. \A j \in DOMAIN tickets' : tickets'[j] \in Ticket
    BY <1>1, <1>15, <1>16 DEF SalesTypeOK
  <2>. QED
    BY <1>1, <1>4, <1>5, <1>12, <1>15, <2>2, <2>3 DEF SalesTypeOK
<1>. QED
  BY <1>7, <1>13, <1>17, <1>18, <1>19, <1>20 DEF IInv

------------------------------------------------------------------------------
(* The sale.                                                               *)

LEMMA InitIInv == SalesInit => IInv
<1>. SUFFICES ASSUME SalesInit PROVE IInv
  OBVIOUS
<1>1. DOMAIN orders = {} /\ DOMAIN tickets = {} /\ DOMAIN requests = {}
  BY DEF SalesInit
<1>2. stock \in Stock /\ stock.reserved = Held /\ stock.sold = 0 /\ stock.total >= Held
  BY SalesAssumption DEF SalesInit, SeededStock, Stock
<1>3. questions \in [Questions -> QuestionStatus]
  BY DEF SalesInit, SeededQuestions, QuestionStatus
<1>4. SalesTypeOK
  BY <1>1, <1>2, <1>3 DEF SalesInit, SalesTypeOK
<1>5. (\A status : OrdersIn(status) = {}) /\ Redeemers = {}
  BY <1>1 DEF OrdersIn, Redeemers
<1>6. InventoryExact
  BY <1>2, <1>5, FS_EmptySet, SalesAssumption DEF InventoryExact
<1>7. RedemptionsExact
  BY <1>5, FS_EmptySet, SalesAssumption DEF SalesInit, RedemptionsExact, Redeemers
<1>8. TicketsFollowOrders
  BY <1>1, <1>5 DEF TicketsFollowOrders
<1>9. ReceiptsAgree
  BY <1>1 DEF SalesInit, ReceiptsAgree
<1>10. ChargedInv
  BY <1>1 DEF ChargedInv
<1>. QED
  BY <1>4, <1>6, <1>7, <1>8, <1>9, <1>10 DEF IInv

LEMMA NextIInv == IInv /\ [SalesNext]_salesVars => IInv'
<1>. SUFFICES ASSUME IInv, [SalesNext]_salesVars PROVE IInv'
  OBVIOUS
<1>. USE DEF SalesNext, Submit, Progress, Organize
<1>0. SalesTypeOK
  BY DEF IInv
<1>1. ASSUME NEW r \in Requests, NEW k \in Keys, NEW f \in Forms,
             ReplayOrder(r, k, f) \/ RefuseOrder(r, k, f) \/ ReserveOrder(r, k, f)
      PROVE  IInv'
  <2>1. CASE RefuseOrder(r, k, f)
    BY <1>0, <2>1, RequestsEnd DEF RefuseOrder, SalesTypeOK
  <2>. QED
    BY <1>1, <2>1, ReplayIInv, ReserveIInv
<1>2. ASSUME NEW r \in Requests, Progress(r) PROVE IInv'
  <2>1. CASE Decline(r)
    BY <1>0, <2>1, FailIInv DEF Decline, SalesTypeOK
  <2>2. CASE InterruptCharge(r)
    <3>1. r \in DOMAIN requests /\ FailOrder(requests[r].key) /\ requests' = Drop(requests, r)
          /\ UNCHANGED <<questions, tickets, receipts>>
      BY <2>2 DEF InterruptCharge
    <3>2. requests[r].key \in Keys
      BY <1>0, <3>1 DEF SalesTypeOK
    <3>3. charged' = charged \/ charged' = charged \union {requests[r].key}
      BY <2>2 DEF InterruptCharge
    <3>4. charged \subseteq charged' /\ charged' \subseteq Keys
      BY <1>0, <3>2, <3>3 DEF SalesTypeOK
    <3>. QED
      BY <3>1, <3>4, FailIInv
  <2>3. CASE AbandonReservation(r)
    <3>1. \A x \in DOMAIN requests' : x \in DOMAIN requests /\ requests'[x] = requests[x]
      BY <2>3 DEF AbandonReservation, Drop
    <3>. QED
      BY <1>0, <2>3, <3>1, RequestsEnd DEF AbandonReservation, SalesTypeOK
  <2>. QED
    BY <1>2, <2>1, <2>2, <2>3, ChargeIInv, CompleteIInv
<1>3. CASE Crash
  <2>1. DOMAIN requests' = {}
    BY <1>3 DEF Crash
  <2>. QED
    BY <1>0, <1>3, <2>1, RequestsEnd DEF Crash, SalesTypeOK
<1>4. ASSUME NEW q \in Questions, CreateQuestion(q) \/ ArchiveQuestion(q) PROVE IInv'
  <2>1. questions' \in [Questions -> QuestionStatus]
    BY <1>0, <1>4 DEF CreateQuestion, ArchiveQuestion, SalesTypeOK, QuestionStatus
  <2>. QED
    BY <1>4, <2>1, RequestsEnd DEF CreateQuestion, ArchiveQuestion
<1>5. CASE Organize
  BY <1>4, <1>5, RefundIInv, StockChanges
<1>6. CASE UNCHANGED salesVars
  BY <1>0, <1>6, RequestsEnd DEF salesVars, SalesTypeOK
<1>. QED
  BY <1>1, <1>2, <1>3, <1>5, <1>6

LEMMA Inductive == SalesSpec => []IInv
BY InitIInv, NextIInv, PTL DEF SalesSpec

\* The rows keep their types, for every set of checkouts, requests and forms.
THEOREM TypeCorrect == SalesSpec => []SalesTypeOK
BY Inductive, PTL DEF IInv

\* Seats are never oversold, and the counters are the orders they stand for.
THEOREM SeatsExact == SalesSpec => []InventoryExact
BY Inductive, PTL DEF IInv

\* A discount code is used exactly by the orders that did not fail, and never
\* more often than it allows.
THEOREM RedemptionsCounted == SalesSpec => []RedemptionsExact
BY Inductive, PTL DEF IInv

\* Tickets stand for charged orders that were completed, refunds cancel them.
THEOREM TicketPerPaidOrder == SalesSpec => []TicketsFollowOrders
BY Inductive, PTL DEF IInv

\* Every receipt of a checkout names the one ticket of its order.
THEOREM OneTicketPerCheckout == SalesSpec => []ReceiptsAgree
BY Inductive, PTL DEF IInv

------------------------------------------------------------------------------
(* The ledger.                                                             *)

SeatOf ==
  [k \in Keys |->
     IF k \notin DOMAIN orders THEN "none"
     ELSE CASE orders[k].status = "pending" -> "held"
            [] orders[k].status = "paid"    -> "sold"
            [] OTHER                        -> "released"]

LEMMA SameCardinality == \A S : Ledger!Cardinality(S) = Cardinality(S)
BY DEF Ledger!Cardinality, Cardinality

\* What the ledger counts is what the counters of the row say.
LEMMA LedgerCounts ==
  ASSUME IInv
  PROVE  /\ Ledger!Taken = stock.reserved + stock.sold
         /\ stock.total \in Nat
<1>1. SalesTypeOK /\ InventoryExact
  BY DEF IInv
<1>2. \A k \in DOMAIN orders : k \in Keys /\ orders[k].status \in OrderStatus
  BY <1>1 DEF SalesTypeOK, Order
<1>3. Ledger!With("held") = OrdersIn("pending")
  BY <1>2 DEF Ledger!With, OrdersIn, OrderStatus
<1>4. Ledger!With("sold") = OrdersIn("paid")
  BY <1>2 DEF Ledger!With, OrdersIn, OrderStatus
<1>5. Ledger!Taken = Held + Cardinality(OrdersIn("pending")) + Cardinality(OrdersIn("paid"))
  BY <1>3, <1>4, SameCardinality DEF Ledger!Taken
<1>. QED
  BY <1>1, <1>5 DEF InventoryExact, SalesTypeOK, Stock

LEMMA SameSeats ==
  ASSUME UNCHANGED <<orders>>
  PROVE  SeatOf' = SeatOf
BY DEF SeatOf

\* The seat of a checkout follows its order.
LEMMA SeatFollows ==
  ASSUME NEW k \in Keys, k \in DOMAIN orders',
         DOMAIN orders' = DOMAIN orders \union {k},
         \A j \in DOMAIN orders \ {k} : orders'[j] = orders[j]
  PROVE  /\ orders'[k].status = "pending" => SeatOf' = [SeatOf EXCEPT ![k] = "held"]
         /\ orders'[k].status = "paid" => SeatOf' = [SeatOf EXCEPT ![k] = "sold"]
         /\ orders'[k].status \in {"failed", "refunded"} =>
              SeatOf' = [SeatOf EXCEPT ![k] = "released"]
BY DEF SeatOf

LEMMA FailReleases ==
  ASSUME IInv, NEW k \in DOMAIN orders, FailOrder(k)
  PROVE  [Ledger!LedgerNext]_Ledger!ledgerVars
<1>1. SalesTypeOK /\ k \in Keys
  BY DEF IInv, SalesTypeOK
<1>2. CASE orders[k].status # "pending"
  <2>1. UNCHANGED <<orders, stock>>
    BY <1>2 DEF FailOrder
  <2>. QED
    BY <2>1 DEF Ledger!ledgerVars
<1>3. CASE orders[k].status = "pending"
  <2>1. orders' = [orders EXCEPT ![k].status = "failed"] /\ stock' = [stock EXCEPT !.reserved = Dec(@)]
    BY <1>3 DEF FailOrder
  <2>2. orders[k] \in Order /\ stock \in Stock
    BY <1>1 DEF SalesTypeOK
  <2>3. orders'[k].status = "failed" /\ DOMAIN orders' = DOMAIN orders
    BY <2>1, <2>2 DEF Order
  <2>4. \A j \in DOMAIN orders \ {k} : orders'[j] = orders[j]
    BY <2>1
  <2>5. SeatOf' = [SeatOf EXCEPT ![k] = "released"]
    BY <1>1, <2>3, <2>4, SeatFollows
  <2>6. SeatOf[k] = "held"
    BY <1>1, <1>3 DEF SeatOf
  <2>7. stock'.total = stock.total
    BY <2>1, <2>2 DEF Stock
  <2>8. Ledger!Release(k)
    BY <2>5, <2>6, <2>7 DEF Ledger!Release, SeatOf
  <2>. QED
    BY <1>1, <2>8 DEF Ledger!LedgerNext
<1>. QED
  BY <1>2, <1>3

LEMMA ReserveHolds ==
  ASSUME IInv, NEW r \in Requests, NEW k \in Keys, NEW f \in Forms, ReserveOrder(r, k, f)
  PROVE  Ledger!Hold(k)
<1>1. SalesTypeOK
  BY DEF IInv
<1>2. /\ k \notin DOMAIN orders
      /\ stock.reserved + stock.sold < stock.total
      /\ stock' = [stock EXCEPT !.reserved = @ + 1]
      /\ orders' = Put(orders, k, [status |-> "pending", form |-> f])
  BY DEF ReserveOrder, Admitted
<1>3. /\ DOMAIN orders' = DOMAIN orders \union {k}
      /\ orders'[k] = [status |-> "pending", form |-> f]
      /\ \A j \in DOMAIN orders : orders'[j] = orders[j]
  BY <1>1, <1>2, OrderAdded
<1>4. SeatOf' = [SeatOf EXCEPT ![k] = "held"]
  BY <1>3, SeatFollows
<1>5. SeatOf[k] = "none"
  BY <1>2 DEF SeatOf
<1>6. stock'.total = stock.total
  BY <1>1, <1>2 DEF SalesTypeOK, Stock
<1>7. Ledger!Taken < stock.total
  BY <1>2, LedgerCounts
<1>. QED
  BY <1>4, <1>5, <1>6, <1>7 DEF Ledger!Hold, SeatOf

LEMMA CompletionSells ==
  ASSUME IInv, NEW r \in Requests, CompleteOrder(r)
  PROVE  [Ledger!LedgerNext]_Ledger!ledgerVars
<1>1. SalesTypeOK
  BY DEF IInv
<1>2. PICK k : k = requests[r].key
  OBVIOUS
<1>3. k \in DOMAIN orders /\ k \in Keys
  BY <1>1, <1>2 DEF SalesTypeOK, CompleteOrder
<1>4. CASE ~(orders[k].status = "pending" /\ stock.reserved > 0)
  <2>1. UNCHANGED <<orders, stock>>
    BY <1>2, <1>4 DEF CompleteOrder
  <2>. QED
    BY <2>1 DEF Ledger!ledgerVars
<1>5. CASE orders[k].status = "pending" /\ stock.reserved > 0
  <2>1. /\ orders' = [orders EXCEPT ![k].status = "paid"]
        /\ stock' = [stock EXCEPT !.reserved = @ - 1, !.sold = @ + 1]
    BY <1>2, <1>5 DEF CompleteOrder
  <2>2. orders[k] \in Order /\ stock \in Stock
    BY <1>1, <1>3 DEF SalesTypeOK
  <2>3. orders'[k].status = "paid" /\ DOMAIN orders' = DOMAIN orders
    BY <1>3, <2>1, <2>2 DEF Order
  <2>4. \A j \in DOMAIN orders \ {k} : orders'[j] = orders[j]
    BY <2>1
  <2>5. SeatOf' = [SeatOf EXCEPT ![k] = "sold"]
    BY <1>3, <2>3, <2>4, SeatFollows
  <2>6. SeatOf[k] = "held"
    BY <1>3, <1>5 DEF SeatOf
  <2>7. stock'.total = stock.total
    BY <2>1, <2>2 DEF Stock
  <2>8. Ledger!Sell(k)
    BY <2>5, <2>6, <2>7 DEF Ledger!Sell, SeatOf
  <2>. QED
    BY <1>3, <2>8 DEF Ledger!LedgerNext
<1>. QED
  BY <1>4, <1>5

LEMMA RefundReleases ==
  ASSUME IInv, NEW k \in Keys, Refund(k)
  PROVE  Ledger!Release(k)
<1>1. SalesTypeOK
  BY DEF IInv
<1>2. /\ k \in DOMAIN orders /\ orders[k].status = "paid"
      /\ orders' = [orders EXCEPT ![k].status = "refunded"]
      /\ stock' = [stock EXCEPT !.sold = Dec(@)]
  BY DEF Refund
<1>3. orders[k] \in Order /\ stock \in Stock
  BY <1>1, <1>2 DEF SalesTypeOK
<1>4. orders'[k].status = "refunded" /\ DOMAIN orders' = DOMAIN orders
  BY <1>2, <1>3 DEF Order
<1>5. \A j \in DOMAIN orders \ {k} : orders'[j] = orders[j]
  BY <1>2
<1>6. SeatOf' = [SeatOf EXCEPT ![k] = "released"]
  BY <1>2, <1>4, <1>5, SeatFollows
<1>7. SeatOf[k] = "sold"
  BY <1>2 DEF SeatOf
<1>8. stock'.total = stock.total
  BY <1>2, <1>3 DEF Stock
<1>. QED
  BY <1>6, <1>7, <1>8 DEF Ledger!Release, SeatOf

LEMMA ResizeResizes ==
  ASSUME IInv, ResizeTicketType
  PROVE  Ledger!Resize
<1>1. stock \in Stock
  BY DEF IInv, SalesTypeOK
<1>2. PICK n \in 1..MaxTotal :
        n >= stock.reserved + stock.sold /\ stock' = [stock EXCEPT !.total = n]
  BY DEF ResizeTicketType
<1>3. stock'.total = n /\ n \in Nat
  BY <1>1, <1>2, SalesAssumption DEF Stock
<1>4. UNCHANGED orders
  BY DEF ResizeTicketType
<1>. QED
  BY <1>2, <1>3, <1>4, LedgerCounts DEF Ledger!Resize

\* A step that leaves the orders and the size of the type alone is none of the
\* ledger's.
LEMMA NoSeatMoves ==
  ASSUME UNCHANGED orders, stock'.total = stock.total
  PROVE  UNCHANGED Ledger!ledgerVars
BY DEF Ledger!ledgerVars

LEMMA LedgerStep == IInv /\ [SalesNext]_salesVars => [Ledger!LedgerNext]_Ledger!ledgerVars
<1>. SUFFICES ASSUME IInv, [SalesNext]_salesVars
              PROVE  [Ledger!LedgerNext]_Ledger!ledgerVars
  OBVIOUS
<1>0. SalesTypeOK
  BY DEF IInv
<1>1. CASE Submit
  <2>1. PICK r \in Requests, k \in Keys, f \in Forms :
          ReplayOrder(r, k, f) \/ RefuseOrder(r, k, f) \/ ReserveOrder(r, k, f)
    BY <1>1 DEF Submit
  <2>2. CASE ReplayOrder(r, k, f) \/ RefuseOrder(r, k, f)
    BY <2>2, NoSeatMoves DEF ReplayOrder, RefuseOrder
  <2>3. CASE ReserveOrder(r, k, f)
    BY <2>3, ReserveHolds DEF Ledger!LedgerNext
  <2>. QED
    BY <2>1, <2>2, <2>3
<1>2. ASSUME NEW r \in Requests, Progress(r)
      PROVE  [Ledger!LedgerNext]_Ledger!ledgerVars
  <2>1. CASE Decline(r) \/ InterruptCharge(r)
    <3>1. r \in DOMAIN requests /\ FailOrder(requests[r].key)
      BY <2>1 DEF Decline, InterruptCharge
    <3>2. requests[r].key \in DOMAIN orders
      BY <1>0, <3>1 DEF SalesTypeOK
    <3>. QED
      BY <3>1, <3>2, FailReleases
  <2>2. CASE Charge(r) \/ AbandonReservation(r)
    BY <2>2, NoSeatMoves DEF Charge, AbandonReservation
  <2>. QED
    BY <1>2, <2>1, <2>2, CompletionSells DEF Progress
<1>3. CASE Crash
  BY <1>3, NoSeatMoves DEF Crash
<1>4. CASE Organize
  <2>1. ASSUME NEW k \in Keys, Refund(k) PROVE [Ledger!LedgerNext]_Ledger!ledgerVars
    BY <2>1, RefundReleases DEF Ledger!LedgerNext
  <2>2. CASE ResizeTicketType
    BY <2>2, ResizeResizes DEF Ledger!LedgerNext
  <2>3. CASE ChangeSale
    <3>1. stock'.total = stock.total
      BY <1>0, <2>3 DEF ChangeSale, SalesTypeOK, Stock
    <3>. QED
      BY <2>3, <3>1, NoSeatMoves DEF ChangeSale
  <2>4. ASSUME NEW q \in Questions, CreateQuestion(q) \/ ArchiveQuestion(q)
        PROVE  [Ledger!LedgerNext]_Ledger!ledgerVars
    BY <2>4, NoSeatMoves DEF CreateQuestion, ArchiveQuestion
  <2>. QED
    BY <1>4, <2>1, <2>2, <2>3, <2>4 DEF Organize
<1>5. CASE UNCHANGED salesVars
  BY <1>5, NoSeatMoves DEF salesVars
<1>. QED
  BY <1>1, <1>2, <1>3, <1>4, <1>5 DEF SalesNext

LEMMA LedgerBegins == SalesInit => Ledger!LedgerInit
<1>. SUFFICES ASSUME SalesInit PROVE Ledger!LedgerInit
  OBVIOUS
<1>1. stock.total \in Nat /\ stock.total >= Held
  BY SalesAssumption DEF SalesInit, SeededStock
<1>2. DOMAIN orders = {}
  BY DEF SalesInit
<1>. QED
  BY <1>1, <1>2 DEF Ledger!LedgerInit

\* The sale implements the ledger of seats: whatever requests, interruptions
\* and organizers do, a checkout takes at most one seat, only a free one, and
\* never again after it gave it back.
THEOREM SaleKeepsLedger == SalesSpec => KeepsLedger
BY LedgerBegins, LedgerStep, Inductive, PTL DEF SalesSpec, KeepsLedger, Ledger!LedgerSpec

------------------------------------------------------------------------------
(* The day of the event.                                                   *)

Ops == {"check_in", "undo"}

\* Staff act on tickets; a ticket has no entries before it is issued.
DoorInv ==
  /\ \A s \in DOMAIN scans : scans[s].op \in Ops /\ scans[s].key \in DOMAIN tickets
  /\ audit \in [Keys -> Seq(Ops)]
  /\ \A k \in Keys : k \notin DOMAIN tickets => audit[k] = << >>

\* AuditExplainsStatus, entry by entry.
Alternates(entries) ==
  \A i \in 1..Len(entries) : entries[i] = IF i % 2 = 1 THEN "check_in" ELSE "undo"

Newest(entries) == IF Len(entries) % 2 = 1 THEN "checked_in" ELSE "valid"

TrailInv ==
  /\ \A k \in Keys : Alternates(audit[k])
  /\ \A k \in DOMAIN tickets : tickets[k].status \in {"cancelled", Newest(audit[k])}

\* The messages, and what their senders still have to do about them.
BoxInv ==
  /\ waitlist \in [Emails -> WaitlistStatus]
  /\ news \in NewsStatus
  /\ DOMAIN outbox \subseteq Mails
  /\ \A m \in DOMAIN outbox : outbox[m] \in {"pending", "sent"}
  /\ delivered \subseteq DOMAIN outbox

\* A message is handed over before its sender comes to mark it.
SendersInv ==
  \A w \in DOMAIN senders :
    /\ senders[w].todo \subseteq DOMAIN outbox
    /\ senders[w].handed \subseteq delivered
    /\ senders[w] \in [job : {"refund", "waitlist", "news", "dashboard"},
                       todo : SUBSET Mails, handed : SUBSET Mails]

\* MailFollowsRecords, message by message.
MailInv ==
  /\ \A k \in Keys : TicketMail(k) \in DOMAIN outbox <=> k \in DOMAIN tickets
  /\ \A k \in Keys : RefundMail(k) \in DOMAIN outbox <=> k \in OrdersIn("refunded")
  /\ \A e \in Emails : WaitlistMail(e) \in DOMAIN outbox <=> waitlist[e] = "notified"
  /\ \A e \in Emails : NewsMail(e) \in DOMAIN outbox => news = "sent"

DayInv ==
  /\ IInv
  /\ DoorInv
  /\ TrailInv
  /\ BoxInv
  /\ SendersInv
  /\ SentWasDelivered
  /\ MailInv

------------------------------------------------------------------------------
(* The trail of a ticket.                                                  *)

LEMMA EmptyTrail == Alternates(<< >>) /\ Newest(<< >>) = "valid"
<1>1. Len(<< >>) = 0 /\ 0 % 2 = 0
  OBVIOUS
<1>2. \A i \in 1..0 : FALSE
  OBVIOUS
<1>. QED
  BY <1>1, <1>2 DEF Alternates, Newest

LEMMA Parity == \A n \in Nat : (n + 1) % 2 = 1 <=> n % 2 # 1
OBVIOUS

\* An entry that reverses the newest one.
LEMMA TrailGrows ==
  ASSUME NEW entries \in Seq(Ops), Alternates(entries),
         NEW op \in Ops, Newest(entries) = From(op)
  PROVE  /\ Append(entries, op) \in Seq(Ops)
         /\ Alternates(Append(entries, op))
         /\ Newest(Append(entries, op)) = To(op)
<1>0. Append(entries, op) \in Seq(Ops)
  OBVIOUS
<1>1. PICK n \in Nat : n = Len(entries)
  OBVIOUS
<1>2. PICK longer \in Seq(Ops) : longer = Append(entries, op)
  BY <1>0
<1>3. /\ Len(longer) = n + 1 /\ longer[n + 1] = op
      /\ \A i \in 1..n : longer[i] = entries[i]
  BY <1>1, <1>2
<1>4. op = (IF n % 2 # 1 THEN "check_in" ELSE "undo")
  BY <1>1 DEF Newest, From, Ops
<1>5. op = (IF (n + 1) % 2 = 1 THEN "check_in" ELSE "undo")
  BY <1>1, <1>4, Parity
<1>6. \A i \in 1..(n + 1) : i \in 1..n \/ i = n + 1
  BY <1>1
<1>7. Alternates(longer)
  BY <1>1, <1>3, <1>5, <1>6 DEF Alternates
<1>8. Newest(longer) = To(op)
  BY <1>1, <1>3, <1>4, Parity DEF Newest, To
<1>. QED
  BY <1>2, <1>7, <1>8

LEMMA TrailExplains == TrailInv => AuditExplainsStatus
<1>. SUFFICES ASSUME TrailInv, NEW k \in Keys
              PROVE  /\ \A i \in 1..Len(audit[k]) :
                          audit[k][i] = IF i % 2 = 1 THEN "check_in" ELSE "undo"
                     /\ k \in DOMAIN tickets =>
                          \/ tickets[k].status = "cancelled"
                          \/ tickets[k].status =
                               IF Len(audit[k]) % 2 = 1 THEN "checked_in" ELSE "valid"
  BY DEF AuditExplainsStatus
<1>1. Alternates(audit[k])
  BY DEF TrailInv
<1>2. k \in DOMAIN tickets => tickets[k].status \in {"cancelled", Newest(audit[k])}
  BY DEF TrailInv
<1>3. \A i \in 1..Len(audit[k]) : audit[k][i] = IF i % 2 = 1 THEN "check_in" ELSE "undo"
  BY <1>1 DEF Alternates
<1>. QED
  BY <1>2, <1>3 DEF Newest

------------------------------------------------------------------------------
(* Messages.                                                               *)

\* Every message is one of the four kinds, and no two are the same.
LEMMA MailKinds ==
  /\ \A k \in Keys : TicketMail(k) \in Mails /\ RefundMail(k) \in Mails
  /\ \A e \in Emails : WaitlistMail(e) \in Mails /\ NewsMail(e) \in Mails
  /\ \A m \in Mails :
       \/ \E k \in Keys : m = TicketMail(k) \/ m = RefundMail(k)
       \/ \E e \in Emails : m = WaitlistMail(e) \/ m = NewsMail(e)
BY DEF Mails, TicketMail, RefundMail, WaitlistMail, NewsMail

LEMMA KindsDiffer ==
  /\ \A x, y : /\ TicketMail(x) # RefundMail(y) /\ TicketMail(x) # WaitlistMail(y)
               /\ TicketMail(x) # NewsMail(y) /\ RefundMail(x) # WaitlistMail(y)
               /\ RefundMail(x) # NewsMail(y) /\ WaitlistMail(x) # NewsMail(y)
  /\ \A x, y : TicketMail(x) = TicketMail(y) \/ RefundMail(x) = RefundMail(y) => x = y
  /\ \A x, y : WaitlistMail(x) = WaitlistMail(y) \/ NewsMail(x) = NewsMail(y) => x = y
BY DEF TicketMail, RefundMail, WaitlistMail, NewsMail

\* The messages are in the outbox exactly when the records say so.
LEMMA MailsFollow == MailInv => MailFollowsRecords
<1>. SUFFICES ASSUME MailInv, NEW m \in Mails
              PROVE  CASE m[1] = "ticket"   -> m \in DOMAIN outbox <=> m[2] \in DOMAIN tickets
                       [] m[1] = "refund"   -> m \in DOMAIN outbox <=> m[2] \in OrdersIn("refunded")
                       [] m[1] = "waitlist" -> m \in DOMAIN outbox <=> waitlist[m[2]] = "notified"
                       [] m[1] = "news"     -> m \in DOMAIN outbox => news = "sent"
  BY DEF MailFollowsRecords
<1>1. CASE \E k \in Keys : m = TicketMail(k)
  BY <1>1 DEF MailInv, TicketMail
<1>2. CASE \E k \in Keys : m = RefundMail(k)
  BY <1>2 DEF MailInv, RefundMail
<1>3. CASE \E e \in Emails : m = WaitlistMail(e)
  BY <1>3 DEF MailInv, WaitlistMail
<1>4. CASE \E e \in Emails : m = NewsMail(e)
  BY <1>4 DEF MailInv, NewsMail
<1>. QED
  BY <1>1, <1>2, <1>3, <1>4, MailKinds

\* Queued messages are pending, and those that were there stay as they are.
LEMMA Queued ==
  ASSUME NEW ms, outbox' = Queue(ms)
  PROVE  /\ DOMAIN outbox' = DOMAIN outbox \union ms
         /\ \A m \in DOMAIN outbox : outbox'[m] = outbox[m]
         /\ \A m \in ms \ DOMAIN outbox : outbox'[m] = "pending"
BY DEF Queue

\* Queueing messages of Mails keeps what does not depend on the records.
LEMMA QueueKeeps ==
  ASSUME BoxInv, SentWasDelivered, NEW ms \in SUBSET Mails, outbox' = Queue(ms),
         waitlist' \in [Emails -> WaitlistStatus], news' \in NewsStatus,
         delivered' = delivered
  PROVE  BoxInv' /\ SentWasDelivered'
<1>1. /\ DOMAIN outbox' = DOMAIN outbox \union ms
      /\ \A m \in DOMAIN outbox : outbox'[m] = outbox[m]
      /\ \A m \in ms \ DOMAIN outbox : outbox'[m] = "pending"
  BY Queued
<1>2. BoxInv'
  BY <1>1 DEF BoxInv
<1>3. SentWasDelivered'
  BY <1>1 DEF SentWasDelivered
<1>. QED
  BY <1>2, <1>3

\* A request that sets out has handed nothing over yet.
LEMMA SetOutKeeps ==
  ASSUME SendersInv, NEW w, NEW job \in {"refund", "waitlist", "news", "dashboard"},
         NEW ms \in SUBSET Mails, SetOut(w, job, ms), ms \subseteq DOMAIN outbox',
         DOMAIN outbox \subseteq DOMAIN outbox', delivered' = delivered
  PROVE  SendersInv'
<1>1. CASE ms = {}
  BY <1>1 DEF SetOut, SendersInv
<1>2. CASE ms # {}
  <2>1. PICK new : new = [job |-> job, todo |-> ms, handed |-> {}]
    OBVIOUS
  <2>2. /\ DOMAIN senders' = DOMAIN senders \union {w}
        /\ senders'[w] = new
        /\ \A v \in DOMAIN senders \ {w} : senders'[v] = senders[v]
    BY <1>2, <2>1 DEF SetOut, Put
  <2>3. /\ new.todo = ms /\ new.handed = {}
        /\ new \in [job : {"refund", "waitlist", "news", "dashboard"},
                    todo : SUBSET Mails, handed : SUBSET Mails]
    BY <2>1
  <2>. QED
    BY <2>2, <2>3 DEF SendersInv
<1>. QED
  BY <1>1, <1>2

\* A sender that is done, or interrupted, leaves the others alone.
LEMMA SenderEnds ==
  ASSUME SendersInv, NEW w, senders' = Drop(senders, w),
         DOMAIN outbox \subseteq DOMAIN outbox', delivered \subseteq delivered'
  PROVE  SendersInv'
<1>1. \A v \in DOMAIN senders' : v \in DOMAIN senders /\ senders'[v] = senders[v]
  BY DEF Drop
<1>. QED
  BY <1>1 DEF SendersInv
------------------------------------------------------------------------------
(* The sale during the day.                                                *)

\* The refunded orders are those of the cancelled tickets.
LEMMA RefundedAreCancelled ==
  ASSUME IInv, IInv'
  PROVE  /\ OrdersIn("refunded") = {k \in DOMAIN tickets : tickets[k].status = "cancelled"}
         /\ OrdersIn("refunded")' = {k \in DOMAIN tickets' : tickets'[k].status = "cancelled"}
<1>1. /\ DOMAIN tickets = OrdersIn("paid") \union OrdersIn("refunded")
      /\ \A k \in DOMAIN tickets :
           (tickets[k].status = "cancelled") <=> (orders[k].status = "refunded")
  BY DEF IInv, TicketsFollowOrders
<1>2. /\ DOMAIN tickets' = OrdersIn("paid")' \union OrdersIn("refunded")'
      /\ \A k \in DOMAIN tickets' :
           (tickets'[k].status = "cancelled") <=> (orders'[k].status = "refunded")
  BY DEF IInv, TicketsFollowOrders
<1>3. OrdersIn("refunded") = {k \in DOMAIN tickets : tickets[k].status = "cancelled"}
  BY <1>1 DEF OrdersIn
<1>4. OrdersIn("refunded")' = {k \in DOMAIN tickets' : tickets'[k].status = "cancelled"}
  BY <1>2 DEF OrdersIn
<1>. QED
  BY <1>3, <1>4

\* A step of the sale issues at most one ticket, a valid one.
LEMMA TicketsIssued ==
  ASSUME IInv, Submit \/ \E r \in Requests : Progress(r)
  PROVE  \/ tickets' = tickets
         \/ \E k \in Keys \ DOMAIN tickets :
              /\ DOMAIN tickets' = DOMAIN tickets \union {k}
              /\ tickets'[k].status = "valid"
              /\ \A j \in DOMAIN tickets : tickets'[j] = tickets[j]
<1>1. CASE Submit
  BY <1>1 DEF Submit, ReplayOrder, RefuseOrder, ReserveOrder
<1>2. ASSUME NEW r \in Requests, Charge(r) \/ Decline(r) \/ InterruptCharge(r) \/ AbandonReservation(r)
      PROVE  tickets' = tickets
  BY <1>2 DEF Charge, Decline, InterruptCharge, AbandonReservation
<1>3. ASSUME NEW r \in Requests, CompleteOrder(r), tickets' # tickets
      PROVE  \E k \in Keys \ DOMAIN tickets :
               /\ DOMAIN tickets' = DOMAIN tickets \union {k}
               /\ tickets'[k].status = "valid"
               /\ \A j \in DOMAIN tickets : tickets'[j] = tickets[j]
  <2>1. PICK k : k = requests[r].key
    OBVIOUS
  <2>2. /\ orders[k].status = "pending"
        /\ \E id \in FreshIds : tickets' = Put(tickets, k, [id |-> id, status |-> "valid"])
    BY <1>3, <2>1 DEF CompleteOrder
  <2>3. k \in DOMAIN orders /\ k \in Keys
    BY <1>3, <2>1 DEF CompleteOrder, IInv, SalesTypeOK
  <2>4. k \notin DOMAIN tickets
    BY <2>2 DEF IInv, TicketsFollowOrders, OrdersIn
  <2>5. /\ DOMAIN tickets' = DOMAIN tickets \union {k}
        /\ tickets'[k].status = "valid"
        /\ \A j \in DOMAIN tickets : tickets'[j] = tickets[j]
    BY <2>2, <2>4 DEF Put
  <2>. QED
    BY <2>3, <2>4, <2>5
<1>. QED
  BY <1>1, <1>2, <1>3 DEF Progress

LEMMA SellKeeps ==
  ASSUME DayInv, Sell
  PROVE  DayInv'
<1>1. Submit \/ \E r \in Requests : Progress(r)
  BY DEF Sell
<1>2. IInv /\ IInv'
  BY <1>1, NextIInv DEF DayInv, SalesNext
<1>3. /\ outbox' = Queue({TicketMail(k) : k \in DOMAIN tickets' \ DOMAIN tickets})
      /\ UNCHANGED <<scans, audit, waitlist, news, delivered, senders>>
  BY DEF Sell, doorVars
<1>4. PICK new \in SUBSET Keys :
        /\ new \cap DOMAIN tickets = {}
        /\ DOMAIN tickets' = DOMAIN tickets \union new
        /\ \A k \in new : tickets'[k].status = "valid"
        /\ \A k \in DOMAIN tickets : tickets'[k] = tickets[k]
  <2>1. CASE tickets' = tickets
    <3>1. {} \in SUBSET Keys /\ {} \cap DOMAIN tickets = {}
          /\ DOMAIN tickets' = DOMAIN tickets \union {}
      BY <2>1
    <3>. QED
      BY <2>1, <3>1
  <2>2. CASE \E k \in Keys \ DOMAIN tickets :
               /\ DOMAIN tickets' = DOMAIN tickets \union {k}
               /\ tickets'[k].status = "valid"
               /\ \A j \in DOMAIN tickets : tickets'[j] = tickets[j]
    <3>1. PICK k \in Keys \ DOMAIN tickets :
               /\ DOMAIN tickets' = DOMAIN tickets \union {k}
               /\ tickets'[k].status = "valid"
               /\ \A j \in DOMAIN tickets : tickets'[j] = tickets[j]
      BY <2>2
    <3>2. {k} \in SUBSET Keys
      BY <3>1
    <3>. QED
      BY <3>1, <3>2
  <2>. QED
    BY <1>1, <1>2, <2>1, <2>2, TicketsIssued
<1>5. DOMAIN tickets' \ DOMAIN tickets = new
  BY <1>4
<1>6. PICK ms : ms = {TicketMail(k) : k \in new}
  OBVIOUS
<1>7. outbox' = Queue(ms) /\ ms \in SUBSET Mails
  BY <1>3, <1>5, <1>6, MailKinds
<1>8. BoxInv' /\ SentWasDelivered'
  BY <1>3, <1>7, QueueKeeps DEF DayInv, BoxInv
<1>9. DOMAIN outbox' = DOMAIN outbox \union ms
  BY <1>7, Queued
<1>10. SendersInv'
  BY <1>3, <1>9 DEF DayInv, SendersInv
<1>11. MailInv'
  <2>1. OrdersIn("refunded")' = OrdersIn("refunded")
    <3>1. {k \in DOMAIN tickets' : tickets'[k].status = "cancelled"}
            = {k \in DOMAIN tickets : tickets[k].status = "cancelled"}
      BY <1>4
    <3>. QED
      BY <1>2, <3>1, RefundedAreCancelled
  <2>2. \A k \in Keys : TicketMail(k) \in ms <=> k \in new
    BY <1>6, KindsDiffer
  <2>3. \A k \in Keys : RefundMail(k) \notin ms
    BY <1>6, KindsDiffer
  <2>4. \A e \in Emails : WaitlistMail(e) \notin ms /\ NewsMail(e) \notin ms
    BY <1>6, KindsDiffer
  <2>5. MailInv
    BY DEF DayInv
  <2>6. \A k \in Keys : TicketMail(k) \in DOMAIN outbox' <=> k \in DOMAIN tickets'
    BY <1>4, <1>9, <2>2, <2>5 DEF MailInv
  <2>7. \A k \in Keys : RefundMail(k) \in DOMAIN outbox' <=> k \in OrdersIn("refunded")'
    BY <1>9, <2>1, <2>3, <2>5 DEF MailInv
  <2>8. \A e \in Emails : /\ WaitlistMail(e) \in DOMAIN outbox' <=> waitlist'[e] = "notified"
                          /\ NewsMail(e) \in DOMAIN outbox' => news' = "sent"
    BY <1>3, <1>9, <2>4, <2>5 DEF MailInv
  <2>. QED
    BY <2>6, <2>7, <2>8 DEF MailInv, TicketMail, RefundMail, WaitlistMail, NewsMail
<1>12. DoorInv'
  BY <1>3, <1>4 DEF DayInv, DoorInv
<1>13. TrailInv'
  <2>1. \A k \in new : k \in Keys /\ audit'[k] = << >>
    BY <1>3, <1>4 DEF DayInv, DoorInv
  <2>2. \A k \in new : tickets'[k].status = Newest(audit'[k])
    BY <1>4, <2>1, EmptyTrail
  <2>. QED
    BY <1>3, <1>4, <2>2 DEF DayInv, TrailInv
<1>. QED
  BY <1>2, <1>8, <1>10, <1>11, <1>12, <1>13 DEF DayInv
------------------------------------------------------------------------------
(* The door.                                                               *)

LEMMA SaleRests ==
  ASSUME IInv,
         UNCHANGED <<stock, redeemed, questions, orders, tickets, requests, charged, receipts>>
  PROVE  IInv' /\ OrdersIn("refunded")' = OrdersIn("refunded")
<1>1. IInv'
  BY RequestsEnd DEF IInv, SalesTypeOK
<1>2. OrdersIn("refunded")' = OrdersIn("refunded")
  BY DEF OrdersIn
<1>. QED
  BY <1>1, <1>2

\* Mail that does not move while tickets and records keep their keys.
LEMMA MailRests ==
  ASSUME MailInv, DOMAIN outbox' = DOMAIN outbox, DOMAIN tickets' = DOMAIN tickets,
         OrdersIn("refunded")' = OrdersIn("refunded"), waitlist' = waitlist,
         news' \in {news, "sent"}
  PROVE  MailInv'
<1>1. \A k \in Keys : TicketMail(k) \in DOMAIN outbox' <=> k \in DOMAIN tickets'
  BY DEF MailInv
<1>2. \A k \in Keys : RefundMail(k) \in DOMAIN outbox' <=> k \in OrdersIn("refunded")'
  BY DEF MailInv
<1>3. \A e \in Emails : /\ WaitlistMail(e) \in DOMAIN outbox' <=> waitlist'[e] = "notified"
                        /\ NewsMail(e) \in DOMAIN outbox' => news' = "sent"
  BY DEF MailInv
<1>. QED
  BY <1>1, <1>2, <1>3 DEF MailInv, TicketMail, RefundMail, WaitlistMail, NewsMail

LEMMA ScanKeeps ==
  ASSUME DayInv, NEW s \in Staff, NEW op \in Ops, NEW k \in Keys, Scan(s, op, k)
  PROVE  DayInv'
<1>1. /\ UNCHANGED <<stock, redeemed, questions, orders, tickets, requests, charged, receipts>>
      /\ UNCHANGED <<audit, waitlist, news, outbox, delivered, senders>>
  BY DEF Scan, mailVars
<1>2. IInv' /\ OrdersIn("refunded")' = OrdersIn("refunded")
  BY <1>1, SaleRests DEF DayInv
<1>3. MailInv'
  BY <1>1, <1>2, MailRests DEF DayInv
<1>4. DoorInv'
  <2>1. CASE Credential(k) = From(op)
    <3>1. k \in DOMAIN tickets
      BY <2>1 DEF Credential, From
    <3>2. PICK new : new = [op |-> op, key |-> k]
      OBVIOUS
    <3>3. scans' = Put(scans, s, new)
      BY <2>1, <3>2 DEF Scan
    <3>4. /\ DOMAIN scans' = DOMAIN scans \union {s}
          /\ \A x \in DOMAIN scans' : scans'[x] = IF x = s THEN new ELSE scans[x]
      BY <3>3 DEF Put
    <3>5. new.op \in Ops /\ new.key \in DOMAIN tickets
      BY <3>1, <3>2
    <3>6. \A x \in DOMAIN scans' : scans'[x].op \in Ops /\ scans'[x].key \in DOMAIN tickets
      BY <3>4, <3>5 DEF DayInv, DoorInv
    <3>. QED
      BY <1>1, <3>6 DEF DayInv, DoorInv
  <2>2. CASE Credential(k) # From(op)
    BY <1>1, <2>2 DEF DayInv, DoorInv, Scan
  <2>. QED
    BY <2>1, <2>2
<1>5. TrailInv' /\ BoxInv' /\ SendersInv' /\ SentWasDelivered'
  BY <1>1 DEF DayInv, TrailInv, BoxInv, SendersInv, SentWasDelivered
<1>. QED
  BY <1>2, <1>3, <1>4, <1>5 DEF DayInv

\* The sale does not tell a ticket that was checked in from one that was not.
LEMMA TicketTurns ==
  ASSUME IInv, NEW k \in DOMAIN tickets, tickets[k].status # "cancelled",
         NEW to \in {"valid", "checked_in"},
         tickets' = [tickets EXCEPT ![k].status = to],
         UNCHANGED <<stock, redeemed, questions, orders, requests, charged, receipts>>
  PROVE  /\ IInv' /\ OrdersIn("refunded")' = OrdersIn("refunded")
         /\ DOMAIN tickets' = DOMAIN tickets
         /\ tickets'[k].status = to
         /\ \A j \in DOMAIN tickets \ {k} : tickets'[j] = tickets[j]
<1>1. tickets[k] \in Ticket
  BY DEF IInv, SalesTypeOK
<1>2. DOMAIN tickets' = DOMAIN tickets /\ \A j \in DOMAIN tickets \ {k} : tickets'[j] = tickets[j]
  OBVIOUS
<1>3. tickets'[k] \in Ticket /\ tickets'[k].status = to /\ tickets'[k].id = tickets[k].id
  BY <1>1 DEF Ticket, TicketStatus
<1>4. \A status : OrdersIn(status)' = OrdersIn(status)
  BY DEF OrdersIn
<1>5. SalesTypeOK'
  BY <1>2, <1>3 DEF IInv, SalesTypeOK
<1>6. TicketsFollowOrders'
  <2>1. DOMAIN tickets' = OrdersIn("paid")' \union OrdersIn("refunded")' /\ DOMAIN tickets' \subseteq charged'
    BY <1>2, <1>4 DEF IInv, TicketsFollowOrders
  <2>2. \A j \in DOMAIN tickets' :
          (tickets'[j].status = "cancelled") <=> (orders'[j].status = "refunded")
    BY <1>2, <1>3 DEF IInv, TicketsFollowOrders
  <2>. QED
    BY <2>1, <2>2 DEF TicketsFollowOrders
<1>7. ReceiptsAgree'
  <2>1. \A j \in DOMAIN tickets : tickets'[j].id = tickets[j].id
    BY <1>2, <1>3
  <2>. QED
    BY <1>2, <2>1 DEF IInv, ReceiptsAgree
<1>8. InventoryExact' /\ RedemptionsExact' /\ ChargedInv'
  BY <1>4 DEF IInv, InventoryExact, RedemptionsExact, ChargedInv
<1>. QED
  BY <1>2, <1>3, <1>4, <1>5, <1>6, <1>7, <1>8 DEF IInv

LEMMA TransitionKeeps ==
  ASSUME DayInv, NEW s \in Staff, Transition(s)
  PROVE  DayInv'
<1>1. /\ UNCHANGED <<stock, redeemed, questions, orders, requests, charged, receipts>>
      /\ UNCHANGED <<waitlist, news, outbox, delivered, senders>>
      /\ s \in DOMAIN scans /\ scans' = Drop(scans, s)
  BY DEF Transition, mailVars
<1>2. PICK k, op : k = scans[s].key /\ op = scans[s].op
  OBVIOUS
<1>3. k \in DOMAIN tickets /\ k \in Keys /\ op \in Ops
  BY <1>1, <1>2 DEF DayInv, DoorInv, IInv, SalesTypeOK
<1>4. \A x \in DOMAIN scans' : x \in DOMAIN scans /\ scans'[x] = scans[x]
  BY <1>1 DEF Drop
<1>5. BoxInv' /\ SendersInv' /\ SentWasDelivered'
  BY <1>1 DEF DayInv, BoxInv, SendersInv, SentWasDelivered
<1>6. CASE UNCHANGED <<tickets, audit>>
  <2>1. IInv' /\ OrdersIn("refunded")' = OrdersIn("refunded")
    BY <1>1, <1>6, SaleRests DEF DayInv
  <2>2. MailInv'
    BY <1>1, <1>6, <2>1, MailRests DEF DayInv
  <2>3. DoorInv' /\ TrailInv'
    BY <1>4, <1>6 DEF DayInv, DoorInv, TrailInv
  <2>. QED
    BY <1>5, <2>1, <2>2, <2>3 DEF DayInv
<1>7. CASE /\ tickets[k].status = From(op)
           /\ tickets' = [tickets EXCEPT ![k].status = To(op)]
           /\ audit' = [audit EXCEPT ![k] = Append(@, op)]
  <2>1. To(op) \in {"valid", "checked_in"} /\ From(op) # "cancelled"
    BY DEF To, From
  <2>2. PICK to \in {"valid", "checked_in"} : to = To(op)
    BY <2>1
  <2>3. /\ IInv' /\ OrdersIn("refunded")' = OrdersIn("refunded")
        /\ DOMAIN tickets' = DOMAIN tickets
        /\ tickets'[k].status = to
        /\ \A j \in DOMAIN tickets \ {k} : tickets'[j] = tickets[j]
    <3>1. tickets[k].status # "cancelled" /\ tickets' = [tickets EXCEPT ![k].status = to]
      BY <1>7, <2>1, <2>2
    <3>2. IInv
      BY DEF DayInv
    <3>. QED
      BY <1>1, <1>3, <3>1, <3>2, TicketTurns
  <2>4. MailInv'
    BY <1>1, <2>3, MailRests DEF DayInv
  <2>5. audit[k] \in Seq(Ops) /\ Alternates(audit[k]) /\ Newest(audit[k]) = From(op)
    BY <1>3, <1>7, <2>1 DEF DayInv, DoorInv, TrailInv
  <2>6. PICK entries : entries = Append(audit[k], op)
    OBVIOUS
  <2>7. entries \in Seq(Ops) /\ Alternates(entries) /\ Newest(entries) = to
    BY <1>3, <2>2, <2>5, <2>6, TrailGrows
  <2>8. /\ audit' \in [Keys -> Seq(Ops)]
        /\ audit'[k] = entries
        /\ \A j \in Keys \ {k} : audit'[j] = audit[j]
    BY <1>3, <1>7, <2>6, <2>7 DEF DayInv, DoorInv
  <2>9. DoorInv'
    BY <1>3, <1>4, <2>3, <2>8 DEF DayInv, DoorInv
  <2>10. TrailInv'
    <3>1. \A j \in Keys : Alternates(audit'[j])
      BY <2>7, <2>8 DEF DayInv, TrailInv
    <3>2. \A j \in DOMAIN tickets : j \in Keys
      BY DEF DayInv, IInv, SalesTypeOK
    <3>3. \A j \in DOMAIN tickets' : tickets'[j].status \in {"cancelled", Newest(audit'[j])}
      BY <2>3, <2>7, <2>8, <3>2 DEF DayInv, TrailInv
    <3>. QED
      BY <3>1, <3>3 DEF TrailInv
  <2>. QED
    BY <1>5, <2>3, <2>4, <2>9, <2>10 DEF DayInv
<1>8. (tickets[k].status = From(op) /\ tickets' = [tickets EXCEPT ![k].status = To(op)]
         /\ audit' = [audit EXCEPT ![k] = Append(@, op)])
      \/ UNCHANGED <<tickets, audit>>
  BY <1>2 DEF Transition
<1>. QED
  BY <1>6, <1>7, <1>8
------------------------------------------------------------------------------
(* Mail.                                                                   *)

\* What the door left alone stays explained.
LEMMA DoorRests ==
  ASSUME DoorInv, TrailInv, UNCHANGED <<tickets, scans, audit>>
  PROVE  DoorInv' /\ TrailInv'
BY DEF DoorInv, TrailInv

LEMMA RefundKeeps ==
  ASSUME DayInv, NEW w \in Senders, NEW k \in Keys, RefundOrder(w, k)
  PROVE  DayInv'
<1>1. /\ Refund(k)
      /\ outbox' = Queue({RefundMail(k)})
      /\ SetOut(w, "refund", {RefundMail(k)})
      /\ UNCHANGED <<scans, audit, waitlist, news, delivered>>
  BY DEF RefundOrder, doorVars
<1>2. IInv /\ IInv'
  BY <1>1, RefundIInv DEF DayInv
<1>3. k \in DOMAIN tickets
  BY <1>1, <1>2 DEF Refund, IInv, TicketsFollowOrders, OrdersIn
<1>4. tickets' = [tickets EXCEPT ![k].status = "cancelled"]
  BY <1>1, <1>3 DEF Refund
<1>5. tickets[k] \in Ticket
  BY <1>2, <1>3 DEF IInv, SalesTypeOK
<1>6. /\ DOMAIN tickets' = DOMAIN tickets
      /\ tickets'[k].status = "cancelled"
      /\ \A j \in DOMAIN tickets \ {k} : tickets'[j] = tickets[j]
  BY <1>3, <1>4, <1>5 DEF Ticket
<1>7. PICK ms \in SUBSET Mails : ms = {RefundMail(k)}
  BY MailKinds
<1>8. DOMAIN outbox' = DOMAIN outbox \union ms
  BY <1>1, <1>7, Queued
<1>9. BoxInv' /\ SentWasDelivered'
  BY <1>1, <1>7, QueueKeeps DEF DayInv, BoxInv
<1>10. SendersInv'
  BY <1>1, <1>7, <1>8, SetOutKeeps DEF DayInv
<1>11. MailInv'
  <2>1. OrdersIn("refunded")' = OrdersIn("refunded") \union {k}
    <3>1. {j \in DOMAIN tickets' : tickets'[j].status = "cancelled"}
            = {j \in DOMAIN tickets : tickets[j].status = "cancelled"} \union {k}
      BY <1>3, <1>6
    <3>. QED
      BY <1>2, <3>1, RefundedAreCancelled
  <2>2. MailInv
    BY DEF DayInv
  <2>3. \A j \in Keys : TicketMail(j) \in DOMAIN outbox' <=> j \in DOMAIN tickets'
    BY <1>6, <1>7, <1>8, <2>2, KindsDiffer DEF MailInv
  <2>4. \A j \in Keys : RefundMail(j) \in DOMAIN outbox' <=> j \in OrdersIn("refunded")'
    BY <1>7, <1>8, <2>1, <2>2, KindsDiffer DEF MailInv
  <2>5. \A e \in Emails : /\ WaitlistMail(e) \in DOMAIN outbox' <=> waitlist'[e] = "notified"
                          /\ NewsMail(e) \in DOMAIN outbox' => news' = "sent"
    BY <1>1, <1>7, <1>8, <2>2, KindsDiffer DEF MailInv
  <2>. QED
    BY <2>3, <2>4, <2>5 DEF MailInv, TicketMail, RefundMail, WaitlistMail, NewsMail
<1>12. DoorInv'
  BY <1>1, <1>6 DEF DayInv, DoorInv
<1>13. TrailInv'
  BY <1>1, <1>6 DEF DayInv, TrailInv
<1>. QED
  BY <1>2, <1>9, <1>10, <1>11, <1>12, <1>13 DEF DayInv

LEMMA JoinKeeps ==
  ASSUME DayInv, NEW e \in Emails, JoinWaitlist(e)
  PROVE  DayInv'
<1>1. /\ UNCHANGED <<stock, redeemed, questions, orders, tickets, requests, charged, receipts>>
      /\ UNCHANGED <<scans, audit, news, outbox, delivered, senders>>
      /\ waitlist[e] = "none" /\ waitlist' = [waitlist EXCEPT ![e] = "waiting"]
  BY DEF JoinWaitlist, doorVars
<1>2. IInv' /\ OrdersIn("refunded")' = OrdersIn("refunded")
  BY <1>1, SaleRests DEF DayInv
<1>3. /\ waitlist' \in [Emails -> WaitlistStatus]
      /\ \A x \in Emails : waitlist'[x] = "notified" <=> waitlist[x] = "notified"
  BY <1>1 DEF DayInv, BoxInv, WaitlistStatus
<1>4. MailInv'
  <2>1. MailInv
    BY DEF DayInv
  <2>2. \A k \in Keys : /\ TicketMail(k) \in DOMAIN outbox' <=> k \in DOMAIN tickets'
                        /\ RefundMail(k) \in DOMAIN outbox' <=> k \in OrdersIn("refunded")'
    BY <1>1, <1>2, <2>1 DEF MailInv
  <2>3. \A x \in Emails : /\ WaitlistMail(x) \in DOMAIN outbox' <=> waitlist'[x] = "notified"
                          /\ NewsMail(x) \in DOMAIN outbox' => news' = "sent"
    BY <1>1, <1>3, <2>1 DEF MailInv
  <2>. QED
    BY <2>2, <2>3 DEF MailInv, TicketMail, RefundMail, WaitlistMail, NewsMail
<1>5. BoxInv' /\ SendersInv' /\ SentWasDelivered' /\ DoorInv' /\ TrailInv'
  BY <1>1, <1>3, DoorRests DEF DayInv, BoxInv, SendersInv, SentWasDelivered
<1>. QED
  BY <1>2, <1>4, <1>5 DEF DayInv

LEMMA NotifyKeeps ==
  ASSUME DayInv, NEW w \in Senders, NEW e \in Emails, NotifyWaitlist(w, e)
  PROVE  DayInv'
<1>1. /\ UNCHANGED <<stock, redeemed, questions, orders, tickets, requests, charged, receipts>>
      /\ UNCHANGED <<scans, audit, news, delivered>>
      /\ waitlist' = [waitlist EXCEPT ![e] = "notified"]
      /\ outbox' = Queue({WaitlistMail(e)})
      /\ SetOut(w, "waitlist", {WaitlistMail(e)})
  BY DEF NotifyWaitlist, doorVars
<1>2. IInv' /\ OrdersIn("refunded")' = OrdersIn("refunded")
  BY <1>1, SaleRests DEF DayInv
<1>3. /\ waitlist' \in [Emails -> WaitlistStatus]
      /\ \A x \in Emails : waitlist'[x] = "notified" <=> x = e \/ waitlist[x] = "notified"
  BY <1>1 DEF DayInv, BoxInv, WaitlistStatus
<1>4. PICK ms \in SUBSET Mails : ms = {WaitlistMail(e)}
  BY MailKinds
<1>5. DOMAIN outbox' = DOMAIN outbox \union ms
  BY <1>1, <1>4, Queued
<1>6. BoxInv' /\ SentWasDelivered'
  BY <1>1, <1>3, <1>4, QueueKeeps DEF DayInv, BoxInv
<1>7. SendersInv'
  BY <1>1, <1>4, <1>5, SetOutKeeps DEF DayInv
<1>8. MailInv'
  <2>1. MailInv
    BY DEF DayInv
  <2>2. \A k \in Keys : /\ TicketMail(k) \in DOMAIN outbox' <=> k \in DOMAIN tickets'
                        /\ RefundMail(k) \in DOMAIN outbox' <=> k \in OrdersIn("refunded")'
    BY <1>1, <1>2, <1>4, <1>5, <2>1, KindsDiffer DEF MailInv
  <2>3. \A x \in Emails : WaitlistMail(x) \in DOMAIN outbox' <=> waitlist'[x] = "notified"
    BY <1>3, <1>4, <1>5, <2>1, KindsDiffer DEF MailInv
  <2>4. \A x \in Emails : NewsMail(x) \in DOMAIN outbox' => news' = "sent"
    BY <1>1, <1>4, <1>5, <2>1, KindsDiffer DEF MailInv
  <2>. QED
    BY <2>2, <2>3, <2>4 DEF MailInv, TicketMail, RefundMail, WaitlistMail, NewsMail
<1>9. DoorInv' /\ TrailInv'
  BY <1>1, DoorRests DEF DayInv
<1>. QED
  BY <1>2, <1>6, <1>7, <1>8, <1>9 DEF DayInv

LEMMA DraftKeeps ==
  ASSUME DayInv, SaveDraft
  PROVE  DayInv'
<1>1. /\ UNCHANGED <<stock, redeemed, questions, orders, tickets, requests, charged, receipts>>
      /\ UNCHANGED <<scans, audit, waitlist, outbox, delivered, senders>>
      /\ news # "sent" /\ news' = "draft"
  BY DEF SaveDraft, doorVars
<1>2. IInv' /\ OrdersIn("refunded")' = OrdersIn("refunded")
  BY <1>1, SaleRests DEF DayInv
<1>3. MailInv'
  <2>1. MailInv
    BY DEF DayInv
  <2>2. \A k \in Keys : /\ TicketMail(k) \in DOMAIN outbox' <=> k \in DOMAIN tickets'
                        /\ RefundMail(k) \in DOMAIN outbox' <=> k \in OrdersIn("refunded")'
    BY <1>1, <1>2, <2>1 DEF MailInv
  <2>3. \A e \in Emails : /\ WaitlistMail(e) \in DOMAIN outbox' <=> waitlist'[e] = "notified"
                          /\ NewsMail(e) \in DOMAIN outbox' => news' = "sent"
    BY <1>1, <2>1 DEF MailInv
  <2>. QED
    BY <2>2, <2>3 DEF MailInv, TicketMail, RefundMail, WaitlistMail, NewsMail
<1>4. BoxInv' /\ SendersInv' /\ SentWasDelivered' /\ DoorInv' /\ TrailInv'
  BY <1>1, DoorRests DEF DayInv, BoxInv, SendersInv, SentWasDelivered, NewsStatus
<1>. QED
  BY <1>2, <1>3, <1>4 DEF DayInv

\* A request that takes up messages of the outbox.
LEMMA TakeUpKeeps ==
  ASSUME DayInv, NEW w \in Senders, NEW job \in {"refund", "waitlist", "news", "dashboard"},
         NEW ms \in SUBSET Pending, SetOut(w, job, ms),
         UNCHANGED <<stock, redeemed, questions, orders, tickets, requests, charged, receipts>>,
         UNCHANGED <<scans, audit, waitlist, news, outbox, delivered>>
  PROVE  DayInv'
<1>1. IInv' /\ OrdersIn("refunded")' = OrdersIn("refunded")
  BY SaleRests DEF DayInv
<1>2. MailInv'
  BY <1>1, MailRests DEF DayInv
<1>3. ms \subseteq DOMAIN outbox /\ ms \in SUBSET Mails
  BY DEF DayInv, BoxInv, Pending
<1>4. SendersInv'
  BY <1>3, SetOutKeeps DEF DayInv
<1>5. BoxInv' /\ SentWasDelivered' /\ DoorInv' /\ TrailInv'
  BY DoorRests DEF DayInv, BoxInv, SentWasDelivered
<1>. QED
  BY <1>1, <1>2, <1>4, <1>5 DEF DayInv

LEMMA AnnounceKeeps ==
  ASSUME DayInv, NEW w \in Senders, NEW audience \in Audiences, SendAnnouncement(w, audience)
  PROVE  DayInv'
<1>1. /\ UNCHANGED <<stock, redeemed, questions, orders, tickets, requests, charged, receipts>>
      /\ UNCHANGED <<scans, audit, waitlist, delivered>>
  BY DEF SendAnnouncement, doorVars
<1>2. CASE news # "draft"
  <2>1. PICK ms \in SUBSET Pending : ms = {m \in Pending : m[1] = "news"}
    OBVIOUS
  <2>2. UNCHANGED <<news, outbox>> /\ SetOut(w, "news", ms)
    BY <1>2, <2>1 DEF SendAnnouncement
  <2>. QED
    BY <1>1, <2>2, TakeUpKeeps
<1>3. CASE news = "draft"
  <2>1. PICK ms : ms = {NewsMail(e) : e \in Recipients(audience)}
    OBVIOUS
  <2>2. news' = "sent" /\ outbox' = Queue(ms) /\ SetOut(w, "news", ms)
    BY <1>3, <2>1 DEF SendAnnouncement
  <2>3. Recipients(audience) \subseteq Emails
    BY DEF Recipients, Emails, DayInv, IInv, SalesTypeOK
  <2>4. ms \in SUBSET Mails
    BY <2>1, <2>3, MailKinds
  <2>5. IInv' /\ OrdersIn("refunded")' = OrdersIn("refunded")
    BY <1>1, SaleRests DEF DayInv
  <2>6. DOMAIN outbox' = DOMAIN outbox \union ms
    BY <2>2, Queued
  <2>7. BoxInv' /\ SentWasDelivered'
    BY <1>1, <2>2, <2>4, QueueKeeps DEF DayInv, BoxInv, NewsStatus
  <2>8. SendersInv'
    BY <1>1, <2>2, <2>4, <2>6, SetOutKeeps DEF DayInv
  <2>9. MailInv'
    <3>1. MailInv
      BY DEF DayInv
    <3>2. \A k \in Keys : TicketMail(k) \notin ms /\ RefundMail(k) \notin ms
      BY <2>1, KindsDiffer
    <3>3. \A e \in Emails : WaitlistMail(e) \notin ms
      BY <2>1, KindsDiffer
    <3>4. \A k \in Keys : /\ TicketMail(k) \in DOMAIN outbox' <=> k \in DOMAIN tickets'
                          /\ RefundMail(k) \in DOMAIN outbox' <=> k \in OrdersIn("refunded")'
      BY <1>1, <2>5, <2>6, <3>1, <3>2 DEF MailInv
    <3>5. \A e \in Emails : /\ WaitlistMail(e) \in DOMAIN outbox' <=> waitlist'[e] = "notified"
                            /\ NewsMail(e) \in DOMAIN outbox' => news' = "sent"
      BY <1>1, <2>2, <2>6, <3>1, <3>3 DEF MailInv
    <3>. QED
      BY <3>4, <3>5 DEF MailInv, TicketMail, RefundMail, WaitlistMail, NewsMail
  <2>10. DoorInv' /\ TrailInv'
    BY <1>1, DoorRests DEF DayInv
  <2>. QED
    BY <2>5, <2>7, <2>8, <2>9, <2>10 DEF DayInv
<1>. QED
  BY <1>2, <1>3

LEMMA OpenKeeps ==
  ASSUME DayInv, NEW w \in Senders, NEW e \in Emails, OpenDashboard(w, e)
  PROVE  DayInv'
<1>1. /\ UNCHANGED <<stock, redeemed, questions, orders, tickets, requests, charged, receipts>>
      /\ UNCHANGED <<scans, audit, waitlist, news, outbox, delivered>>
  BY DEF OpenDashboard, doorVars
<1>2. PICK ms \in SUBSET Pending : ms = {m \in Pending : Recipient(m) = e}
  OBVIOUS
<1>3. SetOut(w, "dashboard", ms)
  BY <1>2 DEF OpenDashboard
<1>. QED
  BY <1>1, <1>3, TakeUpKeeps

LEMMA DeliverKeeps ==
  ASSUME DayInv, NEW w \in Senders, Deliver(w)
  PROVE  DayInv'
<1>1. /\ UNCHANGED <<stock, redeemed, questions, orders, tickets, requests, charged, receipts>>
      /\ UNCHANGED <<scans, audit, waitlist, news, outbox>>
      /\ w \in DOMAIN senders
  BY DEF Deliver, doorVars
<1>2. PICK m \in senders[w].todo :
        delivered' = delivered \union {m} /\ senders' = [senders EXCEPT ![w].handed = {m}]
  BY DEF Deliver
<1>3. m \in DOMAIN outbox /\ m \in Mails
  BY <1>1, <1>2 DEF DayInv, SendersInv, BoxInv
<1>4. IInv' /\ OrdersIn("refunded")' = OrdersIn("refunded")
  BY <1>1, SaleRests DEF DayInv
<1>5. MailInv'
  BY <1>1, <1>4, MailRests DEF DayInv
<1>6. BoxInv' /\ SentWasDelivered' /\ DoorInv' /\ TrailInv'
  BY <1>1, <1>2, <1>3, DoorRests DEF DayInv, BoxInv, SentWasDelivered
<1>7. SendersInv'
  <2>1. PICK job \in {"refund", "waitlist", "news", "dashboard"}, todo \in SUBSET Mails,
             handed \in SUBSET Mails :
          senders[w] = [job |-> job, todo |-> todo, handed |-> handed]
    BY <1>1 DEF DayInv, SendersInv
  <2>2. PICK new : new = [job |-> job, todo |-> todo, handed |-> {m}]
    OBVIOUS
  <2>3. /\ new.todo = senders[w].todo /\ new.handed = {m}
        /\ new \in [job : {"refund", "waitlist", "news", "dashboard"},
                    todo : SUBSET Mails, handed : SUBSET Mails]
    BY <1>3, <2>1, <2>2
  <2>4. /\ DOMAIN senders' = DOMAIN senders
        /\ senders'[w] = new
        /\ \A v \in DOMAIN senders \ {w} : senders'[v] = senders[v]
    BY <1>1, <1>2, <2>1, <2>2
  <2>. QED
    BY <1>1, <1>2, <2>3, <2>4 DEF DayInv, SendersInv
<1>. QED
  BY <1>4, <1>5, <1>6, <1>7 DEF DayInv

LEMMA MarkKeeps ==
  ASSUME DayInv, NEW w \in Senders, MarkEmailSent(w)
  PROVE  DayInv'
<1>1. /\ UNCHANGED <<stock, redeemed, questions, orders, tickets, requests, charged, receipts>>
      /\ UNCHANGED <<scans, audit, waitlist, news, delivered>>
      /\ w \in DOMAIN senders
  BY DEF MarkEmailSent, doorVars
<1>2. PICK m \in senders[w].handed :
        /\ outbox' = [outbox EXCEPT ![m] = "sent"]
        /\ \/ senders' = Drop(senders, w)
           \/ senders' = [senders EXCEPT ![w].todo = senders[w].todo \ {m}, ![w].handed = {}]
  BY DEF MarkEmailSent
<1>3. m \in delivered /\ m \in DOMAIN outbox
  BY <1>1, <1>2 DEF DayInv, SendersInv, BoxInv
<1>4. /\ DOMAIN outbox' = DOMAIN outbox
      /\ outbox'[m] = "sent"
      /\ \A x \in DOMAIN outbox \ {m} : outbox'[x] = outbox[x]
  BY <1>2, <1>3
<1>5. IInv' /\ OrdersIn("refunded")' = OrdersIn("refunded")
  BY <1>1, SaleRests DEF DayInv
<1>6. MailInv'
  BY <1>1, <1>4, <1>5, MailRests DEF DayInv
<1>7. BoxInv' /\ SentWasDelivered' /\ DoorInv' /\ TrailInv'
  BY <1>1, <1>3, <1>4, DoorRests DEF DayInv, BoxInv, SentWasDelivered
<1>8. SendersInv'
  <2>1. CASE senders' = Drop(senders, w)
    BY <1>1, <1>4, <2>1, SenderEnds DEF DayInv
  <2>2. CASE senders' = [senders EXCEPT ![w].todo = senders[w].todo \ {m}, ![w].handed = {}]
    <3>1. PICK job \in {"refund", "waitlist", "news", "dashboard"}, todo \in SUBSET Mails,
               handed \in SUBSET Mails :
            senders[w] = [job |-> job, todo |-> todo, handed |-> handed]
      BY <1>1 DEF DayInv, SendersInv
    <3>2. PICK new : new = [job |-> job, todo |-> todo \ {m}, handed |-> {}]
      OBVIOUS
    <3>3. /\ new.todo \subseteq senders[w].todo /\ new.handed = {}
          /\ new \in [job : {"refund", "waitlist", "news", "dashboard"},
                      todo : SUBSET Mails, handed : SUBSET Mails]
      BY <3>1, <3>2
    <3>5. PICK half : half = [senders EXCEPT ![w].todo = senders[w].todo \ {m}]
      OBVIOUS
    <3>6. /\ DOMAIN half = DOMAIN senders
          /\ half[w] = [job |-> job, todo |-> todo \ {m}, handed |-> handed]
          /\ \A v \in DOMAIN senders \ {w} : half[v] = senders[v]
      BY <1>1, <3>1, <3>5
    <3>7. senders' = [half EXCEPT ![w].handed = {}]
      BY <2>2, <3>5
    <3>8. half[w].job = job /\ half[w].todo = todo \ {m}
          /\ [half[w] EXCEPT !.handed = {}] = new
      BY <3>2, <3>6
    <3>9. senders'[w] = [half[w] EXCEPT !.handed = {}]
      BY <1>1, <3>6, <3>7
    <3>10. DOMAIN senders' = DOMAIN senders /\ \A v \in DOMAIN senders \ {w} : senders'[v] = senders[v]
      BY <3>6, <3>7
    <3>11. senders'[w] = new
      BY <3>8, <3>9
    <3>. QED
      BY <1>1, <1>4, <3>3, <3>10, <3>11 DEF DayInv, SendersInv
  <2>. QED
    BY <1>2, <2>1, <2>2
<1>. QED
  BY <1>5, <1>6, <1>7, <1>8 DEF DayInv

LEMMA DropKeeps ==
  ASSUME DayInv, NEW w \in Senders, DropSender(w)
  PROVE  DayInv'
<1>1. /\ UNCHANGED <<stock, redeemed, questions, orders, tickets, requests, charged, receipts>>
      /\ UNCHANGED <<scans, audit, waitlist, news, outbox, delivered>>
      /\ senders' = Drop(senders, w)
  BY DEF DropSender, doorVars
<1>2. IInv' /\ OrdersIn("refunded")' = OrdersIn("refunded")
  BY <1>1, SaleRests DEF DayInv
<1>3. MailInv'
  BY <1>1, <1>2, MailRests DEF DayInv
<1>4. SendersInv'
  BY <1>1, SenderEnds DEF DayInv
<1>5. BoxInv' /\ SentWasDelivered' /\ DoorInv' /\ TrailInv'
  BY <1>1, DoorRests DEF DayInv, BoxInv, SentWasDelivered
<1>. QED
  BY <1>2, <1>3, <1>4, <1>5 DEF DayInv

------------------------------------------------------------------------------
(* The day.                                                                *)

LEMMA DayBegins == DayInit => DayInv
<1>. SUFFICES ASSUME DayInit PROVE DayInv
  OBVIOUS
<1>1. IInv /\ DOMAIN tickets = {} /\ DOMAIN orders = {}
  BY InitIInv DEF DayInit, SalesInit
<1>2. DOMAIN scans = {} /\ DOMAIN outbox = {} /\ DOMAIN senders = {} /\ delivered = {}
  BY DEF DayInit
<1>3. audit \in [Keys -> Seq(Ops)] /\ \A k \in Keys : audit[k] = << >>
  BY DEF DayInit
<1>4. DoorInv
  BY <1>1, <1>2, <1>3 DEF DoorInv
<1>5. TrailInv
  BY <1>1, <1>3, EmptyTrail DEF TrailInv
<1>6. BoxInv /\ SendersInv /\ SentWasDelivered
  BY <1>2 DEF DayInit, BoxInv, SendersInv, SentWasDelivered, WaitlistStatus, NewsStatus
<1>7. MailInv
  <2>1. OrdersIn("refunded") = {}
    BY <1>1 DEF OrdersIn
  <2>. QED
    BY <1>1, <1>2, <2>1 DEF DayInit, MailInv
<1>. QED
  BY <1>1, <1>4, <1>5, <1>6, <1>7 DEF DayInv

LEMMA DayContinues == DayInv /\ [DayNext]_dayVars => DayInv'
<1>. SUFFICES ASSUME DayInv, [DayNext]_dayVars PROVE DayInv'
  OBVIOUS
<1>1. CASE Sell
  BY <1>1, SellKeeps
<1>2. CASE Door
  BY <1>2, ScanKeeps, TransitionKeeps DEF Door, Ops
<1>3. CASE Refunds
  BY <1>3, RefundKeeps DEF Refunds
<1>4. CASE Waiting
  BY <1>4, JoinKeeps, NotifyKeeps DEF Waiting
<1>5. CASE Announcements
  BY <1>5, DraftKeeps, AnnounceKeeps DEF Announcements
<1>6. CASE Visits
  BY <1>6, OpenKeeps DEF Visits
<1>7. CASE Delivery
  BY <1>7, DeliverKeeps, MarkKeeps, DropKeeps DEF Delivery
<1>8. CASE UNCHANGED dayVars
  <2>1. /\ UNCHANGED <<stock, redeemed, questions, orders, tickets, requests, charged, receipts>>
        /\ UNCHANGED <<scans, audit, waitlist, news, outbox, delivered, senders>>
    BY <1>8 DEF dayVars, salesVars, doorVars, mailVars
  <2>2. IInv' /\ OrdersIn("refunded")' = OrdersIn("refunded")
    BY <2>1, SaleRests DEF DayInv
  <2>3. MailInv'
    BY <2>1, <2>2, MailRests DEF DayInv
  <2>. QED
    BY <2>1, <2>2, <2>3, DoorRests DEF DayInv, BoxInv, SendersInv, SentWasDelivered
<1>. QED
  BY <1>1, <1>2, <1>3, <1>4, <1>5, <1>6, <1>7, <1>8 DEF DayNext

LEMMA DayInductive == DaySpec => []DayInv
BY DayBegins, DayContinues, PTL DEF DaySpec

\* Check-ins and undos alternate in every ticket's trail, which explains its
\* status, however many staff act on one ticket and whatever is refunded.
THEOREM AuditHolds == DaySpec => []AuditExplainsStatus
BY DayInductive, TrailExplains, PTL DEF DayInv

\* No message is marked sent that was not handed to the gateway.
THEOREM SentMailWasDelivered == DaySpec => []SentWasDelivered
BY DayInductive, PTL DEF DayInv

\* Tickets, refunds, notified entries and a sent announcement have their
\* messages, and no other record has.
THEOREM MailFollows == DaySpec => []MailFollowsRecords
BY DayInductive, MailsFollow, PTL DEF DayInv

\* The sale stays exact while staff, managers and mail act on its rows.
THEOREM SaleStaysExact ==
  DaySpec => [](InventoryExact /\ RedemptionsExact /\ TicketsFollowOrders /\ ReceiptsAgree)
BY DayInductive, PTL DEF DayInv, IInv
------------------------------------------------------------------------------
(* The figures of the pages.                                               *)

LEMMA Monotone ==
  ASSUME NEW a \in Nat, NEW b \in Nat, NEW c \in Nat, b <= c
  PROVE  a * b <= a * c
OBVIOUS

\* A part is never more than all of it.
LEMMA PercentageBound ==
  ASSUME NEW value \in Nat, NEW total \in Nat, value <= total
  PROVE  percentage(value, total) <= 100
<1>1. CASE total = 0
  BY <1>1 DEF percentage
<1>2. CASE total > 0
  <2>1. PICK n \in Nat, m \in Nat \ {0} : n = 200 * value + total /\ m = 2 * total
    BY <1>2
  <2>2. m * (n \div m) <= n /\ n \div m \in Nat
    BY <2>1
  <2>3. PICK q \in Nat : q = n \div m
    BY <2>2
  <2>4. m * q <= n
    BY <2>2, <2>3
  <2>5. n < 101 * m
    BY <1>2, <2>1
  <2>6. SUFFICES ASSUME q >= 101 PROVE FALSE
    BY <1>2, <2>1, <2>3 DEF percentage
  <2>7. m * 101 <= m * q
    BY <2>1, <2>3, <2>6, Monotone
  <2>8. m * q \in Nat
    BY <2>1, <2>3
  <2>. QED
    BY <2>1, <2>4, <2>5, <2>7, <2>8
<1>. QED
  BY <1>1, <1>2

LEMMA CountBoth ==
  ASSUME NEW S, NEW T, IsFiniteSet(S), IsFiniteSet(T), S \cap T = {}
  PROVE  /\ Cardinality(S \union T) = Cardinality(S) + Cardinality(T)
         /\ Cardinality(S) \in Nat /\ Cardinality(T) \in Nat
         /\ IsFiniteSet(S \union T)
<1>1. Cardinality(S \union T) = Cardinality(S) + Cardinality(T) - Cardinality(S \cap T)
  BY FS_Union
<1>2. Cardinality(S \cap T) = 0
  BY FS_EmptySet
<1>3. Cardinality(S) \in Nat /\ Cardinality(T) \in Nat
  BY FS_CardinalityType
<1>4. IsFiniteSet(S \union T)
  BY FS_Union
<1>. QED
  BY <1>1, <1>2, <1>3, <1>4

\* The tickets by status, beside the orders by status.
LEMMA TicketSets ==
  ASSUME DayInv
  PROVE  /\ DOMAIN tickets \subseteq Keys
         /\ \A k \in DOMAIN tickets : tickets[k].status \in TicketStatus /\ k \in DOMAIN orders
         /\ TicketsIn({"valid", "checked_in"}) = OrdersIn("paid")
         /\ TicketsIn({"valid", "checked_in"})
              = TicketsIn({"valid"}) \union TicketsIn({"checked_in"})
         /\ TicketsIn({"valid"}) \cap TicketsIn({"checked_in"}) = {}
         /\ DOMAIN tickets = OrdersIn("paid") \union OrdersIn("refunded")
         /\ OrdersIn("paid") \cap OrdersIn("refunded") = {}
<1>1. /\ DOMAIN tickets \subseteq Keys
      /\ \A k \in DOMAIN tickets : tickets[k].status \in TicketStatus
  BY DEF DayInv, IInv, SalesTypeOK, Ticket
<1>2. /\ DOMAIN tickets = OrdersIn("paid") \union OrdersIn("refunded")
      /\ \A k \in DOMAIN tickets :
           (tickets[k].status = "cancelled") <=> (orders[k].status = "refunded")
  BY DEF DayInv, IInv, TicketsFollowOrders
<1>3. \A k \in DOMAIN tickets : k \in DOMAIN orders
  BY <1>2 DEF OrdersIn
<1>4. OrdersIn("paid") \cap OrdersIn("refunded") = {}
  BY DEF OrdersIn
<1>5. TicketsIn({"valid", "checked_in"}) = OrdersIn("paid")
  <2>1. \A k \in DOMAIN tickets :
          tickets[k].status \in {"valid", "checked_in"} <=> tickets[k].status # "cancelled"
    BY <1>1 DEF TicketStatus
  <2>2. \A k \in DOMAIN tickets : orders[k].status # "refunded" <=> k \in OrdersIn("paid")
    BY <1>2, <1>4 DEF OrdersIn
  <2>3. \A k \in OrdersIn("paid") : k \in DOMAIN tickets
    BY <1>2
  <2>. QED
    BY <1>2, <2>1, <2>2, <2>3 DEF TicketsIn
<1>6. /\ TicketsIn({"valid", "checked_in"}) = TicketsIn({"valid"}) \union TicketsIn({"checked_in"})
      /\ TicketsIn({"valid"}) \cap TicketsIn({"checked_in"}) = {}
  BY DEF TicketsIn
<1>. QED
  BY <1>1, <1>2, <1>3, <1>4, <1>5, <1>6

LEMMA KeysFinite == \A S \in SUBSET Keys : IsFiniteSet(S) /\ Cardinality(S) \in Nat
BY SalesAssumption, FS_Subset, FS_CardinalityType

LEMMA FiguresHold == DayInv => FiguresAgree
<1>. SUFFICES ASSUME DayInv PROVE FiguresAgree
  OBVIOUS
<1>1. /\ DOMAIN tickets \subseteq Keys
      /\ TicketsIn({"valid", "checked_in"}) = OrdersIn("paid")
      /\ TicketsIn({"valid", "checked_in"}) = TicketsIn({"valid"}) \union TicketsIn({"checked_in"})
      /\ TicketsIn({"valid"}) \cap TicketsIn({"checked_in"}) = {}
      /\ DOMAIN tickets = OrdersIn("paid") \union OrdersIn("refunded")
      /\ OrdersIn("paid") \cap OrdersIn("refunded") = {}
  BY TicketSets
<1>2. /\ OrdersIn("paid") \in SUBSET Keys /\ OrdersIn("refunded") \in SUBSET Keys
      /\ OrdersIn("pending") \in SUBSET Keys
      /\ TicketsIn({"valid"}) \in SUBSET Keys /\ TicketsIn({"checked_in"}) \in SUBSET Keys
  BY <1>1 DEF OrdersIn, TicketsIn, DayInv, IInv, SalesTypeOK
<1>3. PICK paid \in Nat, refunded \in Nat, pending \in Nat, valid \in Nat, inside \in Nat :
        /\ paid = Cardinality(OrdersIn("paid"))
        /\ refunded = Cardinality(OrdersIn("refunded"))
        /\ pending = Cardinality(OrdersIn("pending"))
        /\ valid = Cardinality(TicketsIn({"valid"}))
        /\ inside = Cardinality(TicketsIn({"checked_in"}))
  BY <1>2, KeysFinite
<1>4. Cardinality(DOMAIN tickets) = paid + refunded
  BY <1>1, <1>2, <1>3, KeysFinite, CountBoth
<1>5. paid = valid + inside
  BY <1>1, <1>2, <1>3, KeysFinite, CountBoth
<1>6. PICK total \in Nat, reserved \in Nat, sold \in Nat :
        /\ stock.total = total /\ stock.reserved = reserved /\ stock.sold = sold
        /\ reserved = Held + pending /\ sold = paid /\ reserved + sold <= total
  <2>1. stock.total \in Nat /\ stock.reserved \in Nat /\ stock.sold \in Nat
    BY DEF DayInv, IInv, SalesTypeOK, Stock
  <2>2. /\ stock.reserved = Held + pending /\ stock.sold = paid
        /\ stock.reserved + stock.sold <= stock.total
    BY <1>3 DEF DayInv, IInv, InventoryExact
  <2>. QED
    BY <2>1, <2>2
<1>7. /\ Summary.capacity = total /\ Summary.reserved = reserved /\ Summary.sold = sold
      /\ Summary.issued = paid /\ Summary.checkedIn = inside
  BY <1>1, <1>3, <1>6 DEF Summary
<1>8. /\ Report.payments["paid"] = paid /\ Report.payments["pending"] = pending
      /\ Report.payments["refunded"] = refunded
  BY <1>3 DEF Report, OrderStatus
<1>9. Console.issued = paid + refunded /\ Console.checkedIn = inside
  BY <1>3, <1>4 DEF Console
<1>10. ConsoleRemaining = valid + refunded
  BY <1>3, <1>5, <1>9 DEF ConsoleRemaining
<1>11. TicketsIn({"checked_in"}) \subseteq Console.activity
  <2>1. ASSUME NEW k \in TicketsIn({"checked_in"}) PROVE k \in Keys /\ audit[k] # << >>
    <3>1. k \in Keys /\ k \in DOMAIN tickets /\ tickets[k].status = "checked_in"
      BY <1>1 DEF TicketsIn
    <3>2. Newest(audit[k]) = "checked_in"
      BY <3>1 DEF DayInv, TrailInv
    <3>. QED
      BY <3>1, <3>2, EmptyTrail
  <2>. QED
    BY <2>1 DEF Console
<1>12. RevenueShown <=> TicketsIn({"valid", "checked_in"}) # {}
  <2>1. paid = 0 <=> OrdersIn("paid") = {}
    BY <1>2, <1>3, KeysFinite, FS_EmptySet
  <2>. QED
    BY <1>1, <1>3, <1>8, <2>1 DEF RevenueShown
<1>13. Remaining = total - sold - reserved /\ Remaining >= 0
  BY <1>6, <1>7 DEF Remaining
<1>14. stock.onSale => Offered = Remaining
  BY <1>6, <1>13 DEF Offered, Available
<1>15. ReportPage.inventory <= 100 /\ ReportPage.attendance <= 100
  <2>1. percentage(sold, total) <= 100
    BY <1>6, PercentageBound
  <2>2. percentage(inside, paid) <= 100
    BY <1>5, PercentageBound
  <2>. QED
    BY <1>7, <2>1, <2>2 DEF ReportPage
<1>. QED
  BY <1>3, <1>6, <1>7, <1>8, <1>9, <1>10, <1>11, <1>12, <1>13, <1>14, <1>15 DEF FiguresAgree
------------------------------------------------------------------------------
(* What attendees and staff see of a ticket.                               *)

LEMMA TicketsShown == DayInv => TicketsAgree
<1>. SUFFICES ASSUME DayInv PROVE TicketsAgree
  OBVIOUS
<1>1. /\ DOMAIN tickets \subseteq Keys
      /\ \A k \in DOMAIN tickets : tickets[k].status \in TicketStatus /\ k \in DOMAIN orders
      /\ TicketsIn({"valid", "checked_in"}) = OrdersIn("paid")
      /\ DOMAIN tickets = OrdersIn("paid") \union OrdersIn("refunded")
      /\ OrdersIn("paid") \cap OrdersIn("refunded") = {}
  BY TicketSets
<1>2. \A k \in DOMAIN tickets :
        orders[k].status = "paid" <=> tickets[k].status # "cancelled"
  <2>1. \A k \in DOMAIN tickets : (tickets[k].status = "cancelled") <=> (orders[k].status = "refunded")
    BY DEF DayInv, IInv, TicketsFollowOrders
  <2>2. \A k \in DOMAIN tickets : orders[k].status = "paid" <=> orders[k].status # "refunded"
    BY <1>1 DEF OrdersIn
  <2>. QED
    BY <2>1, <2>2
<1>3. \A e, k : k \in FindTicket(e) <=>
                 k \in DOMAIN tickets /\ EmailOf[k] = e /\ tickets[k].status # "cancelled"
  BY <1>2 DEF FindTicket
<1>4. \A e : Hub(e).tickets = FindTicket(e)
  BY DEF Hub, FindTicket
<1>5. UNION {Hub(e).tickets : e \in Emails} = TicketsIn({"valid", "checked_in"})
  <2>1. \A k \in DOMAIN tickets :
          tickets[k].status \in {"valid", "checked_in"} <=> tickets[k].status # "cancelled"
    BY <1>1 DEF TicketStatus
  <2>2. \A k \in DOMAIN tickets : EmailOf[k] \in Emails
    BY <1>1 DEF Emails
  <2>3. ASSUME NEW k, k \in TicketsIn({"valid", "checked_in"})
        PROVE  k \in UNION {Hub(e).tickets : e \in Emails}
    <3>1. k \in DOMAIN tickets /\ tickets[k].status # "cancelled"
      BY <2>1, <2>3 DEF TicketsIn
    <3>2. k \in Hub(EmailOf[k]).tickets /\ EmailOf[k] \in Emails
      BY <1>3, <1>4, <2>2, <3>1
    <3>. QED
      BY <3>2
  <2>4. ASSUME NEW e \in Emails, NEW k \in Hub(e).tickets
        PROVE  k \in TicketsIn({"valid", "checked_in"})
    BY <1>3, <1>4, <2>1 DEF TicketsIn
  <2>. QED
    BY <2>3, <2>4
<1>6. \A k \in DOMAIN orders :
        OrderRows[k].ticket = "none" <=> OrderRows[k].status \in {"pending", "failed"}
  <2>. SUFFICES ASSUME NEW k \in DOMAIN orders
                PROVE  OrderRows[k].ticket = "none" <=> OrderRows[k].status \in {"pending", "failed"}
    OBVIOUS
  <2>1. /\ OrderRows[k].status = orders[k].status
        /\ OrderRows[k].ticket = IF k \in DOMAIN tickets THEN tickets[k].status ELSE "none"
    BY DEF OrderRows
  <2>2. OrderRows[k].ticket = "none" <=> k \notin DOMAIN tickets
    BY <1>1, <2>1 DEF TicketStatus
  <2>3. orders[k].status \in OrderStatus
    BY DEF DayInv, IInv, SalesTypeOK, Order
  <2>4. k \in DOMAIN tickets <=> orders[k].status \in {"paid", "refunded"}
    BY <1>1 DEF OrdersIn
  <2>. QED
    BY <2>1, <2>2, <2>3, <2>4 DEF OrderStatus
<1>7. \A k \in Keys :
        TicketPage(EmailOf[k], k) = IF Preview(k) = "cancelled" THEN "notFound" ELSE Preview(k)
  <2>. SUFFICES ASSUME NEW k \in Keys
                PROVE  TicketPage(EmailOf[k], k) =
                         IF Preview(k) = "cancelled" THEN "notFound" ELSE Preview(k)
    OBVIOUS
  <2>1. Preview(k) = IF k \in DOMAIN tickets THEN tickets[k].status ELSE "notFound"
    BY DEF Preview, Credential
  <2>. QED
    BY <1>3, <2>1 DEF TicketPage
<1>8. ASSUME NEW e \in Emails
      PROVE  DashboardPage(e) = [k \in {j \in Keys : TicketPage(e, j) # "notFound"} |->
                                   TicketPage(e, k)]
  <2>1. \A j \in Keys : TicketPage(e, j) # "notFound" <=> j \in FindTicket(e)
    BY <1>1, <1>3 DEF TicketPage, TicketStatus
  <2>2. {j \in Keys : TicketPage(e, j) # "notFound"} = FindTicket(e)
    BY <1>1, <1>3, <2>1
  <2>3. \A k \in FindTicket(e) : TicketPage(e, k) = tickets[k].status
    BY DEF TicketPage
  <2>4. [k \in FindTicket(e) |-> TicketPage(e, k)] = [k \in FindTicket(e) |-> tickets[k].status]
    BY <2>3
  <2>5. CASE HasSession(e)
    BY <1>4, <2>2, <2>4, <2>5 DEF DashboardPage
  <2>6. CASE ~HasSession(e)
    <3>1. FindTicket(e) = {}
      BY <1>3, <2>6 DEF HasSession
    <3>2. 1..0 = {}
      OBVIOUS
    <3>3. << >> = [k \in {} |-> tickets[k].status]
      BY <3>2
    <3>4. DashboardPage(e) = << >>
      BY <2>6 DEF DashboardPage
    <3>. QED
      BY <2>2, <2>4, <3>1, <3>3, <3>4
  <2>. QED
    BY <2>5, <2>6
<1>. QED
  BY <1>5, <1>6, <1>7, <1>8 DEF TicketsAgree

------------------------------------------------------------------------------
(* What the pages offer.                                                   *)

\* Buyers and messages are finitely many, like the checkouts.
LEMMA MailsFinite == IsFiniteSet(Mails)
<1>1. IsFiniteSet(Emails)
  <2>1. [k \in Keys |-> EmailOf[k]] \in Surjection(Keys, Emails)
    BY DEF Surjection, Emails
  <2>2. PICK f : f \in Surjection(Keys, Emails)
    BY <2>1
  <2>. QED
    BY <2>2, SalesAssumption, FS_Surjection
<1>2. IsFiniteSet({"ticket", "refund"}) /\ IsFiniteSet({"waitlist", "news"})
  <2>2. IsFiniteSet({"ticket"}) /\ IsFiniteSet({"waitlist"})
    BY FS_Singleton
  <2>3. {"ticket", "refund"} = {"ticket"} \union {"refund"} /\ {"waitlist", "news"} = {"waitlist"} \union {"news"}
    OBVIOUS
  <2>. QED
    BY <2>2, <2>3, FS_AddElement
<1>3. IsFiniteSet({"ticket", "refund"} \X Keys) /\ IsFiniteSet({"waitlist", "news"} \X Emails)
  BY <1>1, <1>2, SalesAssumption, FS_Product
<1>. QED
  BY <1>3, FS_Union DEF Mails

\* Every message of an announcement is delivered or waiting.
LEMMA AnnouncementCounts ==
  ASSUME DayInv
  PROVE  /\ Announcement.recipients = Announcement.delivered + Announcement.waiting
         /\ ~(Announcement.waiting > 0) =>
              \A m \in DOMAIN outbox : m[1] = "news" => outbox[m] = "sent"
<1>1. PICK mails : mails = {m \in DOMAIN outbox : m[1] = "news"}
  OBVIOUS
<1>2. PICK sent, waits : sent = {m \in mails : outbox[m] = "sent"} /\ waits = {m \in mails : outbox[m] = "pending"}
  OBVIOUS
<1>3. /\ Announcement.recipients = Cardinality(mails)
      /\ Announcement.delivered = Cardinality(sent)
      /\ Announcement.waiting = Cardinality(waits)
  BY <1>1, <1>2 DEF Announcement
<1>4. \A m \in DOMAIN outbox : outbox[m] \in {"pending", "sent"} /\ m \in Mails
  BY DEF DayInv, BoxInv
<1>5. mails = sent \union waits /\ sent \cap waits = {}
  BY <1>1, <1>2, <1>4
<1>6. IsFiniteSet(sent) /\ IsFiniteSet(waits)
  <2>1. sent \subseteq Mails /\ waits \subseteq Mails
    BY <1>1, <1>2, <1>4
  <2>. QED
    BY <2>1, MailsFinite, FS_Subset
<1>7. Cardinality(mails) = Cardinality(sent) + Cardinality(waits) /\ Cardinality(waits) \in Nat
  BY <1>5, <1>6, CountBoth
<1>8. Cardinality(waits) = 0 => waits = {}
  BY <1>6, FS_EmptySet
<1>9. ~(Announcement.waiting > 0) => waits = {}
  BY <1>3, <1>7, <1>8
<1>10. waits = {} => \A m \in DOMAIN outbox : m[1] = "news" => outbox[m] = "sent"
  BY <1>1, <1>2, <1>4
<1>. QED
  BY <1>3, <1>7, <1>9, <1>10

LEMMA Choices ==
  /\ RegistrationPage.choose <=> stock.onSale /\ Offered > 0
  /\ RegistrationPage.wait <=> stock.onSale /\ Offered = 0
BY Zenon DEF RegistrationPage

LEMMA OffersAccepted == DayInv => OffersHold
<1>. SUFFICES ASSUME DayInv PROVE OffersHold
  OBVIOUS
<1>1. /\ DOMAIN tickets \subseteq Keys
      /\ \A k \in DOMAIN tickets : tickets[k].status \in TicketStatus /\ k \in DOMAIN orders
      /\ TicketsIn({"valid", "checked_in"}) = OrdersIn("paid")
  BY TicketSets
<1>2. Refundable = TicketsIn({"valid", "checked_in"})
  <2>1. DOMAIN OrderRows = DOMAIN orders /\ \A k \in DOMAIN orders : OrderRows[k].status = orders[k].status
    BY DEF OrderRows
  <2>2. Refundable = OrdersIn("paid")
    BY <2>1 DEF Refundable, OrdersIn
  <2>. QED
    BY <1>1, <2>2
<1>3. /\ DOMAIN WaitlistRows = {e \in Emails : waitlist[e] # "none"}
      /\ \A e \in DOMAIN WaitlistRows : WaitlistRows[e] = waitlist[e]
  BY DEF WaitlistRows
<1>4. \A e \in Emails : /\ waitlist[e] \in WaitlistStatus
                        /\ WaitlistMail(e) \in DOMAIN outbox <=> waitlist[e] = "notified"
  BY DEF DayInv, BoxInv, MailInv
<1>5. Notifiable = {e \in DOMAIN WaitlistRows : WaitlistMail(e) \notin DOMAIN outbox}
  <2>1. \A e \in DOMAIN WaitlistRows :
          WaitlistRows[e] = "waiting" <=> WaitlistMail(e) \notin DOMAIN outbox
    BY <1>3, <1>4 DEF WaitlistStatus
  <2>. QED
    BY <2>1 DEF Notifiable
<1>6. {m[2] : m \in {n \in DOMAIN outbox : n[1] = "waitlist"}} =
        {e \in DOMAIN WaitlistRows : WaitlistRows[e] = "notified"}
  <2>1. \A m \in DOMAIN outbox : m[1] = "waitlist" => m[2] \in Emails /\ m = WaitlistMail(m[2])
    <3>1. \A m \in Mails : m[1] = "waitlist" => \E e \in Emails : m = WaitlistMail(e)
      BY MailKinds DEF TicketMail, RefundMail, NewsMail
    <3>2. \A e : WaitlistMail(e)[2] = e
      BY DEF WaitlistMail
    <3>. QED
      BY <3>1, <3>2 DEF DayInv, BoxInv
  <2>2. ASSUME NEW m \in DOMAIN outbox, m[1] = "waitlist"
        PROVE  m[2] \in {e \in DOMAIN WaitlistRows : WaitlistRows[e] = "notified"}
    BY <1>3, <1>4, <2>1, <2>2
  <2>3. ASSUME NEW e \in DOMAIN WaitlistRows, WaitlistRows[e] = "notified"
        PROVE  \E m \in DOMAIN outbox : m[1] = "waitlist" /\ e = m[2]
    <3>1. WaitlistMail(e) \in DOMAIN outbox
      BY <1>3, <1>4, <2>3
    <3>2. WaitlistMail(e)[1] = "waitlist" /\ WaitlistMail(e)[2] = e
      BY DEF WaitlistMail
    <3>. QED
      BY <3>1, <3>2
  <2>. QED
    BY <2>2, <2>3
<1>7. ASSUME NEW a \in Audiences PROVE Shown(a) = Recipients(a)
  <2>1. Addressed(a) \subseteq {"valid", "checked_in"}
    BY DEF Addressed, Audiences
  <2>2. \A j \in DOMAIN tickets : tickets[j].status \in Addressed(a) => orders[j].status = "paid"
    BY <1>1, <2>1 DEF TicketsIn, OrdersIn
  <2>. QED
    BY <2>2 DEF Shown, Recipients
<1>8. Announcement.recipients = Announcement.delivered + Announcement.waiting
  BY AnnouncementCounts
<1>9. news = "sent" /\ ~Sendable => \A m \in DOMAIN outbox : m[1] = "news" => m \in delivered
  BY AnnouncementCounts DEF Sendable, DayInv, SentWasDelivered
<1>10. PICK total \in Nat, reserved \in Nat, sold \in Nat :
         /\ stock.total = total /\ stock.reserved = reserved /\ stock.sold = sold
         /\ reserved + sold <= total
  BY DEF DayInv, IInv, SalesTypeOK, Stock, InventoryExact
<1>11. stock.onSale => Offered = total - (reserved + sold)
  BY <1>10 DEF Offered, Available
<1>12. stock.onSale => (RegistrationPage.choose <=> ~RegistrationPage.wait)
  BY <1>10, <1>11, Choices
<1>13. ASSUME RegistrationPage.choose, NEW f \in FilledForms, f.coupon => Redeemable
       PROVE  Admitted(f)
  <2>1. stock.onSale /\ stock.reserved + stock.sold < stock.total
    BY <1>10, <1>11, <1>13, Choices
  <2>2. \A q \in Questions :
          IF q \notin Asked THEN f.answers[q] = "absent"
          ELSE f.answers[q] \in IF q \in Required THEN {"good"} ELSE {"good", "blank"}
    BY <1>13 DEF FilledForms
  <2>3. Asked \subseteq Questions
    BY DEF Asked
  <2>4. ~AnswersInvalid(f)
    BY <2>2, <2>3 DEF AnswersInvalid
  <2>. QED
    BY <1>13, <2>1, <2>4 DEF Admitted
<1>. QED
  BY <1>2, <1>5, <1>6, <1>7, <1>8, <1>9, <1>12, <1>13 DEF OffersHold

\* The pages of an event agree with each other, and what they offer is accepted
\* as long as nothing comes between, for every number of tickets, addresses and
\* messages and every capacity.
THEOREM PagesAgree == DaySpec => []ViewsAgree
<1>1. DayInv => ViewsAgree
  BY FiguresHold, TicketsShown, OffersAccepted DEF ViewsAgree
<1>. QED
  BY <1>1, DayInductive, PTL

------------------------------------------------------------------------------
(* The plan.                                                               *)

\* A request is a phase and a command.
RequestShape ==
  /\ DOMAIN request = Writers
  /\ \A w \in Writers :
       request[w] = [phase |-> request[w].phase, command |-> request[w].command]

\* What the check of a command established and no other request undoes.
StillHolds(c) ==
  /\ c.do # "CreateEvent" => Known
  /\ c.do \in {"CreateEvent", "UpdateEvent"} => c.dates \in Slots /\ c.capacity \in Capacities
  /\ c.do = "TransitionEvent" => c.to \in Transitions(c.from)
  /\ c.do = "SaveTicketType" => c.type \in TicketTypes \union {New} /\ c.total \in Capacities
  /\ c.do = "SaveRoom" =>
       /\ c.room \in KnownRooms \union {New}
       /\ c.name \in Names
       /\ c.capacity \in Capacities
  /\ c.do = "SaveSpeaker" => c.speaker \in Speakers \union {New}
  /\ c.do = "SaveSession" =>
       /\ c.session \in Scheduled \union {New}
       /\ c.room \in KnownRooms
       /\ c.speaker \in speakers
       /\ c.slot \in Slots
       /\ c.capacity \in Capacities
  /\ c.do = "SetSessionStatus" => c.session \in Scheduled /\ c.status \in SessionStatus

CheckedInv == \A w \in Writers : request[w].phase = "checked" => StillHolds(request[w].command)

\* The texts of two sessions are compared, which is more than their instants.
NoClash ==
  \A s, t \in Booked(New) :
    s # t /\ Overlap(sessions[s].time, sessions[t].time) =>
      /\ sessions[s].room # sessions[t].room
      /\ sessions[s].speaker # sessions[t].speaker

\* Rooms and speakers stay, so those of a session exist.
Housed ==
  \A s \in Scheduled : sessions[s].room \in KnownRooms /\ sessions[s].speaker \in speakers

\* An event that is not created has no programme.
NothingPlanned == ~Known => Scheduled = {}

\* The seats of all ticket types fit in the event, which offers none before it
\* is created.
SeatsInside ==
  /\ Allocated(TicketTypes) <= event.capacity
  /\ ~Known => \A t \in TicketTypes : allocation[t] = 0

PlanInv ==
  /\ PlanningTypeOK
  /\ RequestShape
  /\ CheckedInv
  /\ NoClash
  /\ Housed
  /\ SessionsInside
  /\ NothingPlanned
  /\ SeatsInside

------------------------------------------------------------------------------
(* Texts and instants.                                                     *)

\* Texts keep the order of the instants they spell.
LEMMA TextOrder ==
  ASSUME NEW a \in Nat, NEW b \in Nat, Instant(a) < Instant(b)
  PROVE  a < b
BY DEF Instant

\* What a form holds is the instants of its slot.
LEMMA WrittenSlot ==
  ASSUME NEW slot \in Slots
  PROVE  /\ Written(slot) \in Texts
         /\ Written(slot) \in Nat \X Nat
         /\ Instant(Written(slot)[1]) = slot[1]
         /\ Instant(Written(slot)[2]) = slot[2]
<1>1. slot \in Nat \X Nat
  BY PlanningAssumption
<1>2. PICK a \in Nat, b \in Nat : slot = <<a, b>>
  BY <1>1
<1>3. Written(slot) = <<2 * a, 2 * b>>
  BY <1>2 DEF Written
<1>4. (2 * a) \div 2 = a /\ (2 * b) \div 2 = b
  OBVIOUS
<1>. QED
  BY <1>2, <1>3, <1>4 DEF Texts, Instant

\* So are the texts the migrations insert.
LEMMA SeededSlot ==
  ASSUME NEW slot \in Slots
  PROVE  /\ Seeded(slot) \in Texts
         /\ Seeded(slot) \in Nat \X Nat
         /\ Instant(Seeded(slot)[1]) = slot[1]
         /\ Instant(Seeded(slot)[2]) = slot[2]
<1>1. slot \in Nat \X Nat
  BY PlanningAssumption
<1>2. PICK a \in Nat, b \in Nat : slot = <<a, b>>
  BY <1>1
<1>3. Seeded(slot) = <<2 * a + 1, 2 * b + 1>>
  BY <1>2 DEF Seeded
<1>4. (2 * a + 1) \div 2 = a /\ (2 * b + 1) \div 2 = b
  OBVIOUS
<1>. QED
  BY <1>2, <1>3, <1>4 DEF Texts, Instant

LEMMA TextsAreNumbers == Texts \subseteq Nat \X Nat
BY WrittenSlot, SeededSlot DEF Texts

\* No session is booked twice if no texts overlap.
LEMMA NoClashSuffices ==
  ASSUME PlanningTypeOK, NoClash
  PROVE  NobodyTwice
<1>1. SUFFICES ASSUME NEW s \in Booked(New), NEW t \in Booked(New), s # t, SameTime(s, t)
               PROVE  /\ sessions[s].room # sessions[t].room
                      /\ sessions[s].speaker # sessions[t].speaker
  BY DEF NobodyTwice
<1>2. s \in Sessions /\ t \in Sessions /\ sessions[s] # NoSession /\ sessions[t] # NoSession
  BY DEF Booked, Scheduled
<1>3. sessions[s].time \in Nat \X Nat /\ sessions[t].time \in Nat \X Nat
  BY <1>2, TextsAreNumbers DEF PlanningTypeOK
<1>4. Overlap(sessions[s].time, sessions[t].time)
  BY <1>1, <1>3, TextOrder DEF SameTime, Overlap
<1>. QED
  BY <1>1, <1>4 DEF NoClash

------------------------------------------------------------------------------
(* Seats.                                                                  *)

LEMMA SeatsOfType ==
  ASSUME NEW t, NEW n \in Nat
  PROVE  IsFiniteSet({t} \X (1..n)) /\ Cardinality({t} \X (1..n)) = n
<1>1. IsFiniteSet({t}) /\ Cardinality({t}) = 1
  BY FS_Singleton
<1>2. IsFiniteSet(1..n) /\ Cardinality(1..n) = n
  BY FS_Interval
<1>. QED
  <2>1. /\ IsFiniteSet({t} \X (1..n))
        /\ Cardinality({t} \X (1..n)) = Cardinality({t}) * Cardinality(1..n)
    BY <1>1, <1>2, FS_Product
  <2>. QED
    BY <1>1, <1>2, <2>1

LEMMA SeatsFinite ==
  ASSUME allocation \in [TicketTypes -> 0..MaxCapacity], NEW types \in SUBSET TicketTypes
  PROVE  IsFiniteSet(Seats(types)) /\ Allocated(types) \in Nat
<1>1. MaxCapacity \in Nat /\ IsFiniteSet(TicketTypes)
  BY PlanningAssumption
<1>2. IsFiniteSet(1..MaxCapacity)
  BY <1>1, FS_Interval
<1>3. IsFiniteSet(TicketTypes \X (1..MaxCapacity))
  BY <1>1, <1>2, FS_Product
<1>4. \A t \in types : 1..allocation[t] \subseteq 1..MaxCapacity
  BY <1>1
<1>5. Seats(types) \in SUBSET (TicketTypes \X (1..MaxCapacity))
  BY <1>4 DEF Seats
<1>. QED
  BY <1>3, <1>5, FS_Subset, FS_CardinalityType DEF Allocated

\* A type takes its seats besides those of the others.
LEMMA SeatsChanged ==
  ASSUME allocation \in [TicketTypes -> 0..MaxCapacity],
         allocation' \in [TicketTypes -> 0..MaxCapacity],
         NEW t \in TicketTypes, NEW n \in 0..MaxCapacity,
         allocation' = [allocation EXCEPT ![t] = n],
         NEW others \in SUBSET TicketTypes, TicketTypes \ {t} \subseteq others
  PROVE  /\ Allocated(TicketTypes)' \in Nat
         /\ Allocated(TicketTypes)' <= Allocated(others) + n
<1>. DEFINE kept == Seats(TicketTypes \ {t})
            own == {t} \X (1..n)
<1>1. n \in Nat
  BY PlanningAssumption
<1>2. allocation'[t] = n /\ \A u \in TicketTypes \ {t} : allocation'[u] = allocation[u]
  OBVIOUS
<1>3. Seats(TicketTypes)' = kept \union own
  <2>1. Seats(TicketTypes)' = UNION {{u} \X (1..allocation'[u]) : u \in TicketTypes}
    BY DEF Seats
  <2>2. ASSUME NEW u \in TicketTypes, u # t
        PROVE  {u} \X (1..allocation'[u]) \subseteq kept
    BY <1>2, <2>2 DEF Seats
  <2>3. ASSUME NEW u \in TicketTypes \ {t}
        PROVE  {u} \X (1..allocation[u]) = {u} \X (1..allocation'[u])
    BY <1>2, <2>3
  <2>. QED
    BY <1>2, <2>1, <2>2, <2>3 DEF Seats
<1>4. IsFiniteSet(own) /\ Cardinality(own) = n
  BY <1>1, SeatsOfType
<1>5. IsFiniteSet(kept)
  BY SeatsFinite
<1>6. kept \in SUBSET Seats(others)
  BY DEF Seats
<1>7. IsFiniteSet(Seats(others)) /\ Allocated(others) \in Nat
  BY SeatsFinite
<1>8. Cardinality(kept) <= Allocated(others) /\ Cardinality(kept) \in Nat
  BY <1>5, <1>6, <1>7, FS_Subset, FS_CardinalityType DEF Allocated
<1>. HIDE DEF kept, own
<1>9. IsFiniteSet(kept \cap own)
  BY <1>5, FS_Intersection
<1>10. Cardinality(kept \cap own) \in Nat
  BY <1>9, FS_CardinalityType
<1>11. Cardinality(kept \union own) = Cardinality(kept) + n - Cardinality(kept \cap own)
  BY <1>4, <1>5, FS_Union
<1>12. Allocated(TicketTypes)' = Cardinality(kept \union own)
  BY <1>3 DEF Allocated
<1>13. Cardinality(kept \union own) \in Nat
  BY <1>4, <1>5, FS_Union, FS_CardinalityType
<1>. QED
  BY <1>1, <1>7, <1>8, <1>10, <1>11, <1>12, <1>13

\* Nothing but a ticket type or an edit of the event changes the balance.
LEMMA SeatsKept ==
  ASSUME PlanInv, UNCHANGED allocation, event'.capacity = event.capacity, Known => Known'
  PROVE  SeatsInside'
BY DEF PlanInv, SeatsInside, Allocated, Seats

------------------------------------------------------------------------------
(* Init, and the requests.                                                 *)

LEMMA InitPlanInv == Init => PlanInv
<1>1. SUFFICES ASSUME Init PROVE PlanInv
  OBVIOUS
<1>2. RequestShape /\ CheckedInv /\ \A w \in Writers : request[w].phase = "idle"
  BY <1>1 DEF Init, RequestShape, CheckedInv
<1>3. CASE event.status = "none"
  <2>1. /\ event = [status |-> "none", dates |-> CHOOSE slot \in Slots : TRUE,
                    capacity |-> 1, version |-> 0]
        /\ allocation = [t \in TicketTypes |-> 0]
        /\ rooms = [r \in Rooms |-> NoRoom]
        /\ speakers = {}
        /\ sessions = [s \in Sessions |-> NoSession]
    BY <1>1, <1>3 DEF Init, SeededEvents
  <2>2. (CHOOSE slot \in Slots : TRUE) \in Slots
    BY PlanningAssumption
  <2>3. 1 \in Capacities /\ 0 \in 0..MaxCapacity
    BY PlanningAssumption DEF Capacities
  <2>4. PlanningTypeOK
    BY <1>2, <2>1, <2>2, <2>3 DEF PlanningTypeOK, EventStatus
  <2>5. Scheduled = {}
    BY <2>1 DEF Scheduled
  <2>6. SeatsInside
    <3>1. Seats(TicketTypes) = {}
      BY <2>1 DEF Seats
    <3>. QED
      BY <2>1, <3>1, FS_EmptySet DEF SeatsInside, Allocated
  <2>. QED
    BY <1>2, <2>4, <2>5, <2>6
      DEF PlanInv, NoClash, Booked, Housed, SessionsInside, NothingPlanned
<1>4. CASE event.status # "none"
  <2>1. PICK slot \in Slots :
          /\ event \in SeededEvents
          /\ event.dates[1] <= slot[1] /\ slot[2] <= event.dates[2]
          /\ allocation = [t \in TicketTypes |-> IF t = FirstTicketType THEN 1 ELSE 0]
          /\ rooms = [r \in Rooms |->
               IF r = FirstRoom THEN [name |-> "Hall", capacity |-> MaxCapacity] ELSE NoRoom]
          /\ speakers = {FirstSpeaker}
          /\ sessions = [s \in Sessions |->
               IF s = FirstSession
               THEN [NoSession EXCEPT !.time = Seeded(slot), !.capacity = MaxCapacity,
                                      !.status = IF event.status = "draft" THEN "draft" ELSE "published"]
               ELSE NoSession]
    <3>1. event # [status |-> "none", dates |-> CHOOSE slot \in Slots : TRUE,
                   capacity |-> 1, version |-> 0]
      BY <1>4
    <3>. QED
      BY <1>1, <3>1, Zenon DEF Init
  <2>2. MaxCapacity \in Capacities /\ 1 \in 0..MaxCapacity /\ 0 \in 0..MaxCapacity
    BY PlanningAssumption DEF Capacities
  <2>3. event \in [status : EventStatus, dates : Slots, capacity : Capacities, version : Nat]
    BY <2>1, <2>2 DEF SeededEvents, EventStatus
  <2>4. event.capacity = MaxCapacity
    BY <2>1 DEF SeededEvents
  <2>5. sessions[FirstSession] = [room |-> FirstRoom, speaker |-> FirstSpeaker,
          time |-> Seeded(slot), capacity |-> MaxCapacity,
          status |-> IF event.status = "draft" THEN "draft" ELSE "published"]
    BY <2>1, PlanningAssumption DEF NoSession
  <2>6. \A s \in Sessions \ {FirstSession} : sessions[s] = NoSession
    BY <2>1
  <2>7. sessions \in [Sessions ->
          [room : Rooms, speaker : Speakers, time : Texts, capacity : Capacities,
           status : SessionStatus] \union {NoSession}]
    <3>1. Seeded(slot) \in Texts
      BY SeededSlot
    <3>2. sessions[FirstSession] \in
            [room : Rooms, speaker : Speakers, time : Texts, capacity : Capacities,
             status : SessionStatus]
      BY <2>2, <2>5, <3>1, PlanningAssumption DEF SessionStatus
    <3>. QED
      BY <2>1, <2>6, <3>2
  <2>8. rooms[FirstRoom] = [name |-> "Hall", capacity |-> MaxCapacity] /\ rooms[FirstRoom] # NoRoom
    BY <2>1, PlanningAssumption DEF NoRoom
  <2>9. rooms \in [Rooms -> [name : Names, capacity : Capacities] \union {NoRoom}]
    BY <2>1, <2>2 DEF Names
  <2>10. PlanningTypeOK
    BY <1>2, <2>1, <2>2, <2>3, <2>7, <2>9, PlanningAssumption DEF PlanningTypeOK
  <2>11. Scheduled \subseteq {FirstSession}
    BY <2>6 DEF Scheduled
  <2>12. NoClash
    BY <2>11 DEF NoClash, Booked
  <2>13. Housed
    <3>1. FirstRoom \in KnownRooms /\ FirstSpeaker \in speakers
      BY <2>1, <2>8, PlanningAssumption DEF KnownRooms
    <3>2. sessions[FirstSession].room = FirstRoom /\ sessions[FirstSession].speaker = FirstSpeaker
      BY <2>5
    <3>. QED
      BY <2>11, <3>1, <3>2 DEF Housed
  <2>14. SessionsInside
    BY <2>1, <2>4, <2>5, <2>11, SeededSlot, PlanningAssumption DEF SessionsInside, Fits
  <2>15. SeatsInside
    <3>1. \A t \in TicketTypes : 1..allocation[t] = IF t = FirstTicketType THEN 1..1 ELSE {}
      <4>1. 1..0 = {}
        OBVIOUS
      <4>. QED
        BY <2>1, <4>1
    <3>2. Seats(TicketTypes) = {FirstTicketType} \X (1..1)
      <4>1. \A t \in TicketTypes \ {FirstTicketType} : {t} \X (1..allocation[t]) = {}
        BY <3>1
      <4>2. {FirstTicketType} \X (1..allocation[FirstTicketType]) = {FirstTicketType} \X (1..1)
        BY <3>1, PlanningAssumption
      <4>3. \A x : x \in Seats(TicketTypes) <=>
                     \E t \in TicketTypes : x \in {t} \X (1..allocation[t])
        BY DEF Seats
      <4>4. FirstTicketType \in TicketTypes
        BY PlanningAssumption
      <4>. HIDE DEF Seats
      <4>. QED
        BY <4>1, <4>2, <4>3, <4>4
    <3>3. Cardinality({FirstTicketType} \X (1..1)) = 1
      BY SeatsOfType
    <3>4. 1 <= MaxCapacity
      BY PlanningAssumption
    <3>. QED
      BY <1>4, <2>4, <3>2, <3>3, <3>4 DEF SeatsInside, Allocated, Known
  <2>. QED
    BY <1>2, <1>4, <2>10, <2>12, <2>13, <2>14, <2>15 DEF PlanInv, NothingPlanned, Known
<1>. QED
  BY <1>3, <1>4

\* A command that was allowed is one that still holds.
LEMMA AllowedHolds ==
  ASSUME NEW c \in Commands, Allowed(c), PlanningTypeOK
  PROVE  StillHolds(c)
<1>1. CASE c \in CreateEvent
  BY <1>1 DEF CreateEvent, StillHolds
<1>2. CASE c \in UpdateEvent
  BY <1>2 DEF UpdateEvent, StillHolds, Allowed
<1>3. CASE c \in TransitionEvent
  BY <1>3 DEF TransitionEvent, StillHolds, Allowed
<1>4. CASE c \in SaveTicketType
  BY <1>4 DEF SaveTicketType, StillHolds, Allowed
<1>5. CASE c \in SaveRoom
  BY <1>5 DEF SaveRoom, StillHolds, Allowed, RoomAllowed
<1>6. CASE c \in SaveSpeaker
  BY <1>6 DEF SaveSpeaker, StillHolds, Allowed
<1>7. CASE c \in SaveSession
  BY <1>7 DEF SaveSession, StillHolds, Allowed, SessionAllowed
<1>8. CASE c \in SetSessionStatus
  BY <1>8 DEF SetSessionStatus, StillHolds, Allowed, SessionStatusAllowed
<1>. QED
  BY <1>1, <1>2, <1>3, <1>4, <1>5, <1>6, <1>7, <1>8 DEF Commands

\* A request changes its own phase, and the command it holds was checked.
LEMMA RequestChanged ==
  ASSUME NEW w \in Writers, NEW phase, NEW command, RequestShape,
         request' = [request EXCEPT ![w] = [phase |-> phase, command |-> command]]
  PROVE  /\ RequestShape'
         /\ request'[w].phase = phase /\ request'[w].command = command
         /\ \A v \in Writers \ {w} : request'[v] = request[v]
BY DEF RequestShape

\* What was checked holds on: nothing that exists is deleted.
LEMMA HoldsOn ==
  ASSUME PlanInv, NEW w \in Writers, Done(w),
         Known => Known',
         KnownRooms \subseteq KnownRooms', speakers \subseteq speakers',
         Scheduled \subseteq Scheduled'
  PROVE  RequestShape' /\ CheckedInv' /\ \A v \in Writers : request'[v].phase \in {"idle", "checked", "done"}
<1>1. /\ RequestShape'
      /\ request'[w].phase = "done"
      /\ \A v \in Writers \ {w} : request'[v] = request[v]
  BY RequestChanged DEF Done, PlanInv
<1>2. ASSUME NEW v \in Writers, request'[v].phase = "checked"
      PROVE  StillHolds(request[v].command)'
  <2>1. v # w /\ request'[v] = request[v]
    BY <1>1, <1>2
  <2>2. PICK c : c = request'[v].command
    OBVIOUS
  <2>3. StillHolds(c)
    BY <1>2, <2>1, <2>2 DEF PlanInv, CheckedInv
  <2>4. StillHolds(c)'
    BY <2>3 DEF StillHolds
  <2>. QED
    BY <2>2, <2>4 DEF StillHolds
<1>. QED
  BY <1>1, <1>2 DEF CheckedInv, PlanInv, PlanningTypeOK

------------------------------------------------------------------------------
(* One lemma per action that writes the programme or what bounds it.       *)

\* What is unchanged keeps what is said of it.
LEMMA ProgrammeKept ==
  ASSUME PlanInv, UNCHANGED <<rooms, speakers, sessions>>
  PROVE  /\ KnownRooms' = KnownRooms /\ Scheduled' = Scheduled
         /\ NoClash' /\ Housed'
<1>1. KnownRooms' = KnownRooms /\ Scheduled' = Scheduled
  BY DEF KnownRooms, Scheduled
<1>2. NoClash'
  BY DEF PlanInv, NoClash, Booked, Scheduled
<1>3. Housed'
  BY <1>1 DEF PlanInv, Housed
<1>. QED
  BY <1>1, <1>2, <1>3

\* A request that writes nothing.
LEMMA NothingWritten ==
  ASSUME PlanInv, RequestShape', CheckedInv',
         \A w \in Writers : request'[w].phase \in {"idle", "checked", "done"},
         UNCHANGED <<event, allocation, rooms, speakers, sessions>>
  PROVE  PlanInv'
<1>1. PlanningTypeOK'
  BY DEF PlanInv, PlanningTypeOK
<1>2. KnownRooms' = KnownRooms /\ Scheduled' = Scheduled /\ NoClash' /\ Housed'
  BY ProgrammeKept
<1>3. SessionsInside' /\ NothingPlanned'
  BY <1>2 DEF PlanInv, SessionsInside, NothingPlanned, Known
<1>4. SeatsInside'
  BY SeatsKept DEF Known
<1>. QED
  BY <1>1, <1>2, <1>3, <1>4 DEF PlanInv

LEMMA CheckPlanInv ==
  ASSUME PlanInv, NEW w \in Writers, Check(w)
  PROVE  PlanInv'
<1>1. PICK c \in Commands :
        /\ Allowed(c)
        /\ request' = [request EXCEPT ![w] = [phase |-> "checked", command |-> c]]
  BY DEF Check
<1>2. /\ RequestShape'
      /\ request'[w].phase = "checked" /\ request'[w].command = c
      /\ \A v \in Writers \ {w} : request'[v] = request[v]
  BY <1>1, RequestChanged DEF PlanInv
<1>3. StillHolds(c)
  BY <1>1, AllowedHolds DEF PlanInv
<1>4. UNCHANGED <<event, allocation, rooms, speakers, sessions>>
  BY DEF Check
<1>5. ASSUME NEW v \in Writers, request'[v].phase = "checked"
      PROVE  StillHolds(request[v].command)'
  <2>1. PICK d : d = request'[v].command
    OBVIOUS
  <2>2. StillHolds(d)
    BY <1>2, <1>3, <1>5, <2>1 DEF PlanInv, CheckedInv
  <2>3. StillHolds(d)'
    BY <1>4, <2>2 DEF StillHolds, Known, KnownRooms, Scheduled
  <2>. QED
    BY <2>1, <2>3 DEF StillHolds
<1>6. CheckedInv'
  BY <1>5 DEF CheckedInv
<1>7. \A v \in Writers : request'[v].phase \in {"idle", "checked", "done"}
  BY <1>2 DEF PlanInv, PlanningTypeOK
<1>. QED
  BY <1>2, <1>4, <1>6, <1>7, NothingWritten

\* Refused by the check, or by the database.
LEMMA NoWritePlanInv ==
  ASSUME PlanInv, NEW w \in Writers, Reject(w) \/ Abort(w)
  PROVE  PlanInv'
<1>1. Done(w) /\ UNCHANGED <<event, allocation, rooms, speakers, sessions>>
  BY DEF Reject, Abort
<1>2. RequestShape' /\ CheckedInv' /\ \A v \in Writers : request'[v].phase \in {"idle", "checked", "done"}
  BY <1>1, HoldsOn DEF Known, KnownRooms, Scheduled
<1>. QED
  BY <1>1, <1>2, NothingWritten

\* A new event has no programme yet.
LEMMA InsertEventPlanInv ==
  ASSUME PlanInv, NEW w \in Writers, InsertEvent(w)
  PROVE  PlanInv'
<1>1. PICK c : c = request[w].command
  OBVIOUS
<1>2. /\ request[w].phase = "checked" /\ c.do = "CreateEvent" /\ event.status = "none"
      /\ event' = [status |-> "draft", dates |-> c.dates, capacity |-> c.capacity, version |-> 0]
      /\ Done(w)
      /\ UNCHANGED <<allocation, rooms, speakers, sessions>>
  BY <1>1 DEF InsertEvent, Checked
<1>3. c.dates \in Slots /\ c.capacity \in Capacities
  BY <1>1, <1>2 DEF PlanInv, CheckedInv, StillHolds
<1>4. KnownRooms' = KnownRooms /\ Scheduled' = Scheduled /\ NoClash' /\ Housed'
  BY <1>2, ProgrammeKept
<1>5. Scheduled' = {}
  BY <1>2, <1>4 DEF PlanInv, NothingPlanned, Known
<1>6. Known'
  BY <1>2 DEF Known
<1>7. RequestShape' /\ CheckedInv' /\ \A v \in Writers : request'[v].phase \in {"idle", "checked", "done"}
  BY <1>2, <1>4, <1>6, HoldsOn
<1>8. PlanningTypeOK'
  BY <1>2, <1>3, <1>7 DEF PlanInv, PlanningTypeOK, EventStatus
<1>9. SeatsInside'
  <2>1. \A t \in TicketTypes : 1..allocation'[t] = {}
    BY <1>2 DEF PlanInv, SeatsInside, Known
  <2>2. Seats(TicketTypes)' = {}
    BY <2>1 DEF Seats
  <2>3. event'.capacity \in Nat
    BY <1>2, <1>3, PlanningAssumption DEF Capacities
  <2>. QED
    BY <1>6, <2>2, <2>3, FS_EmptySet DEF SeatsInside, Allocated
<1>. QED
  BY <1>4, <1>5, <1>7, <1>8, <1>9 DEF PlanInv, SessionsInside, NothingPlanned

\* The trigger on the event looks at every session.
LEMMA WriteEventPlanInv ==
  ASSUME PlanInv, NEW w \in Writers, WriteEvent(w)
  PROVE  PlanInv'
<1>1. PICK c : c = request[w].command
  OBVIOUS
<1>2. /\ request[w].phase = "checked" /\ c.do = "UpdateEvent"
      /\ EventWritable(c)
      /\ event' = [event EXCEPT !.dates = c.dates, !.capacity = c.capacity, !.version = @ + 1]
      /\ Done(w)
      /\ UNCHANGED <<allocation, rooms, speakers, sessions>>
  BY <1>1 DEF WriteEvent, Checked
<1>3. c.dates \in Slots /\ c.capacity \in Capacities
  BY <1>1, <1>2 DEF PlanInv, CheckedInv, StillHolds
<1>4. KnownRooms' = KnownRooms /\ Scheduled' = Scheduled /\ NoClash' /\ Housed'
  BY <1>2, ProgrammeKept
<1>5. /\ event' \in [status : EventStatus, dates : Slots, capacity : Capacities, version : Nat]
      /\ event'.status = event.status /\ event'.dates = c.dates /\ event'.capacity = c.capacity
  <2>1. PICK status \in EventStatus, dates \in Slots, capacity \in Capacities, version \in Nat :
          event = [status |-> status, dates |-> dates, capacity |-> capacity, version |-> version]
    BY DEF PlanInv, PlanningTypeOK
  <2>2. event' = [status |-> status, dates |-> c.dates, capacity |-> c.capacity,
                  version |-> version + 1]
    BY <1>2, <2>1
  <2>. QED
    BY <1>3, <2>1, <2>2
<1>6. RequestShape' /\ CheckedInv' /\ \A v \in Writers : request'[v].phase \in {"idle", "checked", "done"}
  BY <1>2, <1>4, <1>5, HoldsOn DEF Known
<1>7. PlanningTypeOK'
  BY <1>2, <1>5, <1>6 DEF PlanInv, PlanningTypeOK
<1>8. SessionsInside'
  BY <1>2, <1>4, <1>5 DEF SessionsInside, EventWritable
<1>9. NothingPlanned'
  BY <1>4, <1>5 DEF PlanInv, NothingPlanned, Known
<1>10. SeatsInside'
  BY <1>2, <1>5 DEF PlanInv, SeatsInside, EventWritable, Allocated, Seats, Known
<1>. QED
  BY <1>4, <1>6, <1>7, <1>8, <1>9, <1>10 DEF PlanInv

LEMMA WriteStatusPlanInv ==
  ASSUME PlanInv, NEW w \in Writers, WriteStatus(w)
  PROVE  PlanInv'
<1>1. PICK c : c = request[w].command
  OBVIOUS
<1>2. /\ request[w].phase = "checked" /\ c.do = "TransitionEvent"
      /\ event' = [event EXCEPT !.status = c.to, !.version = @ + 1]
      /\ Done(w)
      /\ UNCHANGED <<allocation, rooms, speakers, sessions>>
  BY <1>1 DEF WriteStatus, Checked
<1>3. c.to \in Transitions(c.from)
  BY <1>1, <1>2 DEF PlanInv, CheckedInv, StillHolds
<1>4. c.to \in EventStatus /\ c.to # "none"
  BY <1>3 DEF Transitions, EventStatus
<1>5. KnownRooms' = KnownRooms /\ Scheduled' = Scheduled /\ NoClash' /\ Housed'
  BY <1>2, ProgrammeKept
<1>6. /\ event' \in [status : EventStatus, dates : Slots, capacity : Capacities, version : Nat]
      /\ event'.status = c.to /\ event'.dates = event.dates /\ event'.capacity = event.capacity
  <2>1. PICK status \in EventStatus, dates \in Slots, capacity \in Capacities, version \in Nat :
          event = [status |-> status, dates |-> dates, capacity |-> capacity, version |-> version]
    BY DEF PlanInv, PlanningTypeOK
  <2>2. event' = [status |-> c.to, dates |-> dates, capacity |-> capacity, version |-> version + 1]
    BY <1>2, <2>1
  <2>. QED
    BY <1>4, <2>1, <2>2
<1>7. Known'
  BY <1>4, <1>6 DEF Known
<1>8. RequestShape' /\ CheckedInv' /\ \A v \in Writers : request'[v].phase \in {"idle", "checked", "done"}
  BY <1>2, <1>5, <1>7, HoldsOn
<1>9. PlanningTypeOK'
  BY <1>2, <1>6, <1>8 DEF PlanInv, PlanningTypeOK
<1>10. SessionsInside'
  BY <1>2, <1>5, <1>6 DEF PlanInv, SessionsInside
<1>11. SeatsInside'
  BY <1>2, <1>6, <1>7, SeatsKept
<1>. QED
  BY <1>5, <1>7, <1>8, <1>9, <1>10, <1>11 DEF PlanInv, NothingPlanned

LEMMA WriteTicketTypePlanInv ==
  ASSUME PlanInv, NEW w \in Writers, WriteTicketType(w)
  PROVE  PlanInv'
<1>1. PICK c : c = request[w].command
  OBVIOUS
<1>2. PICK t \in IF c.type = New THEN TicketTypes \ KnownTypes ELSE {c.type} :
      /\ request[w].phase = "checked" /\ c.do = "SaveTicketType"
      /\ TypeWritable(c)
      /\ allocation' = [allocation EXCEPT ![t] = c.total]
      /\ Done(w)
      /\ UNCHANGED <<event, rooms, speakers, sessions>>
  BY <1>1 DEF WriteTicketType, Checked
<1>3. c.total \in 0..MaxCapacity
  BY <1>1, <1>2, PlanningAssumption DEF PlanInv, CheckedInv, StillHolds, Capacities
<1>4. allocation' \in [TicketTypes -> 0..MaxCapacity]
  BY <1>2, <1>3 DEF PlanInv, PlanningTypeOK
<1>5. KnownRooms' = KnownRooms /\ Scheduled' = Scheduled /\ NoClash' /\ Housed'
  BY <1>2, ProgrammeKept
<1>6. RequestShape' /\ CheckedInv' /\ \A v \in Writers : request'[v].phase \in {"idle", "checked", "done"}
  BY <1>2, <1>5, HoldsOn DEF Known
<1>7. PlanningTypeOK'
  BY <1>2, <1>4, <1>6 DEF PlanInv, PlanningTypeOK
<1>8. SessionsInside' /\ NothingPlanned'
  BY <1>2, <1>5 DEF PlanInv, SessionsInside, NothingPlanned, Known
<1>9. c.type \in TicketTypes \union {New} /\ New \notin TicketTypes /\ Known
  BY <1>1, <1>2, PlanningAssumption DEF PlanInv, CheckedInv, StillHolds
<1>10. t \in TicketTypes /\ TicketTypes \ {t} \subseteq TicketTypes \ {c.type}
  BY <1>2, <1>9
<1>11. /\ Allocated(TicketTypes)' \in Nat
       /\ Allocated(TicketTypes)' <= Allocated(TicketTypes \ {c.type}) + c.total
  BY <1>2, <1>3, <1>4, <1>10, SeatsChanged DEF PlanInv, PlanningTypeOK
<1>12. Allocated(TicketTypes \ {c.type}) + c.total <= event.capacity
  BY <1>2 DEF TypeWritable
<1>13. /\ Allocated(TicketTypes)' \in Nat /\ Allocated(TicketTypes \ {c.type}) \in Nat
       /\ c.total \in Nat /\ event.capacity \in Nat
  <2>1. allocation \in [TicketTypes -> 0..MaxCapacity] /\ event.capacity \in Capacities
    BY DEF PlanInv, PlanningTypeOK
  <2>2. Allocated(TicketTypes \ {c.type}) \in Nat
    BY <2>1, SeatsFinite
  <2>. QED
    BY <1>3, <1>11, <2>1, <2>2, PlanningAssumption DEF Capacities
<1>14. Allocated(TicketTypes)' <= event.capacity
  BY <1>11, <1>12, <1>13
<1>15. SeatsInside'
  BY <1>2, <1>9, <1>14 DEF SeatsInside, Known
<1>. QED
  BY <1>5, <1>6, <1>7, <1>8, <1>15 DEF PlanInv

\* A room that is changed remains one.
LEMMA WriteRoomPlanInv ==
  ASSUME PlanInv, NEW w \in Writers, WriteRoom(w)
  PROVE  PlanInv'
<1>1. PICK c : c = request[w].command
  OBVIOUS
<1>2. PICK r \in IF c.room = New THEN Rooms \ KnownRooms ELSE {c.room} :
      /\ request[w].phase = "checked" /\ c.do = "SaveRoom"
      /\ rooms' = [rooms EXCEPT ![r] = [name |-> c.name, capacity |-> c.capacity]]
      /\ Done(w)
      /\ UNCHANGED <<event, allocation, speakers, sessions>>
  BY <1>1 DEF WriteRoom, Checked
<1>3. c.room \in KnownRooms \union {New} /\ c.name \in Names /\ c.capacity \in Capacities
  BY <1>1, <1>2 DEF PlanInv, CheckedInv, StillHolds
<1>4. r \in Rooms /\ rooms \in [Rooms -> [name : Names, capacity : Capacities] \union {NoRoom}]
  BY <1>2, <1>3 DEF KnownRooms, PlanInv, PlanningTypeOK
<1>5. [name |-> c.name, capacity |-> c.capacity] \in [name : Names, capacity : Capacities]
  BY <1>3
<1>6. rooms' \in [Rooms -> [name : Names, capacity : Capacities] \union {NoRoom}]
  BY <1>2, <1>4, <1>5
<1>7. [name |-> c.name, capacity |-> c.capacity] # NoRoom
  <2>1. c.capacity # 0
    BY <1>3, PlanningAssumption DEF Capacities
  <2>2. [name |-> c.name, capacity |-> c.capacity].capacity # NoRoom.capacity
    BY <2>1 DEF NoRoom
  <2>. QED
    BY <2>2
<1>8. KnownRooms \subseteq KnownRooms'
  BY <1>2, <1>4, <1>7 DEF KnownRooms
<1>9. Scheduled' = Scheduled
  BY <1>2 DEF Scheduled
<1>10. RequestShape' /\ CheckedInv' /\ \A v \in Writers : request'[v].phase \in {"idle", "checked", "done"}
  BY <1>2, <1>8, <1>9, HoldsOn DEF Known
<1>11. PlanningTypeOK'
  BY <1>2, <1>6, <1>10 DEF PlanInv, PlanningTypeOK
<1>12. NoClash'
  BY <1>2 DEF PlanInv, NoClash, Booked, Scheduled
<1>13. Housed'
  BY <1>2, <1>8, <1>9 DEF PlanInv, Housed
<1>14. SessionsInside' /\ NothingPlanned'
  BY <1>2, <1>9 DEF PlanInv, SessionsInside, NothingPlanned, Known
<1>15. SeatsInside'
  BY <1>2, SeatsKept DEF Known
<1>. QED
  BY <1>10, <1>11, <1>12, <1>13, <1>14, <1>15 DEF PlanInv

LEMMA WriteSpeakerPlanInv ==
  ASSUME PlanInv, NEW w \in Writers, WriteSpeaker(w)
  PROVE  PlanInv'
<1>1. PICK c : c = request[w].command
  OBVIOUS
<1>2. PICK p \in IF c.speaker = New THEN Speakers \ speakers ELSE {c.speaker} :
      /\ request[w].phase = "checked" /\ c.do = "SaveSpeaker"
      /\ speakers' = speakers \union {p}
      /\ Done(w)
      /\ UNCHANGED <<event, allocation, rooms, sessions>>
  BY <1>1 DEF WriteSpeaker, Checked
<1>3. c.speaker \in Speakers \union {New}
  BY <1>1, <1>2 DEF PlanInv, CheckedInv, StillHolds
<1>4. speakers' \subseteq Speakers /\ speakers \subseteq speakers'
  BY <1>2, <1>3 DEF PlanInv, PlanningTypeOK
<1>5. KnownRooms' = KnownRooms /\ Scheduled' = Scheduled
  BY <1>2 DEF KnownRooms, Scheduled
<1>6. RequestShape' /\ CheckedInv' /\ \A v \in Writers : request'[v].phase \in {"idle", "checked", "done"}
  BY <1>2, <1>4, <1>5, HoldsOn DEF Known
<1>7. PlanningTypeOK'
  BY <1>2, <1>4, <1>6 DEF PlanInv, PlanningTypeOK
<1>8. NoClash'
  BY <1>2 DEF PlanInv, NoClash, Booked, Scheduled
<1>9. Housed'
  BY <1>2, <1>4, <1>5 DEF PlanInv, Housed
<1>10. SessionsInside' /\ NothingPlanned'
  BY <1>2, <1>5 DEF PlanInv, SessionsInside, NothingPlanned, Known
<1>11. SeatsInside'
  BY <1>2, SeatsKept DEF Known
<1>. QED
  BY <1>6, <1>7, <1>8, <1>9, <1>10, <1>11 DEF PlanInv

\* A session whose row is written clashes with none if the triggers found none.
LEMMA RowWritten ==
  ASSUME PlanInv, NEW s \in Sessions, NEW row,
         row \in [room : Rooms, speaker : Speakers, time : Texts, capacity : Capacities,
                  status : SessionStatus],
         row # NoSession,
         sessions' = [sessions EXCEPT ![s] = row],
         UNCHANGED <<event, allocation, rooms, speakers>>,
         Known, row.room \in KnownRooms, row.speaker \in speakers,
         Fits(row.time, row.capacity, event.dates, event.capacity),
         row.status # "cancelled" =>
           \A t \in Booked(New) \ {s} :
             Overlap(sessions[t].time, row.time) =>
               sessions[t].room # row.room /\ sessions[t].speaker # row.speaker
  PROVE  /\ sessions' \in [Sessions ->
              [room : Rooms, speaker : Speakers, time : Texts, capacity : Capacities,
               status : SessionStatus] \union {NoSession}]
         /\ KnownRooms' = KnownRooms /\ Scheduled \subseteq Scheduled'
         /\ NoClash' /\ Housed' /\ SessionsInside' /\ NothingPlanned'
<1>1. sessions \in [Sessions ->
              [room : Rooms, speaker : Speakers, time : Texts, capacity : Capacities,
               status : SessionStatus] \union {NoSession}]
  BY DEF PlanInv, PlanningTypeOK
<1>2. sessions'[s] = row /\ \A t \in Sessions \ {s} : sessions'[t] = sessions[t]
  BY <1>1
<1>3. sessions' \in [Sessions ->
              [room : Rooms, speaker : Speakers, time : Texts, capacity : Capacities,
               status : SessionStatus] \union {NoSession}]
  BY <1>1
<1>4. Scheduled' = Scheduled \union {s} /\ s \in Scheduled'
  BY <1>2 DEF Scheduled
<1>5. KnownRooms' = KnownRooms
  BY DEF KnownRooms
<1>6. \A t \in Booked(New)' : t # s => t \in Booked(New) /\ sessions'[t] = sessions[t]
  BY <1>2, <1>4 DEF Booked, Scheduled
<1>7. s \in Booked(New)' => row.status # "cancelled"
  BY <1>2 DEF Booked
<1>8. NoClash'
  <2>1. SUFFICES ASSUME NEW t \in Booked(New)', NEW u \in Booked(New)', t # u,
                        Overlap(sessions'[t].time, sessions'[u].time)
                 PROVE  /\ sessions'[t].room # sessions'[u].room
                        /\ sessions'[t].speaker # sessions'[u].speaker
    BY Zenon DEF NoClash, Overlap
  <2>2. CASE t # s /\ u # s
    BY <1>6, <2>1, <2>2 DEF PlanInv, NoClash
  <2>3. CASE t = s
    <3>1. u \in Booked(New) \ {s} /\ sessions'[u] = sessions[u] /\ sessions'[t] = row
      BY <1>2, <1>6, <2>1, <2>3
    <3>2. Overlap(sessions[u].time, row.time)
      BY <2>1, <3>1 DEF Overlap
    <3>. QED
      BY <1>7, <2>3, <3>1, <3>2
  <2>4. CASE u = s
    <3>1. t \in Booked(New) \ {s} /\ sessions'[t] = sessions[t] /\ sessions'[u] = row
      BY <1>2, <1>6, <2>1, <2>4
    <3>2. Overlap(sessions[t].time, row.time)
      BY <2>1, <3>1
    <3>. QED
      BY <1>7, <2>4, <3>1, <3>2
  <2>. QED
    BY <2>2, <2>3, <2>4
<1>9. \A t \in Scheduled' : t # s => t \in Scheduled /\ sessions'[t] = sessions[t]
  BY <1>2, <1>4 DEF Scheduled
<1>10. Housed'
  BY <1>2, <1>5, <1>9 DEF PlanInv, Housed
<1>11. SessionsInside'
  BY <1>2, <1>9 DEF PlanInv, SessionsInside
<1>12. NothingPlanned'
  BY DEF NothingPlanned, Known
<1>. QED
  BY <1>3, <1>4, <1>5, <1>8, <1>10, <1>11, <1>12

\* A saved session has a room and a speaker, and the triggers compared it with
\* every booked one.
LEMMA WriteSessionPlanInv ==
  ASSUME PlanInv, NEW w \in Writers, WriteSession(w)
  PROVE  PlanInv'
<1>1. PICK c : c = request[w].command
  OBVIOUS
<1>2. PICK s \in IF c.session = New THEN Sessions \ Scheduled ELSE {c.session} :
      /\ request[w].phase = "checked" /\ c.do = "SaveSession"
      /\ SessionWritable(c)
      /\ sessions' = [sessions EXCEPT ![s] =
           [room |-> c.room, speaker |-> c.speaker, time |-> Written(c.slot),
            capacity |-> c.capacity, status |-> StatusOf(c.session)]]
      /\ Done(w)
      /\ UNCHANGED <<event, allocation, rooms, speakers>>
  BY <1>1 DEF WriteSession, Checked
<1>3. /\ c.session \in Scheduled \union {New} /\ c.room \in KnownRooms /\ c.speaker \in speakers
      /\ c.slot \in Slots /\ c.capacity \in Capacities
      /\ Known
  BY <1>1, <1>2 DEF PlanInv, CheckedInv, StillHolds
<1>4. s \in Sessions /\ New \notin Sessions
  BY <1>2, <1>3, PlanningAssumption DEF Scheduled
<1>5. PICK row : row = [room |-> c.room, speaker |-> c.speaker, time |-> Written(c.slot),
                        capacity |-> c.capacity, status |-> StatusOf(c.session)]
  OBVIOUS
<1>6. StatusOf(c.session) \in SessionStatus
  BY <1>3 DEF StatusOf, SessionStatus, Scheduled, PlanInv, PlanningTypeOK
<1>7. c.room \in Rooms /\ c.speaker \in Speakers /\ Written(c.slot) \in Texts
  BY <1>3, WrittenSlot DEF KnownRooms, PlanInv, PlanningTypeOK
<1>8. row \in [room : Rooms, speaker : Speakers, time : Texts, capacity : Capacities,
               status : SessionStatus]
  BY <1>3, <1>5, <1>6, <1>7
<1>9. /\ row.room = c.room /\ row.speaker = c.speaker /\ row.time = Written(c.slot)
      /\ row.capacity = c.capacity /\ row.status = StatusOf(c.session)
  BY <1>5
<1>10. row # NoSession
  <2>1. row.status # NoSession.status
    BY <1>6, <1>9 DEF NoSession, SessionStatus
  <2>. QED
    BY <2>1
<1>11. sessions' = [sessions EXCEPT ![s] = row]
  BY <1>2, <1>5
<1>12. Fits(row.time, row.capacity, event.dates, event.capacity)
  BY <1>2, <1>9 DEF SessionWritable
<1>13. Booked(New) \ {s} \subseteq Booked(c.session)
  BY <1>2, <1>3, <1>4 DEF Booked
<1>14. row.status # "cancelled" =>
         \A t \in Booked(New) \ {s} :
           Overlap(sessions[t].time, row.time) =>
             sessions[t].room # row.room /\ sessions[t].speaker # row.speaker
  BY <1>2, <1>9, <1>13 DEF SessionWritable, RoomTaken, SpeakerTaken
<1>15. /\ sessions' \in [Sessions ->
              [room : Rooms, speaker : Speakers, time : Texts, capacity : Capacities,
               status : SessionStatus] \union {NoSession}]
       /\ KnownRooms' = KnownRooms /\ Scheduled \subseteq Scheduled'
       /\ NoClash' /\ Housed' /\ SessionsInside' /\ NothingPlanned'
  BY <1>2, <1>3, <1>4, <1>8, <1>9, <1>10, <1>11, <1>12, <1>14, RowWritten
<1>16. RequestShape' /\ CheckedInv' /\ \A v \in Writers : request'[v].phase \in {"idle", "checked", "done"}
  BY <1>2, <1>15, HoldsOn DEF Known
<1>17. PlanningTypeOK'
  BY <1>2, <1>15, <1>16 DEF PlanInv, PlanningTypeOK
<1>18. SeatsInside'
  BY <1>2, SeatsKept DEF Known
<1>. QED
  BY <1>15, <1>16, <1>17, <1>18 DEF PlanInv

\* A session that is restored is compared like one that is saved.
LEMMA WriteSessionStatusPlanInv ==
  ASSUME PlanInv, NEW w \in Writers, WriteSessionStatus(w)
  PROVE  PlanInv'
<1>1. PICK c : c = request[w].command
  OBVIOUS
<1>2. /\ request[w].phase = "checked" /\ c.do = "SetSessionStatus"
      /\ SessionStatusWritable(c)
      /\ sessions' = [sessions EXCEPT ![c.session].status = c.status]
      /\ Done(w)
      /\ UNCHANGED <<event, allocation, rooms, speakers>>
  BY <1>1 DEF WriteSessionStatus, Checked
<1>3. c.session \in Scheduled /\ c.status \in SessionStatus /\ Known
  BY <1>1, <1>2 DEF PlanInv, CheckedInv, StillHolds
<1>4. PICK s \in Scheduled : s = c.session
  BY <1>3
<1>5. PICK room \in Rooms, speaker \in Speakers, time \in Texts, capacity \in Capacities,
           status \in SessionStatus :
        sessions[s] = [room |-> room, speaker |-> speaker, time |-> time,
                       capacity |-> capacity, status |-> status]
  BY <1>4 DEF Scheduled, PlanInv, PlanningTypeOK
<1>6. PICK row : row = [room |-> room, speaker |-> speaker, time |-> time,
                        capacity |-> capacity, status |-> c.status]
  OBVIOUS
<1>7. /\ row \in [room : Rooms, speaker : Speakers, time : Texts, capacity : Capacities,
                  status : SessionStatus]
      /\ row.room = sessions[s].room /\ row.speaker = sessions[s].speaker
      /\ row.time = sessions[s].time /\ row.capacity = sessions[s].capacity
      /\ row.status = c.status
  BY <1>3, <1>5, <1>6
<1>8. row # NoSession
  <2>1. row.status # NoSession.status
    BY <1>3, <1>7 DEF NoSession, SessionStatus
  <2>. QED
    BY <2>1
<1>9. sessions' = [sessions EXCEPT ![s] = row]
  <2>1. [sessions[s] EXCEPT !.status = c.status] = row
    BY <1>5, <1>6
  <2>2. sessions' = [sessions EXCEPT ![s] = [sessions[s] EXCEPT !.status = c.status]]
    BY <1>2, <1>4
  <2>. QED
    BY <2>1, <2>2
<1>10. Fits(row.time, row.capacity, event.dates, event.capacity)
  BY <1>4, <1>7 DEF PlanInv, SessionsInside
<1>11. row.room \in KnownRooms /\ row.speaker \in speakers
  BY <1>4, <1>7 DEF PlanInv, Housed
<1>12. Booked(New) \ {s} \subseteq Booked(s) /\ s \in Sessions
  BY <1>4 DEF Booked, Scheduled
<1>13. row.status # "cancelled" =>
         \A t \in Booked(New) \ {s} :
           Overlap(sessions[t].time, row.time) =>
             sessions[t].room # row.room /\ sessions[t].speaker # row.speaker
  BY <1>2, <1>4, <1>7, <1>12 DEF SessionStatusWritable, RoomTaken, SpeakerTaken
<1>14. /\ sessions' \in [Sessions ->
              [room : Rooms, speaker : Speakers, time : Texts, capacity : Capacities,
               status : SessionStatus] \union {NoSession}]
       /\ KnownRooms' = KnownRooms /\ Scheduled \subseteq Scheduled'
       /\ NoClash' /\ Housed' /\ SessionsInside' /\ NothingPlanned'
  BY <1>2, <1>3, <1>7, <1>8, <1>9, <1>10, <1>11, <1>12, <1>13, RowWritten
<1>15. RequestShape' /\ CheckedInv' /\ \A v \in Writers : request'[v].phase \in {"idle", "checked", "done"}
  BY <1>2, <1>14, HoldsOn DEF Known
<1>16. PlanningTypeOK'
  BY <1>2, <1>14, <1>15 DEF PlanInv, PlanningTypeOK
<1>17. SeatsInside'
  BY <1>2, SeatsKept DEF Known
<1>. QED
  BY <1>14, <1>15, <1>16, <1>17 DEF PlanInv

------------------------------------------------------------------------------
(* The theorems.                                                           *)

LEMMA NextPlanInv == PlanInv /\ [Next]_vars => PlanInv'
<1>1. SUFFICES ASSUME PlanInv, [Next]_vars PROVE PlanInv'
  OBVIOUS
<1>2. CASE UNCHANGED vars
  <2>1. RequestShape'
    BY <1>1, <1>2 DEF vars, PlanInv, RequestShape
  <2>2. CheckedInv'
    BY <1>1, <1>2 DEF vars, PlanInv, CheckedInv, StillHolds, Known, KnownRooms, Scheduled
  <2>3. \A w \in Writers : request'[w].phase \in {"idle", "checked", "done"}
    BY <1>1, <1>2 DEF vars, PlanInv, PlanningTypeOK
  <2>. QED
    BY <1>1, <1>2, <2>1, <2>2, <2>3, NothingWritten DEF vars
<1>3. CASE Next
  <2>1. PICK w \in Writers :
          \/ Check(w) \/ Reject(w) \/ Abort(w)
          \/ InsertEvent(w) \/ WriteEvent(w) \/ WriteStatus(w)
          \/ WriteTicketType(w)
          \/ WriteRoom(w) \/ WriteSpeaker(w) \/ WriteSession(w) \/ WriteSessionStatus(w)
    BY <1>3 DEF Next
  <2>. QED
    BY <1>1, <2>1, CheckPlanInv, NoWritePlanInv, InsertEventPlanInv, WriteEventPlanInv, WriteStatusPlanInv,
       WriteTicketTypePlanInv, WriteRoomPlanInv, WriteSpeakerPlanInv, WriteSessionPlanInv,
       WriteSessionStatusPlanInv
<1>. QED
  BY <1>1, <1>2, <1>3

LEMMA PlanInductive == PlanningSpec => []PlanInv
BY InitPlanInv, NextPlanInv, PTL DEF PlanningSpec

\* Every row keeps the type of its table.
THEOREM PlanningTypeCorrect == PlanningSpec => []PlanningTypeOK
<1>1. PlanInv => PlanningTypeOK
  BY DEF PlanInv
<1>. QED
  BY <1>1, PlanInductive, PTL

\* README.md, conflict prevention: however saves, cancellations and
\* restorations interleave, no two sessions share a room or a speaker at one
\* time, in whichever spelling their times are stored.
THEOREM ConflictsPrevented == PlanningSpec => []NobodyTwice
<1>1. PlanInv => NobodyTwice
  BY NoClashSuffices DEF PlanInv
<1>. QED
  BY <1>1, PlanInductive, PTL

\* README.md, event edits: a session lies within the dates and the capacity of
\* its event, though the edit of one is checked against the other's old values.
THEOREM SessionsLieInside == PlanningSpec => []SessionsInside
<1>1. PlanInv => SessionsInside
  BY DEF PlanInv
<1>. QED
  BY <1>1, PlanInductive, PTL

\* The inner joins of the public programme drop no published session.
LEMMA JoinsComplete == ASSUME PlanInv PROVE ProgrammeComplete
<1>1. PublicEvent => PublishedSessions = PublicProgramme
  BY DEF PlanInv, Housed, PublishedSessions, PublicProgramme
<1>2. IsFiniteSet(PublishedSessions)
  <2>1. PublishedSessions \in SUBSET Sessions
    BY DEF PublishedSessions, Scheduled
  <2>. QED
    BY <2>1, PlanningAssumption, FS_Subset
<1>3. Cardinality(PublishedSessions) > 0 <=> PublishedSessions # {}
  BY <1>2, FS_EmptySet, FS_CardinalityType
<1>. QED
  BY <1>1, <1>3 DEF ProgrammeComplete, ProgrammePage, EditorPage, Readiness, PublicEvent

THEOREM ProgrammeShown == PlanningSpec => []ProgrammeComplete
BY JoinsComplete, PlanInductive, PTL

\* A session that is booked already is in nobody's way.
LEMMA BookedFits ==
  ASSUME PlanInv, NEW s \in Scheduled, sessions[s].status # "cancelled", NEW to
  PROVE  SessionStatusWritable([session |-> s, status |-> to])
<1>1. New \notin Sessions /\ Scheduled \subseteq Sessions
  BY PlanningAssumption DEF Scheduled
<1>2. s \in Booked(New) /\ \A t \in Booked(s) : t \in Booked(New) /\ t # s
  BY <1>1 DEF Booked
<1>3. ~RoomTaken(sessions[s].room, sessions[s].time, s)
  BY <1>2 DEF RoomTaken, PlanInv, NoClash
<1>4. ~SpeakerTaken(sessions[s].speaker, sessions[s].time, s)
  BY <1>2 DEF SpeakerTaken, PlanInv, NoClash
<1>. QED
  BY <1>3, <1>4 DEF SessionStatusWritable

\* README.md, event edits, and what the editor and the visitors see: the seats of
\* all ticket types and every session fit in the event, whichever requests read
\* the other's old values; the public agenda is complete; and the forms offer
\* nothing a trigger refuses, but for the restoration of a session.
THEOREM PlanStaysInside == PlanningSpec => []PlanInsideEvent
<1>1. ASSUME PlanInv PROVE PlanInsideEvent
  <2>1. ASSUME NEW s \in Scheduled
        PROVE  /\ EditorPage.forms[s].editable
               /\ sessions[s].status # "cancelled" =>
                    \A to \in EditorPage.forms[s].statuses :
                      SessionStatusWritable([session |-> s, status |-> to])
    <3>1. EditorPage.forms[s] = SessionForm(s)
      BY DEF EditorPage
    <3>2. SessionForm(s).editable
      BY <1>1 DEF SessionForm, PlanInv, Housed
    <3>. QED
      BY <1>1, <3>1, <3>2, BookedFits
  <2>. QED
    BY <1>1, <2>1, JoinsComplete DEF PlanInsideEvent, FormsHold, PlanInv, SeatsInside
<1>. QED
  BY <1>1, PlanInductive, PTL

\* An event's status never moves back, though an organizer may act on a status
\* that another has changed.
THEOREM StatusNeverReturns == PlanningSpec => StatusMovesOn
<1>1. ASSUME PlanInv, [Next]_vars
      PROVE  [event.status \notin {"none", event'.status} =>
                event'.status \in Transitions(event.status)]_vars
  <2>1. SUFFICES ASSUME Next, event.status # "none", event'.status # event.status
                 PROVE  event'.status \in Transitions(event.status)
    BY <1>1 DEF vars
  <2>2. PICK w \in Writers :
          \/ Check(w) \/ Reject(w) \/ Abort(w)
          \/ InsertEvent(w) \/ WriteEvent(w) \/ WriteStatus(w)
          \/ WriteTicketType(w)
          \/ WriteRoom(w) \/ WriteSpeaker(w) \/ WriteSession(w) \/ WriteSessionStatus(w)
    BY <2>1 DEF Next
  <2>3. PICK c : c = request[w].command
    OBVIOUS
  <2>4. PICK status \in EventStatus, dates \in Slots, capacity \in Capacities, version \in Nat :
          event = [status |-> status, dates |-> dates, capacity |-> capacity, version |-> version]
    BY <1>1 DEF PlanInv, PlanningTypeOK
  <2>5. CASE WriteStatus(w)
    <3>1. /\ request[w].phase = "checked" /\ c.do = "TransitionEvent" /\ event.status = c.from
          /\ event' = [event EXCEPT !.status = c.to, !.version = @ + 1]
      BY <2>3, <2>5 DEF WriteStatus, Checked, StatusWritable
    <3>2. c.to \in Transitions(c.from)
      BY <1>1, <2>3, <3>1 DEF PlanInv, CheckedInv, StillHolds
    <3>3. event'.status = c.to
      BY <2>4, <3>1
    <3>. QED
      BY <3>1, <3>2, <3>3
  <2>6. CASE WriteEvent(w)
    <3>1. event' = [event EXCEPT !.dates = c.dates, !.capacity = c.capacity, !.version = @ + 1]
      BY <2>3, <2>6 DEF WriteEvent
    <3>2. event'.status = event.status
      BY <2>4, <3>1
    <3>. QED
      BY <2>1, <3>2
  <2>7. CASE InsertEvent(w)
    BY <2>1, <2>7 DEF InsertEvent
  <2>. QED
    BY <2>1, <2>2, <2>5, <2>6, <2>7
      DEF Check, Reject, Abort, WriteTicketType, WriteRoom, WriteSpeaker, WriteSession,
          WriteSessionStatus
<1>. QED
  BY <1>1, PlanInductive, PTL DEF PlanningSpec, StatusMovesOn
=============================================================================
