------------------------------ MODULE TicketSales ------------------------------
(***************************************************************************)
(* Selling one ticket type of the event platform: checkouts that reserve a *)
(* seat, pay and complete (modules/registration), refunds (modules/orders),*)
(* the questions a checkout must answer (modules/registration-settings)    *)
(* and the organizer's changes of the type (modules/event-authoring).      *)
(*                                                                         *)
(* A transaction of the SQLite database is one step; between two of them a *)
(* request holds what it read, so requests of one idempotency key overtake *)
(* each other.  A request can be interrupted where the service allows it,  *)
(* and the process can stop: the database survives, the requests do not.   *)
(* Rows are partial functions: a key in DOMAIN orders has an order.        *)
(***************************************************************************)
EXTENDS Naturals, FiniteSets

CONSTANTS
  Keys,            \* idempotency keys: one per checkout a buyer starts
  Requests,        \* server requests that can be under way at a time
  Forms,           \* what a buyer can submit (the checkout fingerprint)
  Questions,       \* registration questions the organizer can ask
  Required,        \* those that must be answered
  TicketIds,       \* random ids of issued tickets
  Held,            \* seats of the type reserved outside of any order
  MaxTotal,        \* bound: largest quantity_total an organizer enters
  MaxRedemptions   \* max_redemptions of the discount code

Answers == {"absent", "blank", "good", "notAnOption"}

ASSUME FormsAssumption ==
  Forms \subseteq [coupon : BOOLEAN, pays : BOOLEAN,
                   answers : [Questions -> Answers]]

ASSUME SalesAssumption ==
  /\ IsFiniteSet(Keys)
  /\ Required \subseteq Questions
  /\ Held \in Nat
  /\ MaxTotal \in Nat
  /\ MaxRedemptions \in Nat
  /\ IsFiniteSet(TicketIds)

VARIABLES
  stock,       \* row of ticket_types: quantities and whether it is on sale
  redeemed,    \* discount_codes.redeemed_count
  questions,   \* status of each registration question
  orders,      \* orders[k]: the order of idempotency key k
  tickets,     \* tickets[k]: the ticket of the order of k
  requests,    \* requests[r]: the checkout that request r is working on
  charged,     \* keys the payment provider has taken money for
  answer,      \* what the last step told a buyer
  receipts     \* every receipt a buyer was ever given

salesVars == <<stock, redeemed, questions, orders, tickets, requests,
               charged, answer, receipts>>

OrderStatus == {"pending", "paid", "failed", "refunded"}
TicketStatus == {"valid", "checked_in", "cancelled"}
QuestionStatus == {"unasked", "active", "archived"}
Refusals == {"notOnSale", "badAnswers", "soldOut", "badDiscount",
             "declined", "conflict", "defect"}

\* Rows.  Every order is for one ticket of the type.
Stock == [total : Nat, reserved : Nat, sold : Nat, onSale : BOOLEAN]
Order == [status : OrderStatus, form : Forms]
Ticket == [id : TicketIds, status : TicketStatus]

Silent == [told |-> "nothing"]
Refuse(why) == [told |-> why]
Receipt(k, id) == [told |-> "receipt", key |-> k, ticket |-> id]

Put(f, x, v) == [y \in DOMAIN f \union {x} |-> IF y = x THEN v ELSE f[y]]
Drop(f, x) == [y \in DOMAIN f \ {x} |-> f[y]]
Dec(n) == IF n > 0 THEN n - 1 ELSE 0

OrdersIn(status) == {k \in DOMAIN orders : orders[k].status = status}

\* The types of the summit, one of them with all of its seats held back.
SeededStock ==
  {s \in [total : 1..MaxTotal, reserved : {Held}, sold : {0}, onSale : BOOLEAN] :
     s.total >= Held}

SeededQuestions == [Questions -> {"unasked", "active"}]

SalesInit ==
  /\ stock \in SeededStock
  /\ redeemed = 0
  /\ questions \in SeededQuestions
  /\ orders = << >>
  /\ tickets = << >>
  /\ requests = << >>
  /\ charged = {}
  /\ answer = Silent
  /\ receipts = {}

------------------------------------------------------------------------------
(* reserveOrder: one transaction that replays, refuses or reserves.        *)

Asked == {q \in Questions : questions[q] = "active"}

\* The answers of a form against the questions that are active now.
AnswersInvalid(f) ==
  \/ \E q \in Questions \ Asked : f.answers[q] # "absent"
  \/ \E q \in Asked :
       \/ q \in Required /\ f.answers[q] \in {"absent", "blank"}
       \/ f.answers[q] = "notAnOption"

\* The fingerprint of the stored order is that of the form.
SameCheckout(k, f) == orders[k].form = f

Available == stock.total - (stock.reserved + stock.sold)

Redeemable == redeemed < MaxRedemptions

\* The service's verdict on an order it finds or did not bring to "paid".
\* orderReceipt gives a receipt for a paid order only.
Verdict(k) ==
  CASE orders[k].status = "paid"   -> Receipt(k, tickets[k].id)
    [] orders[k].status = "failed" -> Refuse("declined")
    [] OTHER                       -> Refuse("conflict")

\* A retry: the key has an order, whatever became of the sale since.
ReplayOrder(r, k, f) ==
  /\ r \notin DOMAIN requests
  /\ k \in DOMAIN orders
  /\ IF ~SameCheckout(k, f)
     THEN answer' = Refuse("conflict") /\ UNCHANGED requests
     ELSE IF orders[k].status = "pending"
     THEN /\ requests' = Put(requests, r, [at |-> "reserved", key |-> k])
          /\ answer' = Silent
     ELSE answer' = Verdict(k) /\ UNCHANGED requests
  /\ receipts' = receipts \union
       (IF answer'.told = "receipt" THEN {<<k, answer'.ticket>>} ELSE {})
  /\ UNCHANGED <<stock, redeemed, questions, orders, tickets, charged>>

\* Why a new checkout is turned away, in the order of the transaction.  A
\* refused discount gives back the seat it had just reserved.
Refusal(f) ==
  CASE ~stock.onSale                        -> "notOnSale"
    [] stock.onSale /\ AnswersInvalid(f)    -> "badAnswers"
    [] stock.onSale /\ ~AnswersInvalid(f)
       /\ ~(stock.reserved + stock.sold < stock.total) -> "soldOut"
    [] OTHER                                -> "badDiscount"

Admitted(f) ==
  /\ stock.onSale
  /\ ~AnswersInvalid(f)
  /\ stock.reserved + stock.sold < stock.total
  /\ f.coupon => Redeemable

RefuseOrder(r, k, f) ==
  /\ r \notin DOMAIN requests
  /\ k \notin DOMAIN orders
  /\ ~Admitted(f)
  /\ answer' = Refuse(Refusal(f))
  /\ UNCHANGED <<stock, redeemed, questions, orders, tickets, requests,
                 charged, receipts>>

ReserveOrder(r, k, f) ==
  /\ r \notin DOMAIN requests
  /\ k \notin DOMAIN orders
  /\ Admitted(f)
  /\ stock' = [stock EXCEPT !.reserved = @ + 1]
  /\ redeemed' = IF f.coupon THEN redeemed + 1 ELSE redeemed
  /\ orders' = Put(orders, k, [status |-> "pending", form |-> f])
  /\ requests' = Put(requests, r, [at |-> "reserved", key |-> k])
  /\ answer' = Silent
  /\ UNCHANGED <<questions, tickets, charged, receipts>>

------------------------------------------------------------------------------
(* The payment and what follows it, in the service.                        *)

\* Mutant of FailOrder: whatever became of the order, its seat is released.
FailOrderAgain(k) ==
  /\ orders' = [orders EXCEPT ![k].status = "failed"]
  /\ stock' = [stock EXCEPT !.reserved = Dec(@)]
  /\ redeemed' = IF orders[k].form.coupon THEN Dec(redeemed) ELSE redeemed

\* Mutant of FailOrder: the discount code stays used.
FailOrderKeepingCode(k) ==
  IF orders[k].status = "pending"
  THEN /\ orders' = [orders EXCEPT ![k].status = "failed"]
       /\ stock' = [stock EXCEPT !.reserved = Dec(@)]
       /\ UNCHANGED redeemed
  ELSE UNCHANGED <<orders, stock, redeemed>>

\* failOrder: a pending order gives its seat and its redemption back.
FailOrder(k) ==
  IF orders[k].status = "pending"
  THEN /\ orders' = [orders EXCEPT ![k].status = "failed"]
       /\ stock' = [stock EXCEPT !.reserved = Dec(@)]
       /\ redeemed' = IF orders[k].form.coupon THEN Dec(redeemed) ELSE redeemed
  ELSE UNCHANGED <<orders, stock, redeemed>>

\* The provider takes the money.  From here the request is uninterruptible.
Charge(r) ==
  /\ r \in DOMAIN requests
  /\ requests[r].at = "reserved"
  /\ orders[requests[r].key].form.pays
  /\ charged' = charged \union {requests[r].key}
  /\ requests' = [requests EXCEPT ![r].at = "charged"]
  /\ answer' = Silent
  /\ UNCHANGED <<stock, redeemed, questions, orders, tickets, receipts>>

Decline(r) ==
  /\ r \in DOMAIN requests
  /\ requests[r].at = "reserved"
  /\ ~orders[requests[r].key].form.pays
  /\ FailOrder(requests[r].key)
  /\ requests' = Drop(requests, r)
  /\ answer' = Refuse("declined")
  /\ UNCHANGED <<questions, tickets, charged, receipts>>

\* The request is interrupted while it waits for the provider, which may
\* have taken the money already.
InterruptCharge(r) ==
  /\ r \in DOMAIN requests
  /\ requests[r].at = "reserved"
  /\ FailOrder(requests[r].key)
  /\ charged' \in {charged} \union
       (IF orders[requests[r].key].form.pays
        THEN {charged \union {requests[r].key}} ELSE {})
  /\ requests' = Drop(requests, r)
  /\ answer' = Silent
  /\ UNCHANGED <<questions, tickets, receipts>>

\* The request is interrupted between the reservation and the charge: nothing
\* is released, and the order waits for a retry of its key.
AbandonReservation(r) ==
  /\ r \in DOMAIN requests
  /\ requests[r].at = "reserved"
  /\ requests' = Drop(requests, r)
  /\ answer' = Silent
  /\ UNCHANGED <<stock, redeemed, questions, orders, tickets, charged, receipts>>

\* issueCredential: a random id is one no ticket has.
FreshIds == TicketIds \ {tickets[j].id : j \in DOMAIN tickets}

\* Mutant of CompleteOrder: every charge issues a ticket.
CompleteAgain(r) ==
  /\ r \in DOMAIN requests
  /\ requests[r].at = "charged"
  /\ LET k == requests[r].key IN
     \E id \in FreshIds :
       /\ orders' = [orders EXCEPT ![k].status = "paid"]
       /\ stock' = [stock EXCEPT !.reserved = Dec(@), !.sold = @ + 1]
       /\ tickets' = Put(tickets, k, [id |-> id, status |-> "valid"])
       /\ answer' = Receipt(k, id)
       /\ receipts' = receipts \union {<<k, id>>}
  /\ requests' = Drop(requests, r)
  /\ UNCHANGED <<redeemed, questions, charged>>

\* completeOrder: the pending order is paid and its ticket issued, or the
\* order is found as another request left it.  An order without reserved
\* stock is a defect that rolls the transaction back.
CompleteOrder(r) ==
  /\ r \in DOMAIN requests
  /\ requests[r].at = "charged"
  /\ LET k == requests[r].key IN
     /\ IF orders[k].status = "pending" /\ stock.reserved > 0
        THEN \E id \in FreshIds :
               /\ orders' = [orders EXCEPT ![k].status = "paid"]
               /\ stock' = [stock EXCEPT !.reserved = @ - 1, !.sold = @ + 1]
               /\ tickets' = Put(tickets, k, [id |-> id, status |-> "valid"])
               /\ answer' = Receipt(k, id)
        ELSE /\ UNCHANGED <<orders, stock, tickets>>
             /\ answer' = IF orders[k].status = "pending" THEN Refuse("defect")
                          ELSE IF orders[k].status = "paid" THEN Verdict(k)
                          ELSE Refuse("conflict")
     /\ receipts' = receipts \union
          (IF answer'.told = "receipt" THEN {<<k, answer'.ticket>>} ELSE {})
  /\ requests' = Drop(requests, r)
  /\ UNCHANGED <<redeemed, questions, charged>>

\* The process stops; the database is durable.
Crash ==
  /\ requests # << >>
  /\ requests' = << >>
  /\ answer' = Silent
  /\ UNCHANGED <<stock, redeemed, questions, orders, tickets, charged, receipts>>

------------------------------------------------------------------------------
(* Organizers.                                                             *)

\* Mutant of Refund: only a ticket that was not used is cancelled.
RefundUnused(k) ==
  /\ k \in DOMAIN orders
  /\ orders[k].status = "paid"
  /\ orders' = [orders EXCEPT ![k].status = "refunded"]
  /\ stock' = [stock EXCEPT !.sold = Dec(@)]
  /\ tickets' = IF tickets[k].status = "valid"
                THEN [tickets EXCEPT ![k].status = "cancelled"] ELSE tickets
  /\ answer' = Silent
  /\ UNCHANGED <<redeemed, questions, requests, charged, receipts>>

\* Mutant of Refund: the tickets are left to the door.
RefundOrderOnly(k) ==
  /\ k \in DOMAIN orders
  /\ orders[k].status = "paid"
  /\ orders' = [orders EXCEPT ![k].status = "refunded"]
  /\ stock' = [stock EXCEPT !.sold = Dec(@)]
  /\ answer' = Silent
  /\ UNCHANGED <<redeemed, questions, tickets, requests, charged, receipts>>

\* A refund returns the seat and cancels the ticket; the redemption of a
\* discount code stays used.
Refund(k) ==
  /\ k \in DOMAIN orders
  /\ orders[k].status = "paid"
  /\ orders' = [orders EXCEPT ![k].status = "refunded"]
  /\ stock' = [stock EXCEPT !.sold = Dec(@)]
  /\ tickets' = IF k \in DOMAIN tickets
                THEN [tickets EXCEPT ![k].status = "cancelled"] ELSE tickets
  /\ answer' = Silent
  /\ UNCHANGED <<redeemed, questions, requests, charged, receipts>>

\* Mutant of ResizeTicketType: reserved seats are not counted.
ResizeToSold ==
  /\ \E n \in 1..MaxTotal :
       /\ n >= stock.sold
       /\ stock' = [stock EXCEPT !.total = n]
  /\ answer' = Silent
  /\ UNCHANGED <<redeemed, questions, orders, tickets, requests, charged, receipts>>

\* saveTicketType: the new total must hold what is reserved and sold.
ResizeTicketType ==
  /\ \E n \in 1..MaxTotal :
       /\ n >= stock.reserved + stock.sold
       /\ stock' = [stock EXCEPT !.total = n]
  /\ answer' = Silent
  /\ UNCHANGED <<redeemed, questions, orders, tickets, requests, charged, receipts>>

\* The type is hidden or shown, its sales window opens or closes, or the
\* event leaves "published".
ChangeSale ==
  /\ stock' = [stock EXCEPT !.onSale = ~@]
  /\ answer' = Silent
  /\ UNCHANGED <<redeemed, questions, orders, tickets, requests, charged, receipts>>

CreateQuestion(q) ==
  /\ questions[q] = "unasked"
  /\ questions' = [questions EXCEPT ![q] = "active"]
  /\ answer' = Silent
  /\ UNCHANGED <<stock, redeemed, orders, tickets, requests, charged, receipts>>

ArchiveQuestion(q) ==
  /\ questions[q] = "active"
  /\ questions' = [questions EXCEPT ![q] = "archived"]
  /\ answer' = Silent
  /\ UNCHANGED <<stock, redeemed, orders, tickets, requests, charged, receipts>>

------------------------------------------------------------------------------
Submit ==
  \E r \in Requests, k \in Keys, f \in Forms :
    ReplayOrder(r, k, f) \/ RefuseOrder(r, k, f) \/ ReserveOrder(r, k, f)

Progress(r) ==
  Charge(r) \/ Decline(r) \/ InterruptCharge(r) \/ AbandonReservation(r) \/ CompleteOrder(r)

Organize ==
  \/ \E k \in Keys : Refund(k)
  \/ ResizeTicketType
  \/ ChangeSale
  \/ \E q \in Questions : CreateQuestion(q) \/ ArchiveQuestion(q)

SalesNext ==
  \/ Submit
  \/ \E r \in Requests : Progress(r)
  \/ Crash
  \/ Organize

SalesSpec == SalesInit /\ [][SalesNext]_salesVars

------------------------------------------------------------------------------
(* Properties.                                                             *)

SalesTypeOK ==
  /\ stock \in Stock
  /\ redeemed \in Nat
  /\ questions \in [Questions -> QuestionStatus]
  /\ DOMAIN orders \subseteq Keys
  /\ \A k \in DOMAIN orders : orders[k] \in Order
  /\ DOMAIN tickets \subseteq Keys
  /\ \A k \in DOMAIN tickets : tickets[k] \in Ticket
  /\ DOMAIN requests \subseteq Requests
  /\ \A r \in DOMAIN requests :
       requests[r] \in [at : {"reserved", "charged"}, key : DOMAIN orders]
  /\ charged \subseteq Keys

\* The counters of the row are the orders they stand for: every pending order
\* has one reserved seat and every paid one a sold seat, across retries,
\* interruptions, crashes and refunds, and the type is never oversold.
InventoryExact ==
  /\ stock.reserved = Held + Cardinality(OrdersIn("pending"))
  /\ stock.sold = Cardinality(OrdersIn("paid"))
  /\ stock.reserved + stock.sold <= stock.total

\* A redemption is counted once for every order that used the code and did
\* not fail, and the limit of the code holds.
RedemptionsExact ==
  /\ redeemed = Cardinality({k \in DOMAIN orders :
                   orders[k].form.coupon /\ orders[k].status # "failed"})
  /\ redeemed <= MaxRedemptions

\* A ticket exists exactly for an order that was paid, is cancelled exactly
\* when the order was refunded, and was never issued without a charge.
TicketsFollowOrders ==
  /\ DOMAIN tickets = OrdersIn("paid") \union OrdersIn("refunded")
  /\ \A k \in DOMAIN tickets :
       (tickets[k].status = "cancelled") <=> (orders[k].status = "refunded")
  /\ DOMAIN tickets \subseteq charged

\* However many requests of one key complete, all receipts name the one
\* ticket of its order, and no two orders share a ticket.
ReceiptsAgree ==
  /\ \A x \in receipts : x[1] \in DOMAIN tickets /\ x[2] = tickets[x[1]].id
  /\ \A j, k \in DOMAIN tickets : tickets[j].id = tickets[k].id => j = k

\* A buyer who repeats a paid checkout gets the receipt again, even when the
\* tickets sold out, the sale ended or the questions changed meanwhile.
ReplayReturnsReceipt ==
  [][\A r \in Requests, k \in Keys, f \in Forms :
       /\ k \in DOMAIN orders /\ orders[k].status = "paid" /\ orders[k].form = f
       /\ ReplayOrder(r, k, f) \/ RefuseOrder(r, k, f) \/ ReserveOrder(r, k, f)
       => answer' = Receipt(k, tickets[k].id)]_salesVars

\* The sale implements the ledger of seats: what the counters admit is what
\* counting the orders would.
Ledger == INSTANCE SeatLedger WITH
  capacity <- stock.total,
  seat <- [k \in Keys |->
             IF k \notin DOMAIN orders THEN "none"
             ELSE CASE orders[k].status = "pending" -> "held"
                    [] orders[k].status = "paid"    -> "sold"
                    [] OTHER                        -> "released"]

KeepsLedger == Ledger!LedgerSpec
=============================================================================
