------------------------------ MODULE EventViews ------------------------------
(***************************************************************************)
(* What the pages of an event tell its managers, staff and attendees: the  *)
(* report (modules/reporting), the orders (modules/orders), the check-in   *)
(* console (modules/check-in), the announcements (modules/communications), *)
(* the attendee hub (modules/attendee) and the tickets on offer            *)
(* (modules/registration).  Every page has queries of its own, and derives *)
(* its figures from different tables.                                      *)
(***************************************************************************)
EXTENDS EventDay

TicketsIn(statuses) == {k \in DOMAIN tickets : tickets[k].status \in statuses}

\* ReportingRepository.loadSummary: counters of the ticket type, and the tickets.
Summary ==
  [capacity  |-> stock.total,
   reserved  |-> stock.reserved,
   sold      |-> stock.sold,
   issued    |-> Cardinality(TicketsIn({"valid", "checked_in"})),
   checkedIn |-> Cardinality(TicketsIn({"checked_in"}))]

\* ReportingService.eventReport: the summary beside the orders by status.
Report ==
  [summary  |-> Summary,
   payments |-> [status \in OrderStatus |-> Cardinality(OrdersIn(status))]]

\* OrdersRepository.listOrders: a row for every order, with the status of its
\* ticket if it has one.
OrderRows ==
  [k \in DOMAIN orders |->
     [status |-> orders[k].status,
      ticket |-> IF k \in DOMAIN tickets THEN tickets[k].status ELSE "none"]]

\* CheckInService.console: cancelled tickets are counted as issued too.
Console ==
  [issued    |-> Cardinality(DOMAIN tickets),
   checkedIn |-> Cardinality(TicketsIn({"checked_in"})),
   activity  |-> {k \in Keys : audit[k] # << >>}]

\* CheckInService.lookup: what staff see of a ticket before they act.
Preview(k) == Credential(k)

\* WaitlistRepository.listEntries: a row for every address that joined.
WaitlistRows == [e \in {x \in Emails : waitlist[x] # "none"} |-> waitlist[e]]

\* CommunicationsRepository.listAnnouncements: the messages of the announcement.
Announcement ==
  LET mails == {m \in DOMAIN outbox : m[1] = "news"} IN
  [recipients |-> Cardinality(mails),
   delivered  |-> Cardinality({m \in mails : outbox[m] = "sent"}),
   waiting    |-> Cardinality({m \in mails : outbox[m] = "pending"})]

\* AttendeeService.dashboard: the tickets of paid orders, and what was sent.
Hub(e) ==
  [tickets  |-> {k \in DOMAIN tickets : EmailOf[k] = e /\ orders[k].status = "paid"},
   messages |-> {m \in DOMAIN outbox : Recipient(m) = e /\ outbox[m] = "sent"}]

\* AttendeeRepository.findTicket: a ticket is found through its paid order.
FindTicket(e) == {k \in DOMAIN tickets : EmailOf[k] = e /\ orders[k].status = "paid"}

\* RegistrationRepository.listAvailable.
Offered == IF stock.onSale THEN Available ELSE 0

------------------------------------------------------------------------------
(* What the pages show, and which operations they offer.                   *)

\* percentage: rounded, and 0% of nothing.
percentage(value, total) ==
  IF total = 0 THEN 0 ELSE (200 * value + total) \div (2 * total)

\* RevenueValue: a dash until something is paid.
RevenueShown == Report.payments["paid"] > 0

\* TicketRow: what remains is derived from the other three figures.
Remaining == Summary.capacity - Summary.sold - Summary.reserved

\* The highlights of EventReportPage.
ReportPage ==
  [inventory  |-> percentage(Summary.sold, Summary.capacity),
   attendance |-> percentage(Summary.checkedIn, Summary.issued)]

\* OrdersPage: the orders beside which a refund is offered.
Refundable == {k \in DOMAIN OrderRows : OrderRows[k].status = "paid"}

\* WaitlistPage: the entries that can still be notified.
Notifiable == {e \in DOMAIN WaitlistRows : WaitlistRows[e] = "waiting"}

\* CommunicationsPage: a draft can be sent, and a sent announcement again while
\* messages of it are pending.
Sendable == news = "draft" \/ (news = "sent" /\ Announcement.waiting > 0)

\* CheckInConsolePage: the tickets that staff still wait for.
ConsoleRemaining == Console.issued - Console.checkedIn

\* AttendeeDashboardPage: a card, with a link to its page, for every ticket of
\* the session's address; without a session, access is denied.
DashboardPage(e) ==
  IF HasSession(e) THEN [k \in Hub(e).tickets |-> tickets[k].status] ELSE << >>

\* AttendeeTicketPage: TicketNotFound or the credential with its status.
TicketPage(e, k) == IF k \in FindTicket(e) THEN tickets[k].status ELSE "notFound"

\* RegistrationPage: types with seats can be chosen, the others waited for.
RegistrationPage ==
  [choose |-> stock.onSale /\ Offered > 0, wait |-> stock.onSale /\ Offered = 0]

\* RegistrationForm: the form asks the active questions, insists on the required
\* ones and lets a buyer choose only what is an option.
FilledForms ==
  {f \in Forms : \A q \in Questions :
     IF q \notin Asked THEN f.answers[q] = "absent"
     ELSE f.answers[q] \in IF q \in Required THEN {"good"} ELSE {"good", "blank"}}

------------------------------------------------------------------------------
(* Properties.                                                             *)

\* The figures of different pages agree wherever they mean the same: what is
\* sold is what is paid for and what is issued, the console's issued tickets are
\* the report's and the refunded ones, everyone checked in is in the console's
\* activity, and nothing is oversold or more than fully attended.
FiguresAgree ==
  /\ Summary.sold = Report.payments["paid"]
  /\ Summary.issued = Summary.sold
  /\ Summary.reserved = Held + Report.payments["pending"]
  /\ Summary.checkedIn = Console.checkedIn
  /\ Console.issued = Summary.issued + Report.payments["refunded"]
  /\ ConsoleRemaining =
       Cardinality(TicketsIn({"valid"})) + Report.payments["refunded"]
  /\ TicketsIn({"checked_in"}) \subseteq Console.activity
  /\ RevenueShown <=> TicketsIn({"valid", "checked_in"}) # {}
  /\ Remaining >= 0
  /\ stock.onSale => Offered = Remaining
  /\ ReportPage.inventory <= 100 /\ ReportPage.attendance <= 100

\* Attendees see exactly the tickets that can still be used, with the status
\* the staff's preview shows; every link of a dashboard opens a ticket.
TicketsAgree ==
  /\ UNION {Hub(e).tickets : e \in Emails} = TicketsIn({"valid", "checked_in"})
  /\ \A k \in DOMAIN orders :
       OrderRows[k].ticket = "none" <=> OrderRows[k].status \in {"pending", "failed"}
  /\ \A k \in Keys :
       TicketPage(EmailOf[k], k) =
         IF Preview(k) = "cancelled" THEN "notFound" ELSE Preview(k)
  /\ \A e \in Emails :
       DashboardPage(e) = [k \in {j \in Keys : TicketPage(e, j) # "notFound"} |->
                             TicketPage(e, k)]

\* What a page offers, the transaction behind it accepts, as long as nothing
\* comes between: a refund is offered for every ticket that can be used, an
\* entry can be notified while it has no message, an announcement can be sent
\* again until all of it was delivered, a buyer can choose a type or wait for it
\* but never both, and a form filled in as the page asks is admitted.
OffersHold ==
  /\ Refundable = TicketsIn({"valid", "checked_in"})
  /\ Notifiable = {e \in DOMAIN WaitlistRows : WaitlistMail(e) \notin DOMAIN outbox}
  /\ {m[2] : m \in {n \in DOMAIN outbox : n[1] = "waitlist"}} =
       {e \in DOMAIN WaitlistRows : WaitlistRows[e] = "notified"}
  /\ \A a \in Audiences : Shown(a) = Recipients(a)
  /\ Announcement.recipients = Announcement.delivered + Announcement.waiting
  /\ news = "sent" /\ ~Sendable =>
       \A m \in DOMAIN outbox : m[1] = "news" => m \in delivered
  /\ stock.onSale => (RegistrationPage.choose <=> ~RegistrationPage.wait)
  /\ RegistrationPage.choose =>
       \A f \in FilledForms : (f.coupon => Redeemable) => Admitted(f)

\* The pages agree with each other and with the operations they offer, however
\* orders, refunds, check-ins and mail interleave.
ViewsAgree == FiguresAgree /\ TicketsAgree /\ OffersHold
=============================================================================
