------------------------------- MODULE EventDay -------------------------------
(***************************************************************************)
(* What happens to tickets once they are sold: staff at the door check     *)
(* them in and undo it (modules/check-in), managers refund orders, notify  *)
(* the waiting list and announce news (modules/orders, waitlist,           *)
(* communications), and attendees open their dashboard                     *)
(* (modules/attendee).  All of them share the tickets and the email outbox.*)
(*                                                                         *)
(* A service writes its records and the message in one transaction, then   *)
(* delivers the message and marks it sent in a statement of its own, so    *)
(* another sender of the same message can come between the two.            *)
(***************************************************************************)
EXTENDS TicketSales, Sequences

CONSTANTS
  Staff,         \* requests of check-in staff under way at a time
  Senders,       \* requests that deliver mail under way at a time
  EmailOf,       \* EmailOf[k]: the buyer and ticket holder of checkout k
  MaxScans       \* bound: changes of one ticket at the door

Emails == {EmailOf[k] : k \in Keys}
Audiences == {"all_attendees", "checked_in", "not_checked_in"}
WaitlistStatus == {"none", "waiting", "notified"}
NewsStatus == {"none", "draft", "sent"}

VARIABLES
  scans,         \* scans[s]: the transition that staff request s has decided on
  audit,         \* audit[k]: the actions of the ticket's check_in_events, in order
  waitlist,      \* status of each address on the waiting list
  news,          \* status of the announcement
  outbox,        \* outbox[m]: status of message m
  delivered,     \* messages that were handed to the email gateway
  senders        \* senders[w]: the messages request w still has to deliver

doorVars == <<scans, audit>>
mailVars == <<waitlist, news, outbox, delivered, senders>>
dayVars == <<salesVars, doorVars, mailVars>>

TicketMail(k) == <<"ticket", k>>
RefundMail(k) == <<"refund", k>>
WaitlistMail(e) == <<"waitlist", e>>
NewsMail(e) == <<"news", e>>

Mails == ({"ticket", "refund"} \X Keys) \union ({"waitlist", "news"} \X Emails)

Recipient(m) == IF m[1] \in {"ticket", "refund"} THEN EmailOf[m[2]] ELSE m[2]

Pending == {m \in DOMAIN outbox : outbox[m] = "pending"}

Queue(ms) == [m \in DOMAIN outbox \union ms |->
                IF m \in DOMAIN outbox THEN outbox[m] ELSE "pending"]

DayInit ==
  /\ SalesInit
  /\ scans = << >>
  /\ audit = [k \in Keys |-> << >>]
  /\ waitlist = [e \in Emails |-> "none"]
  /\ news = "none"
  /\ outbox = << >>
  /\ delivered = {}
  /\ senders = << >>

------------------------------------------------------------------------------
(* The sale.  completeOrder queues the ticket's email in its transaction.  *)
(* The organizer's changes of the type are left to TicketSales.            *)

Sell ==
  /\ \/ Submit
     \/ \E r \in Requests : Progress(r)
  /\ outbox' = Queue({TicketMail(k) : k \in DOMAIN tickets' \ DOMAIN tickets})
  /\ UNCHANGED <<doorVars, waitlist, news, delivered, senders>>

------------------------------------------------------------------------------
(* The door.                                                               *)

From(op) == IF op = "check_in" THEN "valid" ELSE "checked_in"
To(op) == IF op = "check_in" THEN "checked_in" ELSE "valid"

\* findCredential: the status of the ticket that a code names, if any does.
Credential(k) == IF k \in DOMAIN tickets THEN tickets[k].status ELSE "notFound"

\* What staff are told about a ticket in a status they cannot act on.
NothingToDo(op, status) ==
  CASE status = "notFound"                        -> "notFound"
    [] op = "undo" /\ status # "notFound"         -> "notCheckedIn"
    [] op = "check_in" /\ status = "checked_in"   -> "alreadyCheckedIn"
    [] op = "check_in" /\ status = "cancelled"    -> "ticketCancelled"

\* The staff request reads the credential and answers at once when there is
\* nothing to do, or decides on a transition.
Scan(s, op, k) ==
  /\ s \notin DOMAIN scans
  /\ Len(audit[k]) < MaxScans
  /\ IF Credential(k) = From(op)
     THEN /\ scans' = Put(scans, s, [op |-> op, key |-> k])
          /\ answer' = Silent
     ELSE /\ UNCHANGED scans
          /\ answer' = [told |-> NothingToDo(op, Credential(k))]
  /\ UNCHANGED <<stock, redeemed, questions, orders, tickets, requests, charged,
                 receipts, audit, mailVars>>

\* Mutant of Transition: the status that was read is taken for the present one.
TransitionAnyway(s) ==
  /\ s \in DOMAIN scans
  /\ LET k == scans[s].key  op == scans[s].op IN
     /\ tickets' = [tickets EXCEPT ![k].status = To(op)]
     /\ audit' = [audit EXCEPT ![k] = Append(@, op)]
     /\ answer' = [told |-> To(op)]
  /\ scans' = Drop(scans, s)
  /\ UNCHANGED <<stock, redeemed, questions, orders, requests, charged, receipts,
                 mailVars>>

\* transitionCredential: the ticket changes, with its audit entry, when it
\* still has the status the request has read.  The entry's id is made of the
\* ticket and the time, so a second entry of one millisecond fails, and the
\* transition with it; any entry after the first may be that late.
Transition(s) ==
  /\ s \in DOMAIN scans
  /\ LET k == scans[s].key  op == scans[s].op IN
     \/ /\ tickets[k].status = From(op)
        /\ tickets' = [tickets EXCEPT ![k].status = To(op)]
        /\ audit' = [audit EXCEPT ![k] = Append(@, op)]
        /\ answer' = [told |-> To(op)]
     \/ /\ tickets[k].status = From(op)
        /\ audit[k] # << >>
        /\ answer' = [told |-> "unavailable"]
        /\ UNCHANGED <<tickets, audit>>
     \/ /\ tickets[k].status # From(op)
        /\ answer' = [told |-> "concurrentUpdate"]
        /\ UNCHANGED <<tickets, audit>>
  /\ scans' = Drop(scans, s)
  /\ UNCHANGED <<stock, redeemed, questions, orders, requests, charged, receipts,
                 mailVars>>

------------------------------------------------------------------------------
(* Mail.                                                                   *)

\* A request sets out to deliver a set of messages, or has nothing to do.
SetOut(w, job, ms) ==
  senders' = IF ms = {} THEN senders
             ELSE Put(senders, w, [job |-> job, todo |-> ms, handed |-> {}])

\* OrdersService.refund: the refund and its message in one transaction.
RefundOrder(w, k) ==
  /\ w \notin DOMAIN senders
  /\ Refund(k)
  /\ outbox' = Queue({RefundMail(k)})
  /\ SetOut(w, "refund", {RefundMail(k)})
  /\ UNCHANGED <<doorVars, waitlist, news, delivered>>

\* Mutant of JoinWaitlist: an address can join again.
JoinAgain(e) ==
  /\ stock.onSale
  /\ ~(Available > 0)
  /\ waitlist' = [waitlist EXCEPT ![e] = "waiting"]
  /\ answer' = Silent
  /\ UNCHANGED <<stock, redeemed, questions, orders, tickets, requests, charged,
                 receipts, doorVars, news, outbox, delivered, senders>>

\* A sold out type can be waited for, once per address.
JoinWaitlist(e) ==
  /\ stock.onSale
  /\ ~(Available > 0)
  /\ waitlist[e] = "none"
  /\ waitlist' = [waitlist EXCEPT ![e] = "waiting"]
  /\ answer' = Silent
  /\ UNCHANGED <<stock, redeemed, questions, orders, tickets, requests, charged,
                 receipts, doorVars, news, outbox, delivered, senders>>

NotifyWaitlist(w, e) ==
  /\ w \notin DOMAIN senders
  /\ waitlist[e] = "waiting"
  /\ waitlist' = [waitlist EXCEPT ![e] = "notified"]
  /\ outbox' = Queue({WaitlistMail(e)})
  /\ SetOut(w, "waitlist", {WaitlistMail(e)})
  /\ answer' = Silent
  /\ UNCHANGED <<stock, redeemed, questions, orders, tickets, requests, charged,
                 receipts, doorVars, news, delivered>>

\* The holders an announcement goes to: paid orders, by ticket status.
Addressed(audience) ==
  CASE audience = "all_attendees"  -> {"valid", "checked_in"}
    [] audience = "checked_in"     -> {"checked_in"}
    [] audience = "not_checked_in" -> {"valid"}

Recipients(audience) ==
  {EmailOf[k] : k \in {j \in DOMAIN tickets :
     orders[j].status = "paid" /\ tickets[j].status \in Addressed(audience)}}

\* What the manager is shown before sending, counted without the orders.
Shown(audience) ==
  {EmailOf[k] : k \in {j \in DOMAIN tickets : tickets[j].status \in Addressed(audience)}}

\* A draft can be written, and written again, until it is sent; what it says
\* and whom it addresses is then that of its last version.
SaveDraft ==
  /\ news # "sent"
  /\ news' = "draft"
  /\ answer' = Silent
  /\ UNCHANGED <<stock, redeemed, questions, orders, tickets, requests, charged,
                 receipts, doorVars, waitlist, outbox, delivered, senders>>

\* queueAnnouncement: a draft is queued for its recipients; sending it again
\* takes up the messages that are still pending.
SendAnnouncement(w, audience) ==
  /\ w \notin DOMAIN senders
  /\ news # "none"
  /\ IF news = "draft"
     THEN LET ms == {NewsMail(e) : e \in Recipients(audience)} IN
          /\ news' = "sent"
          /\ outbox' = Queue(ms)
          /\ SetOut(w, "news", ms)
     ELSE /\ UNCHANGED <<news, outbox>>
          /\ SetOut(w, "news", {m \in Pending : m[1] = "news"})
  /\ answer' = Silent
  /\ UNCHANGED <<stock, redeemed, questions, orders, tickets, requests, charged,
                 receipts, doorVars, waitlist, delivered>>

\* Completing an order of the address has opened a session for it.
HasSession(e) == \E k \in DOMAIN tickets : EmailOf[k] = e

\* AttendeeService.dashboard delivers what is pending for the address.
OpenDashboard(w, e) ==
  /\ w \notin DOMAIN senders
  /\ HasSession(e)
  /\ SetOut(w, "dashboard", {m \in Pending : Recipient(m) = e})
  /\ answer' = Silent
  /\ UNCHANGED <<stock, redeemed, questions, orders, tickets, requests, charged,
                 receipts, doorVars, waitlist, news, outbox, delivered>>

Deliver(w) ==
  /\ w \in DOMAIN senders
  /\ senders[w].handed = {}
  /\ \E m \in senders[w].todo :
       /\ delivered' = delivered \union {m}
       /\ senders' = [senders EXCEPT ![w].handed = {m}]
  /\ answer' = Silent
  /\ UNCHANGED <<stock, redeemed, questions, orders, tickets, requests, charged,
                 receipts, doorVars, waitlist, news, outbox>>

\* Mutant of MarkEmailSent: the message is marked before it is handed over.
MarkFirst(w) ==
  /\ w \in DOMAIN senders
  /\ \E m \in senders[w].todo :
       LET rest == senders[w].todo \ {m} IN
       /\ outbox' = [outbox EXCEPT ![m] = "sent"]
       /\ senders' = IF rest = {} THEN Drop(senders, w)
                     ELSE [senders EXCEPT ![w].todo = rest, ![w].handed = {}]
       /\ answer' = Silent
  /\ UNCHANGED <<stock, redeemed, questions, orders, tickets, requests, charged,
                 receipts, doorVars, waitlist, news, delivered>>

\* markEmailSent: the dashboard goes on whatever it answers; the other
\* services stop when somebody else has marked the message.
MarkEmailSent(w) ==
  /\ w \in DOMAIN senders
  /\ \E m \in senders[w].handed :
       LET rest == senders[w].todo \ {m}
           stops == outbox[m] # "pending" /\ senders[w].job # "dashboard" IN
       /\ outbox' = [outbox EXCEPT ![m] = "sent"]
       /\ senders' = IF stops \/ rest = {} THEN Drop(senders, w)
                     ELSE [senders EXCEPT ![w].todo = rest, ![w].handed = {}]
       /\ answer' = IF stops THEN [told |-> "mailUnavailable", mail |-> m] ELSE Silent
  /\ UNCHANGED <<stock, redeemed, questions, orders, tickets, requests, charged,
                 receipts, doorVars, waitlist, news, delivered>>

\* The request is interrupted, or the process stops, between two statements.
DropSender(w) ==
  /\ w \in DOMAIN senders
  /\ senders' = Drop(senders, w)
  /\ answer' = Silent
  /\ UNCHANGED <<stock, redeemed, questions, orders, tickets, requests, charged,
                 receipts, doorVars, waitlist, news, outbox, delivered>>

------------------------------------------------------------------------------
Door ==
  \/ \E s \in Staff : Transition(s) \/ \E op \in {"check_in", "undo"}, k \in Keys : Scan(s, op, k)

\* The Server Functions of the managers and of those who wait, and the pages
\* of the attendees.
Refunds == \E w \in Senders, k \in Keys : RefundOrder(w, k)

Waiting ==
  \E e \in Emails : JoinWaitlist(e) \/ (\E w \in Senders : NotifyWaitlist(w, e))

Announcements ==
  SaveDraft \/ (\E w \in Senders, a \in Audiences : SendAnnouncement(w, a))

Visits == \E w \in Senders, e \in Emails : OpenDashboard(w, e)

Delivery == \E w \in Senders : Deliver(w) \/ MarkEmailSent(w) \/ DropSender(w)

DayNext ==
  Sell \/ Door \/ Refunds \/ Waiting \/ Announcements \/ Visits \/ Delivery

DaySpec == DayInit /\ [][DayNext]_dayVars

------------------------------------------------------------------------------
(* Properties.                                                             *)

DayTypeOK ==
  /\ SalesTypeOK
  /\ \A s \in DOMAIN scans :
       scans[s] \in [op : {"check_in", "undo"}, key : DOMAIN tickets]
  /\ audit \in [Keys -> Seq({"check_in", "undo"})]
  /\ waitlist \in [Emails -> WaitlistStatus]
  /\ news \in NewsStatus
  /\ DOMAIN outbox \subseteq Mails
  /\ \A m \in DOMAIN outbox : outbox[m] \in {"pending", "sent"}
  /\ delivered \subseteq DOMAIN outbox
  /\ \A w \in DOMAIN senders : senders[w].todo \subseteq DOMAIN outbox

\* The audit trail explains every ticket: check-ins and undos alternate, so
\* nobody is admitted twice on one ticket, and a ticket that is not cancelled
\* has the status its newest entry gave it.
AuditExplainsStatus ==
  \A k \in Keys :
    LET n == Len(audit[k]) IN
    /\ \A i \in 1..n : audit[k][i] = IF i % 2 = 1 THEN "check_in" ELSE "undo"
    /\ k \in DOMAIN tickets =>
         \/ tickets[k].status = "cancelled"
         \/ tickets[k].status = IF n % 2 = 1 THEN "checked_in" ELSE "valid"

\* A message is marked sent only after it was delivered, whoever delivers it
\* and wherever a request is interrupted.
SentWasDelivered ==
  \A m \in DOMAIN outbox : outbox[m] = "sent" => m \in delivered

\* The outbox follows the records: a ticket, a refund and a notified entry
\* have their message from the same transaction on, and nothing else has.
MailFollowsRecords ==
  \A m \in Mails :
    CASE m[1] = "ticket"   -> m \in DOMAIN outbox <=> m[2] \in DOMAIN tickets
      [] m[1] = "refund"   -> m \in DOMAIN outbox <=> m[2] \in OrdersIn("refunded")
      [] m[1] = "waitlist" -> m \in DOMAIN outbox <=> waitlist[m[2]] = "notified"
      [] m[1] = "news"     -> m \in DOMAIN outbox => news = "sent"

\* A service that reports its message as not recorded leaves no message
\* behind: another sender has delivered and marked it.
FalseAlarmsOnly ==
  answer.told = "mailUnavailable" =>
    /\ outbox[answer.mail] = "sent"
    /\ answer.mail \in delivered
=============================================================================
