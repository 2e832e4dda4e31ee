----------------------------- MODULE MCTicketSales -----------------------------
(* TicketSales on a small instance.                                        *)
EXTENDS TicketSales, TLC

\* A paying form, one with the discount code, and one with the code whose
\* payment is declined and that leaves the required question out.
MCForms ==
  {[coupon |-> FALSE, pays |-> TRUE,  answers |-> [q \in Questions |-> "good"]],
   [coupon |-> TRUE,  pays |-> TRUE,  answers |-> [q \in Questions |-> "good"]],
   [coupon |-> TRUE,  pays |-> FALSE, answers |-> [q \in Questions |-> "absent"]]}

\* Checkouts, requests and ticket ids are interchangeable; no property of the
\* run is a liveness property.
Symmetry == Permutations(Keys) \union Permutations(Requests) \union Permutations(TicketIds)
=============================================================================
