------------------------------ MODULE MCEventDay ------------------------------
(* EventDay and its views on a small instance.                             *)
EXTENDS EventViews, TLC

CONSTANTS k1, e1

\* One form: no discount, approved payment, nothing asked.
MCForms == {[coupon |-> FALSE, pays |-> TRUE, answers |-> << >>]}

MCEmailOf == k1 :> e1

\* Staff requests and senders are interchangeable; no property of the run is a
\* liveness property.
Symmetry == Permutations(Staff) \union Permutations(Senders)
=============================================================================
