------------------------------ MODULE SeatLedger ------------------------------
(***************************************************************************)
(* What the sale of tickets promises, without counters, requests or        *)
(* payments: every checkout key stands for at most one seat, a seat is     *)
(* given only while one is free, and a seat that was released is never     *)
(* given back to the same key.  TicketSales implements this module.        *)
(***************************************************************************)
EXTENDS Naturals, FiniteSets

CONSTANTS
  Keys,        \* idempotency keys of checkouts
  Held         \* seats set aside outside of any order

VARIABLES
  capacity,    \* seats of the ticket type
  seat         \* seat[k] is what the checkout of k has come to

ledgerVars == <<capacity, seat>>

With(state) == {k \in Keys : seat[k] = state}

Taken == Held + Cardinality(With("held")) + Cardinality(With("sold"))

\* A key takes a seat when one is free, and only once.
Hold(k) ==
  /\ seat[k] = "none"
  /\ Taken < capacity
  /\ seat' = [seat EXCEPT ![k] = "held"]
  /\ UNCHANGED capacity

Sell(k) ==
  /\ seat[k] = "held"
  /\ seat' = [seat EXCEPT ![k] = "sold"]
  /\ UNCHANGED capacity

Release(k) ==
  /\ seat[k] \in {"held", "sold"}
  /\ seat' = [seat EXCEPT ![k] = "released"]
  /\ UNCHANGED capacity

\* An organizer resizes the type, never below the seats that are taken.
Resize ==
  /\ capacity' \in Nat
  /\ capacity' >= Taken
  /\ UNCHANGED seat

LedgerInit ==
  /\ capacity \in Nat
  /\ capacity >= Held
  /\ seat = [k \in Keys |-> "none"]

LedgerNext ==
  \/ \E k \in Keys : Hold(k) \/ Sell(k) \/ Release(k)
  \/ Resize

LedgerSpec == LedgerInit /\ [][LedgerNext]_ledgerVars
=============================================================================
