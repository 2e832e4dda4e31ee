SPECIFICATION SalesSpec
CONSTANTS
  Keys = {k1, k2, k3}
  Requests = {r1, r2}
  Questions = {q1}
  Required = {q1}
  Forms <- MCForms
  TicketIds = {t1, t2, t3}
  Held = 1
  MaxTotal = 3
  MaxRedemptions = 1
INVARIANTS
  InventoryExact
  RedemptionsExact
  TicketsFollowOrders
  ReceiptsAgree
PROPERTIES
  KeepsLedger
SYMMETRY Symmetry
CHECK_DEADLOCK FALSE
