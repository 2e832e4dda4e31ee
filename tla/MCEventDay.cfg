SPECIFICATION DaySpec
CONSTANTS
  k1 = k1
  e1 = e1
  Keys = {k1}
  EmailOf <- MCEmailOf
  Requests = {r1}
  Questions = {}
  Required = {}
  Forms <- MCForms
  TicketIds = {t1}
  Held = 0
  MaxTotal = 1
  MaxRedemptions = 0
  Staff = {s1, s2}
  Senders = {w1, w2}
  MaxScans = 2
INVARIANTS
  AuditExplainsStatus
  SentWasDelivered
  MailFollowsRecords
  ViewsAgree
SYMMETRY Symmetry
CHECK_DEADLOCK FALSE
