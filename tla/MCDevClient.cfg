SPECIFICATION FairSpec
CONSTANTS
  MaxBuilds = 3
  MaxVisits = 1
INVARIANTS
  PageCatchesUp
  DiagnosticsAgree
PROPERTIES
  UpdatesSettle
CHECK_DEADLOCK FALSE
