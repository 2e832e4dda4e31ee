SPECIFICATION FairSpec
CONSTANTS
  Requests = {r1, r2}
  MaxBuilds = 3
INVARIANTS
  RequestsInsideServices
  FollowsNewestBuild
  OfferedGenerationAdmits
  NothingLeaks
PROPERTIES
  RequestsSettle
CHECK_DEADLOCK FALSE
