SPECIFICATION FairServerSpec
CONSTANTS
  outer = outer
  user = user
  shared = shared
  t1 = t1
  t2 = t2
  Middleware <- MCMiddleware
  Views <- MCViews
  MadeIn <- MCMadeIn
  Tasks <- MCTasks
  Words <- MCWords
  PathsTried <- MCPathsTried
  PagesTried <- MCPagesTried
  Other = "other"
  MaxCalls = 4
INVARIANTS
  WorkInsideResources
  ScopesCompose
  PagesServed
PROPERTIES
  RequestEnds
CHECK_DEADLOCK FALSE
