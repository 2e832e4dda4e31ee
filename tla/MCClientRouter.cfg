SPECIFICATION FairRouterSpec
CONSTANTS
  Generations = {1, 2}
  Entries = {e0, e1}
  NoEntry = NoEntry
  Pending = Pending
  FirstEntry = e0
  MaxRefreshes = 1
  MaxPublications = 6
INVARIANTS
  LiveIffDisplayable
  EventsAccepted
  CacheExact
  NoTruncatedTree
  HistoryMatchesScreen
PROPERTIES
  HandlerSettles
  StreamsClose
CHECK_DEADLOCK FALSE
