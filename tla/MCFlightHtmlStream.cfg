SPECIFICATION FairSpec
CONSTANTS
  Documents <- MCDocuments
  FlightChunks = 3
INVARIANTS
  DocumentIntact
  EagerFlightBetweenBatches
  FlightReachesBrowser
PROPERTY
  ResponseSettles
CHECK_DEADLOCK FALSE
