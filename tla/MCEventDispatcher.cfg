SPECIFICATION DispatcherSpec
CONSTANTS
  shutdown = shutdown
  coordinator = coordinator
  MaxEvents = 4
  PageSize = 2
  Flushers <- MCFlushers
  MaxReadErrors = 1
CHECK_DEADLOCK FALSE
INVARIANTS
  PublishedInOrder
  FlushMeansPublished
PROPERTIES
  FlushesAreAnswered
