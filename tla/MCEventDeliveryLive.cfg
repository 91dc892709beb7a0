SPECIFICATION FairSpec
CONSTANTS
  MaxEvents = 2
  PageSize = 1
  Flushers <- MCNoFlushers
  MaxReadErrors = 0
  Capacity = 1
  BatchSize = 1
  MaxBuffered = 2
  MaxWire = 1
  MaxGenerations = 1
  MaxBreaks = 1
  MaxAhead = 0
PROPERTIES
  EventsReachTheClient
  ServiceStateIsSeen
