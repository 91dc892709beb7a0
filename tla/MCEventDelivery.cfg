SPECIFICATION Spec
CONSTANTS
  MaxEvents = 3
  PageSize = 2
  Flushers <- MCNoFlushers
  MaxReadErrors = 0
  Capacity = 1
  BatchSize = 1
  MaxBuffered = 2
  MaxWire = 2
  MaxGenerations = 1
  MaxBreaks = 1
  MaxAhead = 1
INVARIANTS
  BufferKeepsWithinABatch
  FramesAreInOrder
PROPERTIES
  ImplementsEventFeed
