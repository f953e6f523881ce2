\* Two workers that share three events in batches of two, and a projector.
\* When every event is processed there is nothing left to do.
SPECIFICATION FairSpec
CHECK_DEADLOCK FALSE
CONSTANTS
  w1 = w1
  w2 = w2
  p1 = p1
  None = None
  Workers <- TwoWorkers
  Projectors <- OneProjector
  Events <- ThreeEvents
  Limit = 2
  MaxFaults = 2
INVARIANTS DuplicatesNeedFaults ProcessedIsAccounted
PROPERTIES EveryEventProcessed
