\* Two workers on one task: every interleaving of leases that pass under a
\* running handler, recovery, heartbeats, cancellation and crashes.
SPECIFICATION FairSpec
CONSTANTS
  w1 = w1
  w2 = w2
  None = None
  Workers <- TwoWorkers
  Tasks <- OneTask
  MaxFaults = 2
INVARIANTS TypeOK LeaseExclusive RunningIsRecoverable
PROPERTIES CancelledNotRestarted LifecycleUnlessStale StaleNeedsFault EveryTaskEnds
