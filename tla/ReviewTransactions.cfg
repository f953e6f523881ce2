\* Two requests on the two reviews of one course and term, which share the
\* aggregate row; both may work on the same review.
SPECIFICATION TxSpec
CONSTANTS
  r1 = r1
  r2 = r2
  g1 = g1
  s1 = s1
  s2 = s2
  None = None
  Reviews <- TwoReviews
  Groups <- OneGroup
  GroupOf <- SameGroup
  Requests <- TwoRequests
  MaxRevision = 2
  MaxDrift = 1
  MaxDecisions = 4
SYMMETRY Symmetry
CONSTRAINT InBounds
INVARIANTS PublicContentApproved
PROPERTIES SerialisableUnlessStale DriftNeedsStaleCommit OverlookedNeedsStaleCommit
