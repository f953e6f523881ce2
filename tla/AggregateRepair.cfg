\* A repair beside two requests that race on one review.
SPECIFICATION RepairSpec
CONSTANTS
  r1 = r1
  g1 = g1
  s1 = s1
  s2 = s2
  None = None
  Reviews <- OneReview
  Groups <- OneGroup
  GroupOf <- SameGroup
  Requests <- TwoRequests
  MaxRevision = 2
  MaxDrift = 1
  MaxRepairs = 1
SYMMETRY RequestSymmetry
INVARIANTS NoLostEdit
PROPERTIES RepairRestores
