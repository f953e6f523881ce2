\* Two threads; a bucket of two requests that refills two in three units of time.
\* Nothing more happens when every request is answered.
SPECIFICATION ContributionsSpec
CHECK_DEADLOCK FALSE
CONSTANTS
  None = None
  t1 = t1
  t2 = t2
  Threads = {t1, t2}
  Accounts = {"a", "b", "c"}
  Slots = {1, 2, 3}
  Offered = {1, 2}
  Keys = {"k", "j", ""}
  Empty = ""
  Addresses = {"x", "y"}
  Capacity = 6
  Rate = 2
  Cost = 3
  PageSize = 2
  Scenarios <- MCScenarios
SYMMETRY Twins
INVARIANTS RateBound WaitIsEnough SameReviewForSameKey RetryGetsSameReview ErrorsExplained VoteOfRecord QueueCountsReporters PagingComplete
