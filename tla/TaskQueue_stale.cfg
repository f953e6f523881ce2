\* Two workers on one task: the documentation's fence, which the code checks on
\* a copy of the row that may be out of date.
SPECIFICATION FairSpec
CONSTANTS
  w1 = w1
  w2 = w2
  None = None
  Workers <- TwoWorkers
  Tasks <- OneTask
  MaxFaults = 2
PROPERTIES StaleWriteFenced
