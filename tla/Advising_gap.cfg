\* Terms 1 and 3, or 2 alone; two plans are asked for, and the enumeration
\* stops after 12 assignments.
\* A request is answered once.
SPECIFICATION AdvisingSpec
CHECK_DEADLOCK FALSE
CONSTANTS
  None = None
  NotAsked = NotAsked
  Requests <- GapRequests
  Alternatives = 2
  MaxAssignments = 12
  Expressions <- MCExpressions
  Depth <- Height
  SectionQueries <- NoSections
INVARIANTS GapsAreSeen
