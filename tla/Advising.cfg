\* Three courses in two terms; two plans are asked for, and the enumeration
\* stops after 12 assignments.
\* A request is answered once.
SPECIFICATION AdvisingSpec
CHECK_DEADLOCK FALSE
CONSTANTS
  None = None
  NotAsked = NotAsked
  Requests <- MCRequests
  Alternatives = 2
  MaxAssignments = 12
  Expressions <- MCExpressions
  Depth <- Height
  SectionQueries <- MCSectionQueries
INVARIANTS AnswersAreLegal ClaimsAreTrue FallbackClaims PrecheckNeverWrong SameReading AuditIsSound SearchIsExact
