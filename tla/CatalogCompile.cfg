\* Every short text of one course and every graph of three courses.
\* A compilation ends when the document is accepted or refused.
SPECIFICATION CompileSpec
CHECK_DEADLOCK FALSE
CONSTANTS
  Absent = Absent
  Documents <- MCDocuments
  Expressions <- MCExpressions
  Depth <- Height
  Students <- MCStudents
INVARIANTS ParsedAsGrammar CyclesAreComponents AcceptedHasTermOrder EligibilityExact
