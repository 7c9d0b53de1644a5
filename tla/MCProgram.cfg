CONSTANTS
  Bases <- MCBases
  Queries <- MCQueries
  MaxRuns = 3
SPECIFICATION Spec
INVARIANTS
  AnswersFromOneBase
  UndefinedOnlyWithoutBase
\* Both processes end, and no more are started.
CHECK_DEADLOCK FALSE
