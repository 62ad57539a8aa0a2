\* Safety and liveness: two runs, three committed edits or opened files.
CONSTANTS
  MaxRuns = 2
  MaxVersion = 3
SPECIFICATION FairSpec
INVARIANTS
  TypeOK
  FreshResultsAreCurrent
  NoResultsOfAnotherFile
PROPERTIES
  RunsUseConfirmedSelections
  EngineResultIsReported
\* The user may stop, and the bounds end every behaviour.
CHECK_DEADLOCK FALSE
