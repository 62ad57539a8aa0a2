\* Violation: a report that names its analysis by the step id, not by the key the
\* analysis declares.
CONSTANTS
  Ids <- ReportIds
  Def <- ReportByIdSteps
  Aliases <- MCAliases
  Imports = {}
  Analyses = {"scale", "report"}
  Keys <- MCKeys
  Columns <- MCColumns
  Sources = {"survey"}
  Files = {"f1", "gone"}
  Gone = "gone"
  Inserted = {}
  Threads = {"main"}
SPECIFICATION Spec
INVARIANTS
  CachesCoherent
\* The caller may stop.
CHECK_DEADLOCK FALSE
