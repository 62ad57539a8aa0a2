\* Violated: a rerun that overlapped an edit publishes what it computed.
CONSTANTS
  Ids <- SessionIds
  Def <- SessionSteps
  Aliases <- SessionAliases
  Imports = {"import"}
  Analyses = {"test", "report"}
  Keys <- MCKeys
  Columns <- MCColumns
  Sources = {"empty"}
  Files = {"f1", "gone"}
  Gone = "gone"
  Inserted = {}
  Threads = {"main", "worker"}
  Managed = {"test", "report"}
  ReportStep = "report"
SPECIFICATION OpsSpec
PROPERTIES
  DiscardedRunsLeaveNoTrace
CHECK_DEADLOCK FALSE
