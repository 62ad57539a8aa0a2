\* Safety: two threads, a data step that is inserted and edited, a file that disappears.
CONSTANTS
  Ids <- SessionIds
  Def <- SessionSteps
  Aliases <- SessionAliases
  Imports = {"import"}
  Analyses = {"test", "report"}
  Keys <- MCKeys
  Columns <- MCColumns
  Sources = {"empty"}
  Files = {"f1", "gone"}
  Gone = "gone"
  Inserted = {}
  Threads = {"main", "worker"}
  Managed = {"test", "report"}
  ReportStep = "report"
SPECIFICATION OpsSpec
VIEW View
INVARIANTS
  QuietRerunHeals
PROPERTIES
  AnalysesSurvive
  ExportShowsPublishedResults
\* The user may stop.
CHECK_DEADLOCK FALSE
