\* Safety: an import whose file changes, a recode, an analysis and its report; or a
\* metadata patch before and after the readers of its column, two steps that claim one
\* column, and a source dataset that is replaced.
CONSTANTS
  Ids <- AllIds
  Def <- SafetySteps
  Aliases <- MCAliases
  Imports = {"import"}
  Analyses = {"scale", "report"}
  Keys <- MCKeys
  Columns <- MCColumns
  Sources = {"empty", "survey"}
  Files = {"f1", "f2", "gone"}
  Gone = "gone"
  Inserted = {"scale"}
  Threads = {"main"}
SPECIFICATION Spec
CONSTRAINT OneOfTheSets
INVARIANTS
  TypeOK
  CachesCoherent
  PublishedIsCached
  OwnersUnique
PROPERTIES
  FailureRestores
\* The caller may stop.
CHECK_DEADLOCK FALSE
