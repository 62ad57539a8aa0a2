\* A rerun that reads a changed file before a preparation is confirmed.
CONSTANTS
  Datas = {"d1", "d2"}
  Blocked = {}
  Questions = 1
  MaxTasks = 2
  MaxRun = 2
  MaxVersion = 2
  MaxChanges = 1
SPECIFICATION MCSpec
INVARIANT
  ConfirmedIsCurrentData
\* The user may stop.
CHECK_DEADLOCK FALSE
