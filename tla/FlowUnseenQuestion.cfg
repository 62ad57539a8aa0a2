\* An answer that is cancelled after it was recorded, and given again.
CONSTANTS
  Datas = {"d1", "d2"}
  Blocked = {"d2"}
  Questions = 2
  MaxTasks = 2
  MaxRun = 3
  MaxVersion = 2
  MaxChanges = 0
SPECIFICATION MCSpec
INVARIANT
  AnswersGoWhereGiven
\* The user may stop.
CHECK_DEADLOCK FALSE
