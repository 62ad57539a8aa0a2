\* One window: three commands of the worker, an edit or a confirmation, a changed file.
CONSTANTS
  Datas = {"d1", "d2"}
  Blocked = {"d2"}
  Questions = 1
  MaxTasks = 2
  MaxRun = 3
  MaxVersion = 2
  MaxChanges = 1
SPECIFICATION MCSpec
VIEW WhatMatters
INVARIANTS
  TypeOK
  BusyIsAnswered
  ShownIsRecorded
  DriftIsShown
  ReviewIsCurrent
PROPERTIES
  ConfirmedStays
  CommandsEnd
\* The user may stop.
CHECK_DEADLOCK FALSE
