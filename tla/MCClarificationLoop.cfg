\* All profiles of the intake, as they are and with one or two more facts open; two
\* candidates may wait, so that one of them is built on a request that is no more.
CONSTANTS
  Opened <- OpenedSets
  MaxOffers = 2
SPECIFICATION Spec
INVARIANTS
  TypeOK
  NoAnswerIsLost
  NothingOutlivesItsGoal
  PromiseKept
  IntakeIsDecided
  RefusalOpensNothing
  RefusedStaysRefused
  RecommendationIsPrepared
\* A session ends.
CHECK_DEADLOCK FALSE
