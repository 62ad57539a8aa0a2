SPECIFICATION Spec
CONSTANTS
  Conns = {c1, c2}
  Asks = {1}
  MaxEvents = 6
INVARIANTS
  TypeOK
  VerifiedMeansCurrent
  OneOpenQuestion
PROPERTIES
  BundleIsWholeLedger
  IntegrityErrorsAreContention
  ImplementsLog
SYMMETRY Symmetric
VIEW View
CHECK_DEADLOCK FALSE
