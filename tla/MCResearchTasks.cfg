\* Two windows, two datasets, a draft with one clarification.
CONSTANTS
  Windows = {w1, w2}
  Tasks = {t1, t2}
  Identities = {i1, i2}
  Drafts = {d}
  Questions <- MCQuestions
  MaxRows = 2
SPECIFICATION Spec
SYMMETRY Names
VIEW View
INVARIANTS
  TypeOK
  LocatorsNameLedgers
  OrdinalsContiguous
  LedgersRecoverable
  ShownIsDurable
PROPERTIES
  ImplementsAuthority
