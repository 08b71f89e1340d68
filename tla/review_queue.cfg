CONSTANTS
  RowCount = 2
  Reviewer = {v1, v2}
  v1 = v1
  v2 = v2
  Cachings = {"read_write", "refresh", "off"}
  Importable = {1, 2}
  MaxExecutions = 3
  MaxFaults = 2
SPECIFICATION Spec
SYMMETRY AlikeReviewers
INVARIANTS
  DecisionMatchesItsRow
  NoRowPassesUndecided
PROPERTIES
  NeverAskedTwice
CHECK_DEADLOCK FALSE
