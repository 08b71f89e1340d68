CONSTANTS
  StageCount = 3
  Upstream <- MCChain
  RowMapped = {2, 3}
  Queues = {2}
  MaxExecutions = 2
  MaxLive = 1
  Cancellers = {c1}
  MaxDeaths = 0
  MaxLosses = 0
SPECIFICATION Spec
PROPERTIES
  StoppedByItsOwnCancel
