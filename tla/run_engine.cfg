CONSTANTS
  StageCount = 4
  Upstream <- MCFork
  RowMapped = {2, 3}
  Queues = {2}
  MaxExecutions = 2
  MaxLive = 1
  Cancellers = {c1}
  MaxDeaths = 1
  MaxLosses = 1
SPECIFICATION FairSpec
INVARIANTS
  SettledRunIsExplained
  HaltMarkIsExact
  FinishedHasOutput
  OutputsAgree
PROPERTIES
  StoppedByALaterPost
  RecordKeepsItsPromise
  EveryExecutionSettles
