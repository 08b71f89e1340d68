SPECIFICATION Spec
CONSTANTS
  Thread = {t1, t2}
  StageId = {s1, s2}
  Rows = {few, many}
  NoFrame = NoFrame
  Summaries = {"options"}
  StageFiles = {"paths"}
  MaxAsks = 3
  MaxCrashes = 1
SYMMETRY Alike
INVARIANTS
  PagesGetTheRunsBranches
  QuietCacheIsWhole
CHECK_DEADLOCK FALSE
