SPECIFICATION Spec
CONSTANTS
  Thread = {t1, t2, t3}
  StageId = {s1}
  Rows = {few, many}
  NoFrame = NoFrame
  Summaries = {"options"}
  StageFiles = {"paths"}
  MaxAsks = 3
  MaxCrashes = 1
SYMMETRY Alike
INVARIANT NoReaderClaimsACutFile
CHECK_DEADLOCK FALSE
