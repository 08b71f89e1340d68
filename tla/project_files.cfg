SPECIFICATION FilesSpec
CONSTANTS
  FileId = {f1, f2, f3, f4}
  RequestThread = {t1, t2, t3}
  Project = {p1}
  Ceiling = 2
  Quota = 2
  MaxRestarts = 1
SYMMETRY Alike
INVARIANTS
  RecordsHaveBytes
  QuotaHoldsButForThoseUnderWay
CHECK_DEADLOCK FALSE
