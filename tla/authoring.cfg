SPECIFICATION AuthoringSpec
CONSTANTS
  s1 = s1
  s2 = s2
  Stage <- StageDef
  Sorted <- SortedDef
  Inputs <- InputsDef
  Chat = {c1}
  Hand = {h1}
  Loop = loop
  MaxVersions = 3
  MaxDrafts = 2
  Column <- ColumnDef
  FewColumns <- FewColumnsDef
  Suffixed <- SuffixedDef
  Ids = {1, 2, 3}
INVARIANTS
  EveryWorkflowIsWhole
  NothingIsLeftBehind
  NoConflictWithItself
  GenerationIsAccountedFor
  SavedStagesRunAsPromised
  SavedGraphsResolve
CHECK_DEADLOCK FALSE
