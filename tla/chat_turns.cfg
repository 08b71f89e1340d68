CONSTANTS
  p1 = p1
  Panel = {p1}
  Replies <- MCReplies
  FoldedBlocks = 4
  MaxTurns = 2
SPECIFICATION FairSpec
INVARIANTS
  NothingIsMissed
  MarkIsHonest
  MemoryIsTheTranscript
  EveryReplyReadsTheSame
PROPERTIES
  EveryStreamEnds
