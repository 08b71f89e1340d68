CONSTANTS
  total = total
  table = table
  whole = whole
  window = window
  r1 = r1
  r2 = r2
  may = may
  june = june
  NoContext = NoContext
  Shape <- MCShape
  Closed <- MCClosed
  Tabular <- MCTabular
  Context <- MCContext
  Run <- MCRun
  Whole <- MCWhole
  Proposal <- MCProposal
  Reviewer = {r1, r2}
  MaxClaims = 2
  MaxReviews = 2
SPECIFICATION FairSpec
INVARIANTS
  AtMostOneStands
  ReviewedOnce
  ReviewStateIsTrue
  ReviewersAreAccountedFor
PROPERTIES
  EveryReviewEnds
