SPECIFICATION MCSpec
CONSTANTS
  Pools <- MCPools
  Reversals <- MCReversals
  Journals <- MCJournals
  Replies <- MCReplies
  MaxLoose = 0
  MaxTools = 0
  MaxNop <- MCMaxNop
  DropShare <- MCDropShare
  LateShare <- MCLateShare
  LateStep = 3
  ValidShare <- MCValidShare
  Traces <- MCTraces
  Corpora <- MCCorpora
  f1 = f1
  f2 = f2
  m1 = m1
  m2 = m2
  Commands <- MCCommands
  Reports <- MCReports
  Models = {m1, m2}
  Revisions = {r1, r2}
  MaxSwaps = 1
  MaxCards = 2
SYMMETRY Symmetry
INVARIANT MeasuredAlike
CHECK_DEADLOCK FALSE
