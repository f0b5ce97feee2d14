SPECIFICATION BaselineSpec
CONSTANTS
  Transcripts <- MCTranscripts
  Budget = 8
  Overlap = 2
  Slack = 2
  Overhead = 1
  Replies = {0, 3, 5}
  Context = 11
  PromptTokens = 2
  ProseMax = 3
  MaxReducePasses = 2
  MaxCompressPasses = 2
  MaxCalls = 14
INVARIANTS
  TranscriptCovered
  FreshLines
  ThinOnlyAtTheEnd
  EveryWindowTold
  CallsBounded
  CompressInContext
PROPERTY
  Ends
