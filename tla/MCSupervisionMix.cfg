SPECIFICATION Spec
CONSTANTS
  Transcripts <- MCTranscripts
  Budget = 8
  Overlap = 2
  Slack = 2
  Overhead = 1
  Offsets <- MCOffsets
  Items <- MCItems
  Point = {"a", "b", "x"}
  Arcs = {"x"}
  Answers <- MCAnswers
  MaxAttempts = 2
  CollapseK = 2
  Inputs = {"good", "mismatch", "no items"}
  MaxKills = 0
  Pilots <- MCPilots
  MinNop <- MCMinNop
  Candidates <- MCCandidates
  Samples = 2
  Seeds = 2
INVARIANTS
  AdmittedRowsApply
CHECK_DEADLOCK FALSE
