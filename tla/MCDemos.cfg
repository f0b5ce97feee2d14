SPECIFICATION Spec
CONSTANTS
  Text <- MCText
  NoText = ""
  IdOf <- MCIdOf
  OddDigits = {"circled"}
  FitsArc = {"c", "d", "long"}
  FitsPoint = {"all", "alt", "b", "c", "d"}
  Matches <- MCMatches
  PointsCap = 4
  Lengths = {1, 3}
  Replies <- MCReplies
  MaxPresses = 2
  Sessions = {"u", "v"}
  Meetings = {0, 2}
  Calls <- MCCalls
  MaxRuns = 2
  MaxQueue = 1
  K = 3
INVARIANTS
  ResultsHonest
PROPERTY
  RunsEnd
CHECK_DEADLOCK FALSE
