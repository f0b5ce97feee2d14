SPECIFICATION Spec
CONSTANTS
  Retries = 1
  NumMeetings = 2
  AgentSteps = 2
  BaselineCalls = 1
  Claims <- MCClaims
  Votes = 3
  MaxKills = 1
  MinN = 2
  MaxP <- MCMaxP
  Deltas = {0, 1}
INVARIANTS
  RequestsBounded
  PairsAccounted
  BatchSettled
  Evidence
PROPERTY
  EvaluationEnds
