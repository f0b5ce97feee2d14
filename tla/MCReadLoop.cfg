SPECIFICATION Spec
CONSTANTS
  Text <- MCText
  NoText = NoText
  Key <- MCText
  KeyOf <- MCKeyOf
  FitsArc <- MCFitsArc
  FitsPoint <- MCText
  Prefix <- MCPrefix
  Matches <- MCMatches
  LangArc <- MCLang
  LangPoint <- MCLang
  Opposes <- MCOpposes
  PointsCap = 2
  NumChunks = 3
  MaxEdits = 3
  CollapseK = 2
INVARIANTS
  TypeOK
  PartialReadAnnounced
  EditsOnRecord
  PromptsBounded
  NoStandingContradiction
  DroughtReported
  GapsEarned
PROPERTIES
  KeepsMemory
  Ends
