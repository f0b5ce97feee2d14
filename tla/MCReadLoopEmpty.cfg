SPECIFICATION Spec
CONSTANTS
  Text <- MCText
  NoText = NoText
  Key <- MCText
  KeyOf <- MCKeyOf
  FitsArc <- MCFitsArc
  FitsPoint <- MCText
  Prefix <- MCPrefix
  Matches <- MCMatches
  LangArc <- MCLang
  LangPoint <- MCLang
  Opposes <- MCOpposes
  PointsCap = 2
  NumChunks = 2
  MaxEdits = 5
  CollapseK = 2
INVARIANT NothingLeftToTell
