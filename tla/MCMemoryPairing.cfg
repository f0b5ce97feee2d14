SPECIFICATION MCSpec
CONSTANTS
  Text <- MCText
  NoText = NoText
  Key <- MCKey
  KeyOf <- MCKeyOf
  FitsArc <- MCFitsArc
  FitsPoint <- MCFitsPoint
  Prefix <- MCPrefix
  Matches <- MCMatches
  Chunks <- MCChunks
  PointsCap = 2
  Similar <- MCSimilar
  MaxPid = 4
  MaxItems = 0
  MaxCap = 0
CONSTRAINT Bounded
INVARIANT ReversalsPaired
