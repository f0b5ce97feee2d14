SPECIFICATION MCSpec
CONSTANTS
  Text <- MCText
  NoText = NoText
  Key <- MCKey
  KeyOf <- MCKeyOf
  FitsArc <- MCFitsArc
  FitsPoint <- MCFitsPoint
  Prefix <- MCPrefix
  Matches <- MCMatches
  Chunks <- MCChunks
  PointsCap = 2
  Similar <- MCSimilar
  MaxPid = 4
  MaxItems = 60
  MaxCap = 17
CONSTRAINT Bounded
INVARIANTS
  TypeOK
  NothingDestroyed
  IdsUnique
  LinksResolve
  MergedOnlyWhenSimilar
  LoopIsIdle
  EvenlySpaced
PROPERTIES
  JournalAppendOnly
  EvictionKeepsEnds
  ImplementsLedger
CHECK_DEADLOCK FALSE
