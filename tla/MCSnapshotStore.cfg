SPECIFICATION FairSpec
CONSTANTS
  p1 = p1
  p2 = p2
  r1 = r1
  meta = meta
  detail = detail
  Publishers <- MCPublishers
  Readers <- MCReaders
  Parts <- MCParts
  Meta = meta
  MaxVersion = 3
  SwitchReplyMayBeLost = FALSE
INVARIANTS CurrentComplete PreviousComplete
PROPERTIES RegisterSpec EveryHoldEnds
CHECK_DEADLOCK FALSE
