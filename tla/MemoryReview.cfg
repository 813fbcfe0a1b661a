SPECIFICATION FairSpec
CONSTANTS
  a = a
  b = b
  d1 = d1
  d2 = d2
  f1 = f1
  r1 = r1
  r2 = r2
  Nobody = nobody
  NoMemory = nomemory
  Limit = 2
  Memories <- TwoMemories
  Decides <- OneDecide
  Forgets <- OneForget
  Recalls <- TwoRecalls
INVARIANT TypeOK
INVARIANT RecallCountExact
INVARIANT HeldUntilConfirmed
PROPERTY ActsAtOnce
PROPERTY EveryRequestEnds
CHECK_DEADLOCK FALSE
