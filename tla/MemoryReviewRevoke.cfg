SPECIFICATION Spec
CONSTANTS
  a = a
  b = b
  d1 = d1
  d2 = d2
  f1 = f1
  r1 = r1
  r2 = r2
  Nobody = nobody
  NoMemory = nomemory
  Limit = 2
  Memories <- OneMemory
  Decides <- OneDecide
  Forgets <- OneForget
  Recalls <- OneRecall
PROPERTY RevocationSticks
CHECK_DEADLOCK FALSE
