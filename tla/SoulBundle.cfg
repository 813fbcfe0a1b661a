SPECIFICATION Spec
CONSTANTS
  x1 = x1
  w1 = w1
  i1 = i1
  i2 = i2
  i3 = i3
  p1 = p1
  p2 = p2
  humour = humour
  fact1 = fact1
  talk = talk
  george = george
  twin = twin
  Exports <- OneExport
  Views <- OneView
  Imports <- ThreeImports
  Supersedes <- TwoSupersedes
  Lines <- OneLine
  Entries <- OneEntry
  Memories <- OneMemory
  Source <- george
  Copy <- twin
  MaxVersion = 2
  NoCore = nocore
  NoSoul = nosoul
  NoRow = norow
  Nobody = nobody
INVARIANT TypeOK
INVARIANT NothingIsMissing
INVARIANT CollisionsOverlap
INVARIANT TwoHeirsOverlap
INVARIANT CopiesAddUp
SYMMETRY Alike
CHECK_DEADLOCK FALSE
