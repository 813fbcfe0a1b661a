SPECIFICATION Spec
CONSTANTS
  r1 = r1
  r2 = r2
  i1 = i1
  i2 = i2
  f1 = f1
  p1 = p1
  old = old
  new = new
  NoRow = norow
  Nobody = nobody
  Sets <- OneSet
  Forgets <- OneForget
  Imports <- TwoImports
  Facts <- OneFact
  Properties <- OneProperty
  Values <- TwoValues
  Manifests <- BothOrders
INVARIANT TypeOK
INVARIANT NobodyStuck
PROPERTY ActsAtOnce
PROPERTY SkipKeepsSettled
SYMMETRY ImportsAlike
CHECK_DEADLOCK FALSE
