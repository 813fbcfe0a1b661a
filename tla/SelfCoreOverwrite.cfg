SPECIFICATION Spec
CONSTANTS
  w1 = w1
  w2 = w2
  e1 = e1
  i1 = i1
  m1 = m1
  Original = o
  Imported = imp
  NoContent = none
  WebSaves <- TwoWebs
  CliEdits <- NoRequests
  CliImports <- NoRequests
  Merges <- NoRequests
  InitVersions <- ImportedVersions
PROPERTY NoSilentOverwrite
CHECK_DEADLOCK FALSE
