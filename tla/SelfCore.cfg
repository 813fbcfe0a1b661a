SPECIFICATION FairSpec
CONSTANTS
  w1 = w1
  w2 = w2
  e1 = e1
  i1 = i1
  m1 = m1
  Original = o
  Imported = imp
  NoContent = none
  WebSaves <- OneWeb
  CliEdits <- OneEdit
  CliImports <- OneImport
  Merges <- OneMerge
  InitVersions <- ImportedVersions
INVARIANT TypeOK
INVARIANT OneWriterAtATime
INVARIANT NoSavedContentLost
INVARIANT CollisionNeedsStaleSave
PROPERTY FrozenAfterCollision
PROPERTY ArchivesWhatItReplaces
PROPERTY ForgetsNothing
PROPERTY EverySaveEnds
CHECK_DEADLOCK FALSE
