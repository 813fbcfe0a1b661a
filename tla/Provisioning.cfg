SPECIFICATION Spec
CONSTANTS
  r1 = r1
  r2 = r2
  n1 = n1
  c1 = c1
  i1 = i1
  m1 = m1
  carsten = carsten
  eve = eve
  george = george
  anna = anna
  privat = privat
  firm = firm
  Seeds <- TwoSeeds
  Tenancies <- OneTenancy
  Creates <- OneCreate
  Imports <- OneImport
  Mints <- OneMint
  Emails <- TwoEmails
  Slugs <- TwoSlugs
  Names <- TwoNames
  SeedEmail = carsten
  SeedSlug = george
  SeedName = privat
  NoName = noname
  NoSoul = nosoul
  NoKey = nokey
  NoToken = notoken
INVARIANT TypeOK
INVARIANT TwoSeedsOverlap
INVARIANT CachedKeyOpens
PROPERTY CommitsAreWhole
SYMMETRY Alike
CHECK_DEADLOCK FALSE
