SPECIFICATION FairSpec
CONSTANTS
  l1 = l1
  l2 = l2
  v1 = v1
  v2 = v2
  b1 = b1
  k1 = k1
  k2 = k2
  ann = ann
  bob = bob
  Logins <- TwoLogins
  Verifies <- TwoVerifies
  Browsers <- OneBrowser
  Keys <- TwoKeys
  Emails <- TwoEmails
  EmailOf <- EmailOfKey
  Settings <- AnnsRole
  PerHour = 1
  Hour = 2
  TTL = 1
  Horizon = 2
  NoBucket = nobucket
  NoLink = nolink
  NoSession = nosession
  Nobody = nobody
INVARIANT TypeOK
INVARIANT LinksBounded
INVARIANT SecondUseOverlaps
INVARIANT RolesComeFromLinks
PROPERTY EveryRequestEnds
CHECK_DEADLOCK FALSE
