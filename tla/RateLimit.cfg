SPECIFICATION Spec
CONSTANTS
  t1 = t1
  Ids <- OneId
  NoBucket = nobucket
  PerMinute = 2
  Minute = 3
  PerHour = 4
  Hour = 10
  Half = 1
  Horizon = 12
INVARIANT TypeOK
INVARIANT TwoWaitsSuffice
PROPERTY GrantsWhatFits
CHECK_DEADLOCK FALSE
