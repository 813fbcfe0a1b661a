SPECIFICATION FairSpec
CONSTANTS
  c1 = c1
  c2 = c2
  v1 = v1
  v2 = v2
  t1 = t1
  t2 = t2
  s1 = s1
  s2 = s2
  k1 = k1
  k2 = k2
  NoToken = notoken
  NoSoul = nosoul
  NoConn = noconn
  Nobody = nobody
  Calls <- TwoCalls
  WebRevokes <- NoRequests
  CliRevokes <- OneCliRevoke
  Tokens <- TwoTokens
  ReadOnly <- OneReadOnly
  Souls <- TwoSouls
  SoulOf <- SoulOfToken
  Conns <- OneConn
PROPERTY EveryCallEnds
CHECK_DEADLOCK FALSE
