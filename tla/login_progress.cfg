SPECIFICATION FairSpec
CONSTANTS
  u1 = u1
  s1 = s1
  s2 = s2
  Users = {u1}
  Sids = {s1, s2, s3}
  Ops = {}
  Owner <- OneOwner
  OAuthSids = {s3}
  RedisMayFail = FALSE
  DbMayFail = FALSE
  InstitutionColumn = TRUE
  MaxPw = 0
  Others = {r1}
  PoolSize = 3
CHECK_DEADLOCK FALSE
PROPERTY LoginEnds
