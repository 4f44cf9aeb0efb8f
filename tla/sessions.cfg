SPECIFICATION Spec
CONSTANTS
  u1 = u1
  s1 = s1
  s2 = s2
  Users = {u1}
  Sids = {s1, s2}
  Ops = {o1}
  Owner <- OneOwner
  OAuthSids = {s2}
  RedisMayFail = FALSE
  DbMayFail = TRUE
  InstitutionColumn = TRUE
  MaxPw = 1
  Others = {}
  PoolSize = 10
CHECK_DEADLOCK FALSE
INVARIANTS StaleKeyExplained RevocationTakesEffect DeletedUserHasNoToken
PROPERTY RevocationFinal
