SPECIFICATION Spec
CONSTANTS
  u1 = u1
  s1 = s1
  s2 = s2
  Users = {u1}
  Sids = {s1}
  Ops = {o1}
  Owner <- OneOwner
  OAuthSids = {}
  RedisMayFail = FALSE
  DbMayFail = FALSE
  InstitutionColumn = TRUE
  MaxPw = 1
  Others = {}
  PoolSize = 10
CHECK_DEADLOCK FALSE
INVARIANT IsolationWipesKeys
