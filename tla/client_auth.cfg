SPECIFICATION Spec
CONSTANTS
  pupil = pupil
  root = root
  Accounts = {pupil, root}
  Nobody = Nobody
  PermsOf <- MCPermsOf
  Group <- MCGroup
  MaxLogins = 2
  MaxReloads = 1
  Paths = {"landing", "login", "reset", "dashboard", "student", "admin"}
  Filters = {"all", "student"}
  Visitors = {"member", "newcomer"}
INVARIANTS ScreenMatchesToken PageAllowed ConfirmationTrue
PROPERTIES WaitingEnds KeepsPromise
CHECK_DEADLOCK FALSE
