SPECIFICATION Spec
CONSTANTS
  Attempts = {a1, a2, a3}
  Accounts = {u1}
  Ips = {i1}
  MaxAccount = 2
  MaxIp = 3
  MaxCount = 10
  MaxLost = 1
SYMMETRY Symmetry
INVARIANTS CounterExpires NoMissedLock GuessesBounded
