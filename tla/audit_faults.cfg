SPECIFICATION FairSpec
CONSTANTS
  Events = {e1, e2}
  Poison = {e2}
  Faults = {"broker", "db", "crash", "shutdown"}
  BatchMax = 2
  FallbackCap = 1
  MaxTopic = 3
  MaxRebalances = 1
CHECK_DEADLOCK FALSE
INVARIANTS LossExplained DuplicateExplained
PROPERTY EventuallyStored
