SPECIFICATION LiveSpec
CONSTANTS
  Pages = {"tutor", "hub"}
  MaxVisits = 1
  MaxReconnects = 2
  MaxOrphans = 1
  MaxDashVisits = 1
  MaxSockets = 3
  DashReconnects = 1
  MaxEvents = 1
  MaxToggles = 2
INVARIANTS ShownConnected SilentAfterLeave EventsOnce FreezeHonest
PROPERTIES LiveKept Settles
CHECK_DEADLOCK FALSE
