SPECIFICATION Spec
CONSTANTS
  Users = {u1}
  Desks = {d1, d2}
  Tabs = {t1, t2}
  Scenes <- MCScenes
  Seats <- MCSeats
  MaxEdits = 2
  MaxClicks = 3
SYMMETRY Symmetry
INVARIANTS RecordsMatchReviews SeatsKept  RosterHonest
PROPERTY DecisionOnTarget
CHECK_DEADLOCK FALSE
