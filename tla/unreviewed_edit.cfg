SPECIFICATION Spec
CONSTANTS
  Users = {u1}
  Desks = {d1, d2}
  Tabs = {t1}
  Scenes <- MCScenes
  Seats <- MCSeats
  MaxEdits = 1
  MaxClicks = 3
SYMMETRY Symmetry
PROPERTY ReviewedBeforeCommitted
CHECK_DEADLOCK FALSE
