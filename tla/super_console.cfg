SPECIFICATION ConsoleSpec
CONSTANTS
  Tabs = {"infrastructure", "plugins", "rbac"}
  Insts = {i1, i2}
  Reqs = {q1}
  PluginIds = {core, extra}
  System = {core}
  RoleIds = {r1, r2}
  PermNames = {p1, p2}
  NoItem = NoItem
  MaxClicks = 2
  MaxCalls = 2
  MaxLoads = 2
INVARIANTS QuietViewFresh
PROPERTIES SwitchInverts CreatedWhole BusyEnds
CHECK_DEADLOCK FALSE
