SPECIFICATION Spec
CONSTANTS
  Tabs = {t1, t2}
  Left = {t2}
  Remotes = {local, far, near}
  Default = local
  Projects = {p, q}
  AtFirst = {p}
  None = None
  Keep = Keep
  MaxRestarts = 1
  MaxChanges = 1
INVARIANTS TypeOK RemoteHonoured
PROPERTIES NavigationEnds NeverTrapped
CHECK_DEADLOCK FALSE
