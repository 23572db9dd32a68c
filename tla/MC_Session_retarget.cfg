\* One tab is enough.
SPECIFICATION Spec
CONSTANTS
  Tabs = {t1}
  Left = {}
  Remotes = {local, far}
  Default = local
  Projects = {p, q}
  AtFirst = {p}
  None = None
  Keep = Keep
  MaxRestarts = 1
  MaxChanges = 1
INVARIANT NoSilentRetarget
CHECK_DEADLOCK FALSE
