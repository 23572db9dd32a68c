SPECIFICATION FakeSpec
CONSTANTS
  default = default
  None = None
  Others = {p, q}
  Instances = {i, j}
  Profiles = {a, b}
  Networks = {n}
  ACLs = {x, y}
  AttachedACLs = {x}
  Zones = {z}
  Records = {r}
  Pools = {pl}
  Volumes = {v, w}
  Buckets = {bk}
  Fingerprints = {f}
  Seconds = {t}
  Aliases = {al, cat}
  Catalog = {cat}
  Statuses = {"Running", "Stopped"}
  MaxInstances = 2
  MaxImages = 2
  Clients <- Campaigns
  Snapshots = {s, t2}
  Backups = {b}
  Texts = {1, 2}
  Calls = {c}
  Tabs = {tab}
  MaxVersion = 3
  MaxBorn = 2
INVARIANTS FakeTypeOK TokensHold
PROPERTIES ContentsAreValues NothingElseChanges NothingDangles
SYMMETRY Symmetry
CHECK_DEADLOCK FALSE
