SPECIFICATION WorkspaceSpec
CONSTANTS
  Parts = {"connections", "screen", "editor"}
  None = None
  MaxFaults = 1
  x1 = x1  x2 = x2  c1 = c1  c2 = c2
  Calls = {c1, c2}
  People = {x1, x2}  Invites = {i1, i2}  Creators = {k1}  Acceptors = {c1, c2}  SeatLimit = 2
  Cross = "cross_channel"  Specialised = {"paid_search"}  Titles = {"t1", "t2"}  Batch <- Batches
  Loads = {c1, c2}  Limit = 1  MaxCopies = 2  MaxTouches = 1
  Experiments = {x1, x2}  Winners = {"a", "inconclusive"}  MaxLaunch = 2
  Users = {x1, x2}  Supers = {x1, x2}  MaxLog = 2  MaxViews = 2
  Requests = {"write", "read", "odd"}  Body <- Bodies  Unparsed = None  Effect = {"write", "odd"}  maxRetries = 2
  Processes = {x1, x2}  Sockets = {c1, c2}  Events = {i1}
  Rows = {x1, x2}  Statuses = {"pending", "acted"}  Clicks = {c1, c2}  Mock = m1  Asked = m2
  MaxEdits = 3  MaxSaves = 3
  Posts = {x1, x2}  Done = m1  Wanted = {"short", "long"}  MaxSuffix = 3  slugify <- Spelling
  Accounts = {x1, x2}  Syncs = {c1, c2}  MaxGrants = 2
INVARIANTS RefreshTokenIsNewest SnapshotIsWhole ScreenAgrees CalmIsStored
SYMMETRY Symmetry
CHECK_DEADLOCK FALSE
