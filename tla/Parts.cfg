CONSTANTS
  Nothing = Nothing
  Databases = {d, e}
  Reports <- MCReports
  Tables = {t}
  MaxScans = 3
  Entries = {a, b}
  MaxRestores = 2
  MaxFailures = 1
  MaxTraces = 2
  MaxRecorded = 2
  MaxStreams = 2
  MaxDeletes = 2
  Pods = {1, 2}
  Containers = {ca, cb}
  MaxLogs = 2
  MaxLines = 3
  MaxReloads = 1
  Root = "root"
  Prefixes = {"dir"}
  Objects = {"a", "b", "c"}
  Pages <- MCPages
  MaxLoads = 3
  Profiles = {p, q}
  MaxRows = 2
  MaxQueries = 3
  MaxSessions = 2
  MaxEvents = 2
  PageLimit = 1
  MaxPolls = 1
  MaxRefreshes = 1
  Targets = {a, b}
  MaxErrors = 1
  MaxStarts = 3
  MaxJobs = 2
  Statements = {"default", "linked", "typed"}
  Default = "default"
  Linked = "linked"
  MaxHistory = 2
  MaxSaves = 4
  MaxOpens = 3
  Calls = {c1, c2, c3}
  Items = {"server", "d1"}
  Names = {"d1"}
  Bound <- MCBound
  MaxBeats = 2
  Scans <- MCScans
  All = "all"
SPECIFICATION MCSpec
INVARIANTS
  TypeOK
  SelectionIsFollowed
  RequestsAreFollowedUp
CHECK_DEADLOCK FALSE
