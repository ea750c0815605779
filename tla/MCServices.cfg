SPECIFICATION Spec
CONSTANTS
  t1 = t1
  t2 = t2
  mine = mine
  ShardThreads = {t1, t2}
  ShardIds = {0, 1}
  SplitOffset = 1
  ShardDuration = 2
  ShardReports <- Reports
  ClientStatuses = {"Active", "Inactive", "ReadOnly"}
  MaxHalvings = 2
  Callers = {t1, t2}
  TaskIds = {1, 2}
  MaxStarts = 3
  MaxTriggers = 3
  SnapThreads = {t1, t2}
  MaxSnapshots = 1
  RetentionSeconds = 1
  NanosPerSecond = 10
  MaxSnapId = 3
  FirstClock = 5
  MaxClock = 8
  MaxCrashes = 1
  BackupThreads = {t1, t2}
  ChosenIds = {mine}
  MaxFull = 1
  MaxIncremental = 1
  MaxBackups = 4
  FileLists <- SomeFiles
  CompactLimits = {0, 1, 2, 3}
  MergeLimits = {1, 2, 3}
  HotSeconds = 2
  WarmSeconds = 3
  U64 = 1000
  PieceTimes = {0, 1, 2, 4, 6}
  Ttls = {0, 1, 3}
  Nanos = 2
  RowLists <- SomeRowLists
  Fine = 2
  Coarse = 4
  PointLists <- SomePointLists
  FirstNow = 3
  MaxNow = 9
INVARIANTS
  NoSplitLeftBehind
  NoTornMetadata
  FoundWhereMapped
  HistoryComplete
  ListedIsComplete
  ListedStays
  SnapshotCleanupKeepsNewest
  RootWasFull
  BackupCleanupKeepsNewest
  EveryFileOnce
  TiersFollowAge
  FilterDropsOnlyExpired
  DownsampleFaithful
PROPERTY
  PollersEnd
CHECK_DEADLOCK FALSE
