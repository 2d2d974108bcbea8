SPECIFICATION FairSpec
CONSTANTS
  p1 = p1
  p2 = p2
  p3 = p3
  Point = {p1, p2, p3}
  Path <- DeepPaths
  Portions <- TwoPortions
  MaxPointInProgress = 2
  MaxReadingJobs = 2
  TargetCount = 2
  Worker = {w1, w2, w3}
  FaultyCommands = {"READ_FILE", "PROCESS_JOBS", "WRITE_PNTS"}
INVARIANTS
  TypeOK
  IdleExact
  NodeAccounting
  NoLateTask
  PointsKept
  ProgressAccounting
  NothingStranded
  ShutdownReachesAll
PROPERTIES
  RaisesOnlyForErrors
  ConvertTiles
  Terminates
  ErrorsReported
