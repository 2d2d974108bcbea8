SPECIFICATION Spec
CONSTANTS
  p1 = p1
  p2 = p2
  p3 = p3
  Point = {p1, p2, p3}
  Path <- ThreePaths
  Portions <- OnePortion
  MaxPointInProgress = 5
  MaxReadingJobs = 1
  TargetCount = 2
  Worker = {w1, w2}
  FaultyCommands = {}
SYMMETRY WorkerSymmetry
INVARIANTS
  CountsMatch
