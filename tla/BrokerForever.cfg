SPECIFICATION FairSpec
CONSTANTS
  s1 = s1
  s2 = s2
  r1 = r1
  r2 = r2
  w1 = w1
  w2 = w2
  j1 = j1
  None = None
  Sessions = {s1, s2}
  Routes = {r1, r2}
  WorkerIds = {w1, w2}
  Jobs = {j1}
  WorkerOf <- TwoWorkerOf
  RoutesOf <- TwoRoutesOf
  Generation <- OneGeneration
  Policy = "strict"
  Mode = "run_forever"
PROPERTIES
  LapsedLeaves
  BeatReaches
CHECK_DEADLOCK FALSE
