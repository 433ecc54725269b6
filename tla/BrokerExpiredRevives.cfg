SPECIFICATION Spec
CONSTANTS
  s1 = s1
  s2 = s2
  r1 = r1
  r2 = r2
  w1 = w1
  w2 = w2
  j1 = j1
  None = None
  Sessions = {s1, s2}
  Routes = {r1}
  WorkerIds = {w1}
  Jobs = {j1}
  WorkerOf <- SharedWorkerOf
  RoutesOf <- SharedRoutesOf
  Generation <- TwoGenerations
  Policy = "strict"
  Mode = "run_once"
PROPERTIES
  ExpiredIsFinal
CHECK_DEADLOCK FALSE
