SPECIFICATION SysSpec
CONSTANTS
  s1 = s1
  s2 = s2
  r1 = r1
  w1 = w1
  j1 = j1
  None = None
  Sessions = {s1, s2}
  Routes = {r1}
  WorkerIds = {w1}
  Jobs = {j1}
  WorkerOf <- OneWorkerOf
  RoutesOf <- OneRoutesOf
  Generation <- TwoGenerations
  RouteOf <- SharedRouteOf
  SessionOf <- DrawnSessions
  Policy = "job-id"
  Mode = "run_once"
  Configs <- ReadyAckScenarios
  MaxLapsed = 1
INVARIANTS
  SecuredResultIsSafe
  FactsArePossible
  OnlyHeartbeatOvertakesJob
PROPERTIES
  ImplementsBroker
CHECK_DEADLOCK FALSE
