SPECIFICATION Spec
CONSTANTS
  None = None
  Torn = Torn
  Harnesses <- ThreeHarnesses
  Runs = 3
  ScenariosOf <- EachOnesScenarios
  Strategies <- ThreeStrategies
INVARIANTS
  ReportKeepsCase
  ReportAddsUp
  TablesAgree
  TallyAgrees
  ListedIsWhole
CHECK_DEADLOCK FALSE
