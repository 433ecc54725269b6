SPECIFICATION FairSpec
CONSTANTS
  c1 = c1
  c2 = c2
  None = None
  Torn = Torn
  Chapters = {c1, c2}
  Lists <- AnyList
  ImageExt = {".jpg", ".png"}
  Invocations <- AnyFlags
  MaxKills = 1
  MaxErrors = 1
INVARIANTS
  ZipHasEveryPage
  DoneIsReady
  StopsOnlyOutsideTry
PROPERTIES
  ZipNeverShrinks
  EventuallyZipped
