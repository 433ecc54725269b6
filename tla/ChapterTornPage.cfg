SPECIFICATION Spec
CONSTANTS
  c1 = c1
  c2 = c2
  None = None
  Torn = Torn
  Chapters = {c1}
  Lists <- TwoPages
  ImageExt = {".jpg", ".png"}
  Invocations <- OneDownload
  MaxKills = 1
  MaxErrors = 0
INVARIANTS
  ReadyIsWhole
