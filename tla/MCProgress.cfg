SPECIFICATION Spec

CONSTANTS
  Cap = 2
  SilenceLimit = 1
  NReports = 2
  MaxDrops = 1

INVARIANTS
  TypeOK
  EndIsStored
  LoneViewerIsUpToDate

PROPERTIES
  StreamTellsTheEnd
  CrashIsTold
