SPECIFICATION Spec

CONSTANTS
  Cap = 2
  SilenceLimit = 0
  NReports = 1
  MaxDrops = 0

INVARIANT
  DoneMeansOver
