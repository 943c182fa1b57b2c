SPECIFICATION Spec

CONSTANTS
  a = a
  b = b
  c = c
  i = i
  Jobs <- MCSmallJobs
  DomainOf <- MCSmallDomainOf
  PhaseOf <- MCSmallPhaseOf
  NDomains = 1
  NPhases = 2
  AIJobs = {}
  ReuseJobs <- MCReuse
  HandoffBefore <- MCTwo
  HandoffAfter <- MCTwo
  Permits = 2
  Cancels = {}
  Clears = {r1}
  Deletes = {r2}

INVARIANTS
  PhasesDrained

PROPERTIES
  DeletedStaysDeleted
  OutcomeStands
  RunningEnds
  ScanTerminates
