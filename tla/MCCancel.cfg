SPECIFICATION Spec

CONSTANTS
  a = a
  b = b
  c = c
  i = i
  Jobs <- MCJobs
  DomainOf <- MCDomainOf
  PhaseOf <- MCPhaseOf
  NDomains = 2
  NPhases = 2
  AIJobs <- MCAI
  ReuseJobs <- MCReuse
  HandoffBefore <- MCTwo
  HandoffAfter <- MCTwo
  Permits = 2
  Cancels = {r1, r2}
  Clears = {}
  Deletes = {}

INVARIANTS
  TypeOK
  RunningIsAlive
  AIRunsLast
  NoticedCancelLeavesNothing
  CompletedIsWhole

PROPERTIES
  QuietAfterNotice
  RunsInStages
