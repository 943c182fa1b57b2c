SPECIFICATION Spec

CONSTANTS
  Schedules = {s1}
  Scans = {1, 2, 3}
  Interval = 1
  Creators = {c1}
  Removals = {r1}
  Cancels = {k1}
  Horizon = 2

INVARIANTS
  TypeOK
  RunsAnIntervalApart
  NoSelfOverlap
  AcceptedIsHeld
