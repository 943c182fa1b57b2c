SPECIFICATION Spec

CONSTANTS
  Schedules = {s1}
  Scans = {1, 2, 3}
  Interval = 1
  Creators = {c1}
  Removals = {r1}
  Cancels = {}
  Horizon = 1

PROPERTIES
  AcceptedIsRun
  DueIsServed
