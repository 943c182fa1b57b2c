SPECIFICATION Spec

CONSTANTS
  Schedules = {s1, s2}
  Scans = {1, 2, 3}
  Interval = 1
  Creators = {}
  Removals = {}
  Cancels = {}
  Horizon = 1

PROPERTIES
  LaunchedOnlyWhenIdle
