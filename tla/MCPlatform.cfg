SPECIFICATION PlatformSpec

CONSTANTS
  Parts = {"inventory", "findings", "accounts", "keys", "evidence", "handoffs"}
  None = None
  Roots = {"root"}
  Canonical <- MCCanonical
  Batches <- MCBatches
  MaxBuilds = 2
  Programs = {p, q}
  FindingIds = {f}
  Channels = {c}
  NAssessments = 2
  MaxEdits = 2
  MaxOutages = 1
  Passwords = {p1, p2}
  Names = {admin, other}
  Admin = admin
  Setups = {s1}
  MaxSecrets = 2
  MaxAttempts = 1
  MaxRestarts = 1
  Keys = {k1, k2}
  Values = {v, w}
  Blank = Blank
  Exports = {Blank, v}
  InFile = {Blank, v}
  Mask = Mask
  Clear = Clear
  Readers = {r}
  Savers = {s, t}
  MaxStarts = 2
  MaxSaves = 2
  Images = {x, y}
  NScans = 2
  Deleters = {d, e}
  MaxDeaths = 1
  Apex = "www"
  InDomain <- MCInDomain
  Elsewhere <- MCElsewhere
  Addresses = {"address"}
  Excluded = {"internal"}
  Answering = {"www", "internal"}
  Gone = {"old"}
  Allowed = {"www"}
  Selections <- MCSelections
  Finds <- MCFinds

INVARIANTS
  PlatformTypeOK
  ConfirmedWasValidated
  RepeatIsQuiet
  ReopenedOnRecurrence
  DeltasAddUp
  PortfolioAgrees
  ResetTakesEffect
  ResetEndsSessions
  LockedStays
  NewestTakesEffect
  ScreenshotsKept
  RowsOwnTheirBlobs
  HandoffsAreSettled
  HandoffInScope
  AliveUrlsKept
  CredentialsAccountedFor

CHECK_DEADLOCK FALSE
