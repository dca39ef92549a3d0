\* Two scans, one of them blocked, another request and a reseed; a Redis command or a fit fails, a restart.
SPECIFICATION MCSpec
CONSTANTS
  q1 = q1
  q2 = q2
  q3 = q3
  q4 = q4
  p1 = p1
  alice = alice
  Users <- OneUser
  UserOf <- AllAlice
  Scans <- AllScans
  Blocked <- Blocking
  Detects <- OneDetect
  Reseeds <- OneReseed
  BufferMax = 2
  MinFit = 2
  RefitEvery = 2
  SeedSize = 2
  HistoryMax = 2
  HistoryRead = 1
  MaxFailures = 1
  MaxCrashes = 1
INVARIANTS
  TypeOK
  WindowsAreConsecutive
  ScoredWhenWarm
  HistoryIsSeen
CHECK_DEADLOCK FALSE
