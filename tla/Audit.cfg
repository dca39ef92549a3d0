\* Two chains read in pages of one entry, a level log of two entries; the Redis commands of a1 and of the query may fail.
SPECIFICATION Spec
CONSTANTS
  sepolia = sepolia
  arbitrum = arbitrum
  a1 = a1
  a2 = a2
  b1 = b1
  q1 = q1
  ka = ka
  kb = kb
  Chains <- TwoChains
  Calls <- ThreeCalls
  Queries <- OneQuery
  ChainOf <- SecondOnOther
  KeyOf <- SharedKey
  LevelOf <- MCLevels
  FlagOf <- MCFlags
  LogWorkers = 1
  LevelCap = 2
  PageLimit = 1
  MaxPages = 3
  PageSize = 1
  RedisFails <- Failing
  MaxCrashes = 1
INVARIANTS
  TypeOK
  PagesAreConsistent
  AcceptedIsShown
  LevelsAreTheCallsOwn
CHECK_DEADLOCK FALSE
