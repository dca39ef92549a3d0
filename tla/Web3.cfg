\* Two chains that share one receipt permit and one pool worker.  The node of
\* one is up to date, drops nothing and goes on mining; the provider of the
\* other reports late and drops.
SPECIFICATION LiveChainSpec
CONSTANTS
  sepolia = sepolia
  arbitrum = arbitrum
  Chains <- TwoChains
  Jobs <- FourJobs
  NoJob = 0
  ChainOf <- HalfOnEach
  Blocking <- OneBlocksOnEach
  Permits = 1
  PoolWorkers = 1
  AccurateView <- OnlySepolia
  Drops <- OnlyArbitrum
  MaxNonce = 1
  MaxCrashes = 1
INVARIANTS
  TypeOK
  ChosenIsNext
  UniqueWithinEpoch
  StallIsWatched
PROPERTIES
  AcceptedIsMined
  EveryJobEnds
