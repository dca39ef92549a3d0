\* The gateway restarts between INCR and EXPIRE.
SPECIFICATION Spec
CONSTANTS
  tab1 = tab1
  tab2 = tab2
  alice = alice
  bob = bob
  c1 = c1
  c2 = c2
  c3 = c3
  None = None
  Tabs <- TwoTabs
  Addresses <- OneAddress
  Calls <- ThreeCalls
  TabOf <- LastInOther
  AddressOf <- AllAlice
  RateLimit = 1
  SessionTTL = 3
  Margin = 1
  MaxTime = 0
  MaxCrashes = 1
INVARIANT LimitIsTemporary
CHECK_DEADLOCK FALSE
