\* One tab whose wallet switches between two accounts; sessions expire.
SPECIFICATION Spec
CONSTANTS
  tab1 = tab1
  tab2 = tab2
  alice = alice
  bob = bob
  c1 = c1
  c2 = c2
  c3 = c3
  None = None
  Tabs <- OneTab
  Addresses <- TwoAddresses
  Calls <- ThreeCalls
  TabOf <- AllInOne
  AddressOf <- LastIsBob
  RateLimit = 2
  SessionTTL = 3
  Margin = 1
  MaxTime = 3
  MaxCrashes = 0
INVARIANTS
  ServedAsCaller
  CachedIsLive
CHECK_DEADLOCK FALSE
