\* Three files, one of them on another network, and two deletions in two tabs.
SPECIFICATION ListSpec
CONSTANTS
  t1 = t1
  t2 = t2
  a = a
  b = b
  c = c
  Pages <- TwoTabs
  Files <- ThreeFiles
  Shown <- TwoShown
  MaxDeletes = 2
INVARIANTS
  ListIsExact
  NothingVanishes
CHECK_DEADLOCK FALSE
