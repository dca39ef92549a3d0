\* Says: a download answered with success is complete.
SPECIFICATION MCSpec
CONSTANTS
  f = f
  empty = empty
  service = service
  alice = alice
  zero = zero
  u1 = u1
  d1 = d1
  u2 = u2
  d0 = d0
  x0 = x0
  x1 = x1
  x2 = x2
  Uploads <- U1
  Downloads <- D1
  Deletes <- None
  UserOf <- Users
  FileOf <- OneFile
  NumChunksOf <- Counts
  MaxChunks = 2
  EmptyId <- empty
  Addresses <- MCAddresses
  ZeroAddress <- zero
  Service <- service
  MaxShares = 1
  MaxAclTx = 2
INVARIANT DownloadIsComplete
CHECK_DEADLOCK FALSE
