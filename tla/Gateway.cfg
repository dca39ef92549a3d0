\* Two uploads under one file id; a shared file read and deleted; two deletes.
SPECIFICATION MCSpec
CONSTANTS
  f = f
  empty = empty
  service = service
  alice = alice
  zero = zero
  u1 = u1
  u2 = u2
  d0 = d0
  d1 = d1
  x0 = x0
  x1 = x1
  x2 = x2
  Uploads <- U12
  Downloads <- D01
  Deletes <- X012
  UserOf <- Users
  FileOf <- OneFile
  NumChunksOf <- Counts
  MaxChunks = 2
  EmptyId <- empty
  Addresses <- MCAddresses
  ZeroAddress <- zero
  Service <- service
  MaxShares = 2
  MaxAclTx = 3
INVARIANTS
  TypeOK
  RegisteredIsStored
  DeletedStaysGone
  DownloadIsWholeOrFirst
  OnlyGranteesAreServed
  AuditAgreesWithAnswer
CHECK_DEADLOCK FALSE
