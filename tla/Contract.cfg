\* Registrations, grants, revocations, the access log and its paginated views.
SPECIFICATION Spec
CONSTANTS
  alice = alice
  bob = bob
  zero = zero
  empty = empty
  f1 = f1
  c1 = c1
  c2 = c2
  FileIds <- MCFileIds
  EmptyId <- empty
  Addresses <- AclAddresses
  ZeroAddress <- zero
  Chunks <- MCChunks
  ChunkLists <- MCChunkLists
  MaxPageSize = 2
  MaxAclTx = 3
  MaxLogs = 3
INVARIANTS
  TypeOK
  EventsExplainPermissions
  AnomalyIndexExact
  PagesCoverLogs
CHECK_DEADLOCK FALSE
