\* A file of three chunks: an upload, a download under its own or another
\* password and a delete that race.
SPECIFICATION FairSpec
CONSTANTS
  f = f
  u1 = u1
  d1 = d1
  x1 = x1
  secret = secret
  other = other
  Uploads <- OneUpload
  Downloads <- OneDownload
  Deletes <- OneDelete
  FileOf <- OneFile
  Passwords <- TwoPasswords
  PasswordOf <- AllSecret
  SizeOf <- ThreeChunks
  ChunkSize = 2
  PoolSize = 2
  MaxChunks = 3
  MaxFailures = 1
  MaxCrashes = 1
INVARIANTS
  TypeOK
  DownloadsAreExact
PROPERTIES
  ImplementsFileStore
  EveryRequestEnds
