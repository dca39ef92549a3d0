\* One upload of some thousand kinds of files, screened by the scan and the
\* sandbox while docker is slow, fails or restarts.
SPECIFICATION ScreeningSpec
CONSTANTS
  Uploaded <- AllFiles
  Behaviours <- NoneOrAll
  Traces <- TraceKinds
  MaxSlow = 4
INVARIANTS
  TypeOK
  EvidenceDecides
  BadVerdictBlocks
  InfectionIsReported
  LifeIsLongEnough
  ContainerIsRemoved
PROPERTIES
  ContainersStop
