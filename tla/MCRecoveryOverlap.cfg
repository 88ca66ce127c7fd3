CONSTANTS
  Sessions = {s1, s2}
  Generations = {g1, g2}
  Nil = Nil
  Managed = Managed
  MaxVersion = 1
  OverlapRequests = TRUE
  EnvironmentFails = TRUE
  PriorSchemas = {"v3", "unusable"}
SPECIFICATION FairSpec
INVARIANTS StrandedSessionReported
PROPERTIES RetiredSnapshotStaysRemoved OperationsReturn RecoveryEnds
