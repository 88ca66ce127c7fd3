CONSTANTS
  Sessions = {s1, s2}
  Generations = {g1, g2, g3}
  Nil = Nil
  Managed = Managed
  MaxVersion = 1
  OverlapRequests = FALSE
  EnvironmentFails = TRUE
  PriorSchemas = {"v3", "unusable"}
SPECIFICATION Spec
SYMMETRY Symmetry
INVARIANTS
  ManifestHasSnapshot
  RunningIsPersisted
  RunningConfigPresent
PROPERTIES
  ImplementsDurableSessions
