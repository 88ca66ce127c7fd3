CONSTANTS
  Sessions = {s1}
  Generations = {g1, g2, g3, g4}
  Nil = Nil
  Managed = Managed
  MaxVersion = 1
  OverlapRequests = FALSE
  EnvironmentFails = FALSE
  PriorSchemas = {"v2"}
SPECIFICATION Spec
INVARIANT MigratedSessionsRecovered
