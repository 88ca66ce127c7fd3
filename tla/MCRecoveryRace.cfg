CONSTANTS
  Sessions = {s1, s2}
  Generations = {g1, g2, g3}
  Nil = Nil
  Managed = Managed
  MaxVersion = 1
  OverlapRequests = TRUE
  EnvironmentFails = FALSE
  PriorSchemas = {"v3"}
SPECIFICATION Spec
INVARIANT ManifestHasSnapshot
