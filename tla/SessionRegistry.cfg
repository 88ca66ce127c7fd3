CONSTANTS
  Sessions = {s1, s2, s3, s4}
  Interfaces = {e1, e2}
  VLANs = {v1, v2}
  Native = Native
  DeviceCounts = {1, 2}
  MaxSessions = 3
  MaxDevices = 5
  Nil = Nil
  EnvironmentFails = TRUE
SPECIFICATION Spec
SYMMETRY Symmetry
INVARIANTS
  RegistrySound
  ApiServesCurrentRuntimes
