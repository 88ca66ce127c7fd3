CONSTANTS
  Devices = {d1, d2}
  MaxVersion = 1
  Retries = 1
  Nil = Nil
SPECIFICATION Spec
CHECK_DEADLOCK FALSE
INVARIANTS
  NoInformForgotten
