\* Two command sessions on one interface; the other parts' constants are in
\* the module.
CONSTANTS
  Sessions = {"c1", "c2"}
  MaxChannels = 2
  Hosts = {"h1"}
  Addresses = {"a1"}
  MaxOverlays = 1
  MaxVersion = 5
  None = None
SPECIFICATION MCSpec
INVARIANTS  SshSound  TestsAttended TrunkSound
CHECK_DEADLOCK FALSE
