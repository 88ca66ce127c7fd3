CONSTANTS
  NInterfaces = 2
  CarrierTypes = {link_down, poe_loss}
  CounterTypes = {fcs_errors}
  FaultValues = {1, 2}
  ActionIDs = {a1}
  Names = {c1}
  MaxActions = 1
  MaxHistory = 2
  MaxVersion = 6
  Operations = {"fault", "admin", "bank", "checkpoint", "restore", "action", "restart"}
  Nil = Nil
  Cut = link_down
SPECIFICATION MCSpec
CHECK_DEADLOCK FALSE
INVARIANTS
  ExportsAndReports
PROPERTIES
  RunningChangesRecorded
  HistoryNotReplayed
  EventsDispatched
