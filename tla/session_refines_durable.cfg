SPECIFICATION Spec
CONSTANTS
  Client = {c1, c2}
  IdleTimer = IdleTimer
  NoName = NoName
  BranchName = {b1}
  ForkName = {f1}
  Methods = {"exec", "checkpoint"}
  CommandThreshold = 3
  MaxReplayOps = 1
  StorageFails = TRUE
  MaxCalls = 3
INVARIANTS HistoryExtendsHead
PROPERTIES KeepsDurableHistory
SYMMETRY Clients
CHECK_DEADLOCK FALSE
