SPECIFICATION Spec
CONSTANTS
  Client = {c1}
  IdleTimer = IdleTimer
  NoName = NoName
  BranchName = {b1}
  ForkName = {f1}
  Methods = {"exec", "checkpoint"}
  CommandThreshold = 3
  MaxReplayOps = 10
  StorageFails = FALSE
  MaxCalls = 4
PROPERTIES LosesNone
CHECK_DEADLOCK FALSE
