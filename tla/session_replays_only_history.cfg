SPECIFICATION Spec
CONSTANTS
  Client = {c1}
  IdleTimer = IdleTimer
  NoName = NoName
  BranchName = {b1}
  ForkName = {f1}
  Methods = {"exec", "checkpoint", "branch", "checkout"}
  CommandThreshold = 3
  MaxReplayOps = 10
  StorageFails = FALSE
  MaxCalls = 5
PROPERTIES RecoversOnlyHistory
CHECK_DEADLOCK FALSE
