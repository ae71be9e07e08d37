SPECIFICATION Spec
CONSTANTS
  Client = {c1}
  IdleTimer = IdleTimer
  NoName = NoName
  BranchName = {b1}
  ForkName = {f1}
  Methods = {"exec", "branch", "checkout", "fork"}
  CommandThreshold = 3
  MaxReplayOps = 10
  StorageFails = FALSE
  MaxCalls = 4
INVARIANTS RefsResolve CheckoutKeepsWork
CHECK_DEADLOCK FALSE
