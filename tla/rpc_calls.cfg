SPECIFICATION Spec
CONSTANTS
  Calls = {c1, c2}
  Options <- OneOption
  MaxRefresh = 1
  MaxAttempts = 2
  BatchSize = 2
  MaxLoops = 2
SYMMETRY Symmetry
INVARIANTS TypeOK NoCallForgotten AtMostOnce QueueHasOwner
PROPERTIES SendsAreLive ImplementsRemoteCall
CHECK_DEADLOCK FALSE
