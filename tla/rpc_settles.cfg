SPECIFICATION Spec
CONSTANTS
  Calls = {c1}
  Options <- AllOptions
  MaxRefresh = 2
  MaxAttempts = 3
  BatchSize = 2
  MaxLoops = 2
PROPERTIES SentCallsSettle QueuedCallsSettle
CHECK_DEADLOCK FALSE
