SPECIFICATION FairSpec
CONSTANTS
  Call = {c1, c2}
  WindowKinds = {"none", "count", "time"}
  FailureThreshold = 2
  HalfOpenSuccessThreshold = 2
  Cooldown = 2
  WindowSize = 2
  Offset = 1
  MaxRequests = 3
INVARIANTS TypeOK CountersBelowThresholds RequestsAccounted
PROPERTIES ClosesAfterSuccesses CoolsDown
