SPECIFICATION Spec
CONSTANTS
  a = a
  b = b
  Callbacks = {a, b}
  Interest <- Interests
  MaxChunks = 2
  Codes <- ExitCodes
INVARIANTS TypeOK DeliveredOnce DeliveredInOrder ExitOnce NoWaiterLeft
PROPERTIES SilentAfterDispose ResultStands KilledIsAnswered
CHECK_DEADLOCK FALSE
