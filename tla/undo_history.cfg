SPECIFICATION Spec
CONSTANTS
  Callers = {a, b}
  Files = {"f", "g", "x"}
  Dirs = {"d"}
  Parent <- InDirectory
  Cwds = {"home", "d"}
  At <- HomeAndD
  Texts = {"", "old", "new", "odd", "plain", "long", "large"}
  Empty = ""
  Unread = {"large"}
  Echoed <- ByEcho
  Starts <- OddFiles
  Commands <- AllCommands
  Limits = {0, 2}
  MaxCommands = 3
SYMMETRY Symmetry
INVARIANTS TypeOK HistoryInOrder Unwinds
PROPERTIES OwnEntryLeaves UndoRestores
CHECK_DEADLOCK FALSE
