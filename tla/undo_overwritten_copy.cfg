SPECIFICATION Spec
CONSTANTS
  Callers = {a}
  Files = {"f", "g", "x"}
  Dirs = {"d"}
  Parent <- InDirectory
  Cwds = {"home"}
  At <- HomeOnly
  Texts = {"", "old", "new", "odd", "plain", "long", "large"}
  Empty = ""
  Unread = {"large"}
  Echoed <- ByEcho
  Starts <- OneFile
  Commands <- AllCommands
  Limits = {2}
  MaxCommands = 3
PROPERTY UndoRestoresCopies
CHECK_DEADLOCK FALSE
