SPECIFICATION Spec
CONSTANTS
  Callers = {a, b}
  Commands <- AllCommands
  Calls <- SomeCalls
  Asked <- Strangers
  Configs <- Configurations
  Language = {"python", "node"}
  NativeNames = {"ls", "cp"}
  FsNames = {"ls", "cp"}
  Unsupported = {"cp"}
  RpcNames = {"npm", "git", "python", "pip"}
  Loadable = {"eslint"}
  Custom = {"tool"}
  Interpreter <- Interpreters
  Packages <- Managers
  CacheSize = 2
INVARIANTS TypeOK RoutedRight PipelineInOrder RunsBounded SettlesRight
PROPERTIES CallsSettle
CHECK_DEADLOCK FALSE
