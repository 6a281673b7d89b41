SPECIFICATION Spec
CONSTANTS
  name = name
  port = port
  mode = mode
  NPlugins = 2
  Keys <- ThreeKeys
  Owner <- TwoOwners
  Values = {on, off}
  Missing = Missing
  ReadOnly = {port}
  Leaves = {name, port, mode}
  FailsIn = {"get", "get_all", "get_multiple", "set_multiple", "remove", "remove_multiple"}
  CancelIn = {"get", "get_all", "set", "set_multiple", "remove", "remove_multiple", "end"}
INVARIANTS TypeOK CacheIsSynced NothingLeft
PROPERTIES CommandsComplete Transactional
