SPECIFICATION Spec
CONSTANTS
  name = name
  port = port
  mode = mode
  NPlugins = 2
  Keys <- ThreeKeys
  Owner <- TwoOwners
  Values = {on}
  Missing = Missing
  ReadOnly = {port}
  Leaves = {name, mode}
  FailsIn = {"set"}
  CancelIn = {"none"}
PROPERTY SetIsPassedOn
