SPECIFICATION Spec
CONSTANTS
  NoValue = NoValue
  Keys <- ThreeKeys
  Roots <- TwoRoots
  Values = {on}
  Props = {acl, vendor}
  PropValues = {all}
  Named <- NamedNodes
  Spoken <- SpokenNodes
  CanFill = FALSE
  CanFail = FALSE
  CanDie = FALSE
PROPERTY NothingReturns
