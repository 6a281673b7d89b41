SPECIFICATION Spec
CONSTANTS
  NoValue = NoValue
  Keys <- ThreeKeys
  Roots <- TwoRoots
  Values = {on}
  Props = {acl}
  PropValues = {all, none}
  Named <- NamedNodes
  Spoken <- SpokenNodes
  CanFill = TRUE
  CanFail = TRUE
  CanDie = TRUE
INVARIANT TreeIsWhole
PROPERTIES CacheIsMap NothingLost
