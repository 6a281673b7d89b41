SPECIFICATION Spec
CONSTANTS
  Contexts = {context1, context2}
  ClientIds = {"test", "work"}
  DefaultId <- PathNames
  CanReuse = FALSE
  CanHaunt = FALSE
INVARIANTS NamesDiffer ReverseIsBuilt
PROPERTIES NamesKept StoreCompletes
