SPECIFICATION Spec
CONSTANTS
  Roots <- RootList
  OtherSchema <- Accounts
  Alphabet = {"/", "a", "b", "_"}
  Names <- NameSet
  LeafTypes = {"string", "int"}
  MaxNodes = 2
  MaxLength = 7
  CanDescend = FALSE
INVARIANTS UnnamedIsAlone KeysAgree TreeIsOne
CHECK_DEADLOCK FALSE
