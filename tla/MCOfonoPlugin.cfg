SPECIFICATION Spec
CONSTANTS
  Modems <- ModemList
  Imsis = {"imsi1", "imsi2"}
  NoImsi = "no imsi"
  SimsIn <- SimStates
  Sim <- SimOf
  MmsPaths <- MmsList
  Unset = "unset"
  Ours = "ours"
  Theirs = "unset"
  OthersMake = {"internet1", "mms1"}
  Requests <- RequestSet
  FailIn <- Noticed
  CancelIn <- Heeded
  CanSwap = FALSE
INVARIANTS TypeOK
PROPERTIES Answers ListsWhatIsThere StoredAsWanted
