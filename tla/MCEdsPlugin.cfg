SPECIFICATION Spec
CONSTANTS
  Uids <- UidSet
  ClientIds = {"work"}
  Values = {"v1", "v2"}
  Configs <- ConfigOf
  Edits <- EditSet
  MaxEdits = 2
  CanOmitType = FALSE
PROPERTIES Answers ListsWhatIsThere StoredAsWanted
