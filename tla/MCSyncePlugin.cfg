SPECIFICATION Spec
CONSTANTS
  Accounts <- AccountSet
  LocalSync <- LocalSet
  Values = {"v1", "v2", "v3", "addressbook", "ActiveSync Address Book"}
  Configs <- ConfigOf
  Template <- Proposed
  LastUrl = "syncURL"
  Edits <- EditSet
  MaxEdits = 2
  CanVanish = FALSE
  CanMix = FALSE
INVARIANTS TypeOK
PROPERTIES Answers ListsWhatIsThere StoredAsWanted
