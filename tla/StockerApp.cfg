\* The session: every order of user events, layouts, re-creations and kills.
SPECIFICATION Spec
CONSTANTS
  Text <- MCText
  Upper <- MCUpper
  Location = {"Global", "Bar"}
  Global = "Global"
  CutName = "Bar"
  NoNumber = NoNumber
  NoFile = NoFile
  Grain = 1
  Files <- MCFiles
  Delta = {1}
  HistoryLimit = 2
  MaxCount = 1
  MaxLocations = 2
INVARIANTS
  TypeOK
  IndicesInTable
  LookupsCurrent
  SpinnerMirrorsTable
  SpinnerShowsLocation
PROPERTY TornSaveInventsNothing
