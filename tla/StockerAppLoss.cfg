\* Quick load asks before it replaces counts that were not saved.
SPECIFICATION Spec
CONSTANTS
  Text <- MCText
  Upper <- MCUpper
  Location = {"Global", "Bar"}
  Global = "Global"
  CutName = "Bar"
  NoNumber = NoNumber
  NoFile = NoFile
  Grain = 1
  Files <- MCFiles
  Delta = {1}
  HistoryLimit = 2
  MaxCount = 1
  MaxLocations = 2
PROPERTY LossIsConfirmed
