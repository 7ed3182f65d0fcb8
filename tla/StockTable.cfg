\* The table under every sequence of calls: invariants and the ledger.
SPECIFICATION Spec
CONSTANTS
  Text <- MCText
  Upper <- MCUpper
  Location = {"Global", "Bar"}
  Global = "Global"
  NoNumber = NoNumber
  Grain = 3
  Files <- MCFiles
  Delta <- MCDelta
  MaxCount = 2
  MaxLocations = 3
  NoLocation = NoLocation
INVARIANTS
  TypeOK
  CountsAddressable
  CurrentIsFirst
  TotalIsColumnSum
  ReloadKeepsTable
  MinimalSaveLosesNoCount
PROPERTY KeepsLedger
