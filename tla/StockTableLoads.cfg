\* Every load returns a code: the parsers verify the header and the rows.
SPECIFICATION Spec
CONSTANTS
  Text <- MCText
  Upper <- MCUpper
  Location = {"Global", "Bar"}
  Global = "Global"
  NoNumber = NoNumber
  Grain = 3
  Files <- MCFiles
  Delta <- MCDelta
  MaxCount = 2
  MaxLocations = 3
  NoLocation = NoLocation
INVARIANT LoadAlwaysReports
