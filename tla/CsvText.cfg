\* Saving and reusing texts of quotation marks, commas and a letter.
SPECIFICATION Spec
CONSTANTS
  A = A
  Char <- MCChar
  Quote = Quote
  Comma = Comma
  NoNumber = NoNumber
  Text <- MCText
  Upper <- MCUpper
  Location <- MCLocation
  Global <- MCGlobal
  Grain = 1
  Lists <- MCLists
  MaxHeader = 9
  MaxTotal = 2
INVARIANTS
  TypeOK
  TidyIsDefined
PROPERTIES
  SavesReadBack
  CellsSuffice
