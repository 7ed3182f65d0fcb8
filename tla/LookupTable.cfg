\* Every search over every list of up to two short names.
SPECIFICATION Spec
CONSTANTS
  Char <- MCChar
  Alnum <- MCAlnum
  Space = 32
  Upper <- MCUpper
  Lists <- MCLists
  Queries <- MCQueries
  NoQuery = NoQuery
INVARIANTS
  TypeOK
  SearchIsExact
  FoundByOwnName
