CONSTANTS
  Modulus = 16
  MaxDepth = 9
  Files <- MCFiles
  Ids <- MCIds
  Header <- MCHeader
  Numbers = {0, 1, 2}
  Codesets = {"utf8", "ascii", "odd"}
  LocaleCodeset = "utf8"
  Convertible <- MCConvertible
  Unconvertible <- MCUnconvertible
  Bytes <- MCBytes
  Word = 2
  Align = 2
  BlockSize = 6
  MaxRebindings = 2
INIT Init
NEXT Next
CONSTRAINT Relevant
INVARIANTS
  FoundIffPresent
  OwnCodeset
  RegionsApart
  RightForm
  NothingLeft
CHECK_DEADLOCK FALSE
