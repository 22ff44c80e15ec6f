SPECIFICATION TextSpec
CONSTANTS
  Chars <- Codes
  MaxText = 4
  MaxTarget = 2
  MaxTo = 2
  Callbacks <- Blank
  SizeRange = 256
  Pieces <- MCPieces
  Uuids <- MCUuids
  MaxPieces = 2
  TypedChars = {0, 10, 46, 47, 61, 65}
  MaxTyped = 5
  PemLine = 4
  MimeLine = 8
INVARIANTS ResultsAreExact ThereAndBack ReadsInside
PROPERTIES CallsEnd
CHECK_DEADLOCK FALSE
