SPECIFICATION Spec
CONSTANTS
  A = A
  B = B
  Empty = Empty
  NoName = Empty
  Names <- Two
  Given <- GivenPaths
  MaxDepth = 3
  MaxKeys = 4
INVARIANTS MapOwnsAll OnlyTheTree DanglesByName
PROPERTIES TreeIsGone
CHECK_DEADLOCK FALSE
