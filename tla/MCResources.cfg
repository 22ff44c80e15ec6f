SPECIFICATION ResourcesSpec
CONSTANTS
  t1 = t1
  t2 = t2
  o1 = o1
  o2 = o2
  o3 = o3
  i1 = i1
  i2 = i2
  b1 = b1
  b2 = b2
  b3 = b3
  l1 = l1
  l2 = l2
  l3 = l3
  Threads <- SomeThreads
  Objects <- SomeObjects
  Indexes <- SomeIndexes
  Blocks <- SomeBlocks
  Values = {0, 1}
  DefaultValue = 0
  Lockers <- SomeLockers
  None = None
  MaxDepth = 3
  JavaThreads <- SomeThreads
  Enviroments <- SomeObjects
  RegistryKeys = {"k1", "k2"}
  ValueNames = {"v"}
  Texts <- MCTexts
  Numbers <- MCNumbers
  ArgChars = {45, 61, 120}
  MaxArg = 4
  MaxArgs = 2
SYMMETRY Symmetry
INVARIANTS ValuesBelongToThreads NestedWaitKeepsMutex AttachedWhileHeld ValuesReadBack
           LastArgumentCounts
PROPERTIES WaitRestoresHold
CHECK_DEADLOCK FALSE
