SPECIFICATION UtilitySpec
CONSTANTS
  d1 = d1
  d2 = d2
  s1 = s1
  c1 = c1
  c2 = c2
  Dates <- DateObjects
  Spans <- SpanObjects
  GivenTicks <- Ticks
  GivenParts <- SpanParts
  MsPerSecond = 2
  SecondsPerMinute = 1
  MinutesPerHour = 1
  HoursPerDay = 2
  IntHalf = 5
  MaxTicks = 7
  GivenStamps <- StampInputs
  GivenFields <- FieldInputs
  GivenSteps <- Steps
  GivenDelays <- Delays
  MonthsPerYear = 2
  FirstDay <- MonthStart
  LongestMonth = 2
  SecondsPerDay = 2
  DaysPerWeek = 3
  Years <- YearRange
  Months <- MonthRange
  ZoneOffset = 1
  Callers <- TwoCallers
  Drives <- OneDrive
  Home <- HomeText
  GivenTexts <- PathTexts
  GivenNames <- NewNames
  GivenPatterns <- Patterns
  GivenTrees <- Trees
  StackLimit = 4
  NameLength <- TwoNames
  Lengths = {0, 4}
  MaxColumns = 3
  MaxRows = 3
  MaxCells = 3
  NoMinimum = 1000
INVARIANTS PartsDenoteTicks ReadsItsStamp OverflowsAtTheTop RowsStayTogether
PROPERTIES AddingNothing CreationIsHonest WalkFindsAll
SYMMETRY Symmetry
CHECK_DEADLOCK FALSE
