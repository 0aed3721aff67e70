\* An int of 16 values, a long of 128: numbers in range, out of range, and
\* large enough to come back into it.
CONSTANTS
  Typed = {0, 1, 2, 3, 4, 5, 9, 17, 200}
  IntSpan = 16
  LongMax = 63
  MaxId = 6
  MaxCopies = 5
  MaxDays = 3
  MaxRest = 3
SPECIFICATION FairSpec
INVARIANTS TypeOK AfterTheEnd CallsAnswered StrayPaysForAll
PROPERTY AsksForEver
CHECK_DEADLOCK FALSE
