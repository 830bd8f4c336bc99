CONSTANTS
  Kinds <- SomeKinds
  CardName = "a"
  Language = "go"
  HourTicks = 2
  DayHours = 2
  WeekDays = 2
  Window = 2
  TrendsDays = 1
  MaxEvents = 2
  MinTime = 6
  MaxTime = 8
SPECIFICATION Spec
INVARIANT TypeOK
INVARIANT HeldIsBetween
INVARIANT WindowNeverShort
CHECK_DEADLOCK FALSE
