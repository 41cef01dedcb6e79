SPECIFICATION CalendarSpec
CONSTANTS
  Stops = {1, 2, 3, 4}
  Queries <- McQueries
  Day = 10
  Unreached = 30
CHECK_DEADLOCK FALSE
INVARIANT UltraExactOnDate
