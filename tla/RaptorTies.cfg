\* Two trips of one line that leave a stop together.
SPECIFICATION BothSpec
CONSTANTS
  Stops = {1, 2, 3, 4, 5}
  Queries <- LeavingTogether
  Day = 10
  Unreached = 30
INVARIANT BestIsEarliest
