SPECIFICATION EnginesSpec
CONSTANTS
  Stops = {1, 2, 3, 4}
  Queries <- McQueries
  Day = 10
  Unreached = 30
CHECK_DEADLOCK FALSE
INVARIANT FrontiersExact
INVARIANT JourneysReal
INVARIANT ReductionKeepsArrivals
INVARIANT ScansExact
INVARIANT UltraExact
INVARIANT CarriageExact
INVARIANT FaresExact
