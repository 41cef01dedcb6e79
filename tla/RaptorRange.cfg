SPECIFICATION BothSpec
CONSTANTS
  Stops = {1, 2, 3, 4, 5}
  Queries <- RangeQueries
  Day = 10
  Unreached = 30
INVARIANT ChainsConsistent
INVARIANT PassClosed
INVARIANT PassExact
INVARIANT FrontierExact
INVARIANT CanonicalElection
INVARIANT ContinuationsExact
INVARIANT AnswersExact
INVARIANT ProductsExact
