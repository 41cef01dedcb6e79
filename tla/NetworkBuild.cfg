SPECIFICATION NetworkSpec
CONSTANTS
  Feeds <- MCFeeds
  Blank <- Empty
  Reached <- MCReached
  NoTrip = NoTrip
  Inputs <- TownInputs
  Kinds <- TownKinds
  Shipped <- TownProfiles
  OverrideProfiles = 2
  MinRun = 5
  StopReach = 20
  WitnessSettleLimit = 2
  Walks <- TownWalks
  FieldSeeds <- TownSeeds
  MaxQueries = 2
INVARIANT SplitsExact
INVARIANT TripsConserved
INVARIANT LookupExact
INVARIANT LayoutIgnoresOrder
INVARIANT HierarchyExact
INVARIANT WalksExact
INVARIANT RidesExact
INVARIANT ProfilesLatest
INVARIANT PoliciesExact
INVARIANT TransfersFastest
