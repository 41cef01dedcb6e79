--------------------------- MODULE MCNetworkBuild ---------------------------
(***************************************************************************)
(* What a network is built from: timetables from small feeds of trips that *)
(* tie, overtake, run backwards or lack times, with the lookups made in    *)
(* them, and street networks from the inputs of SmallTowns, with the       *)
(* queries asked of them.  One is built at a time; pc is "none" beside     *)
(* streets, stage beside a timetable.                                      *)
(***************************************************************************)
EXTENDS TimetableBuild, SmallTowns

\* No time at all: a field that is empty.
Empty == -1
At(a, d) == [arrival |-> a, departure |-> d]
Trip(route, stops, given) == [route |-> route, stops |-> stops, times |-> given]

\* Three trips of one route over two stops: ties at the first departure,
\* dwells, overtaking, and one that runs backwards.
TwoStopTimes ==
  {<<At(0, 0), At(1, 1)>>, <<At(0, 0), At(2, 2)>>, <<At(0, 1), At(2, 2)>>,
   <<At(1, 1), At(1, 2)>>, <<At(1, 1), At(3, 3)>>, <<At(2, 2), At(1, 1)>>}
Overtaking == [1 .. 3 -> {Trip(1, <<1, 2>>, given) : given \in TwoStopTimes}]

\* Two trips over four stops with blanks: one or two of them in a row, a lone
\* arrival or departure, no anchor, and anchors that run backwards.
BlankTimes ==
  {<<At(0, 0), At(Empty, Empty), At(3, 3)>>,
   <<At(0, 2), At(Empty, Empty), At(3, Empty)>>,
   <<At(Empty, 1), At(Empty, Empty), At(2, 2)>>,
   <<At(1, 3), At(Empty, Empty), At(2, 2)>>,
   <<At(Empty, Empty), At(1, 1), At(2, 2)>>,
   <<At(0, 0), At(1, 1), At(Empty, Empty)>>,
   <<At(0, 1), At(2, 2), At(3, 3)>>}
Blanks == [1 .. 2 -> {Trip(1, <<1, 2, 1>>, given) : given \in BlankTimes}]
Rows == {<<Trip(1, <<1, 2, 3, 4>>,
              <<At(0, 1), At(Empty, Empty), At(Empty, Empty), At(4, 4)>>),
           Trip(1, <<1, 2, 3, 4>>,
              <<At(1, 1), At(Empty, 2), At(Empty, Empty), At(2, 4)>>)>>}

\* Routes and stop sequences side by side, a trip too short to ride.
Mixed ==
  [1 .. 3 -> {Trip(1, <<1, 2>>, <<At(0, 0), At(2, 2)>>), Trip(2, <<1, 2>>, <<At(0, 0), At(1, 1)>>),
              Trip(1, <<2, 1>>, <<At(1, 1), At(2, 2)>>), Trip(1, <<1, 2>>, <<At(1, 1), At(1, 1)>>),
              Trip(1, <<1>>, <<At(0, 0)>>)}]

MCFeeds == Overtaking \cup Blanks \cup Rows \cup Mixed
MCReached == 0 .. 3

CONSTANTS Inputs, Kinds, Shipped, OverrideProfiles, MinRun, StopReach, WitnessSettleLimit, Walks, FieldSeeds, MaxQueries
VARIABLES input, stage, net, adjacency, contracted, neighbours, queue, rank, up, hierarchy,
          buckets, state, asked, queries, profiles, labels, rides, found, sets

S == INSTANCE StreetPolicies

streetVars == <<input, stage, net, adjacency, contracted, neighbours, queue, rank, up, hierarchy,
                buckets, state, asked, queries, profiles, labels, rides, found, sets>>
timetableVars == <<feed, pc, reading, finishing, ask, low, high>>

NoStreets ==
  /\ stage = "none"
  /\ input = <<>> /\ net = <<>> /\ adjacency = <<>> /\ contracted = {} /\ neighbours = <<>> /\ queue = {} /\ rank = <<>>
  /\ up = <<>> /\ hierarchy = <<>> /\ buckets = <<>> /\ state = <<>> /\ asked = <<>> /\ queries = 0
  /\ profiles = <<>> /\ labels = <<>> /\ rides = <<>> /\ found = <<>> /\ sets = <<>>
NoTimetable ==
  /\ pc = "none"
  /\ feed = <<>> /\ next = 1 /\ registered = <<>> /\ times = <<>> /\ pattern_of = <<>> /\ quarantined = {} /\ interpolated = {}
  /\ at = 1 /\ left = {} /\ chains = <<>> /\ patterns = <<>> /\ ask = <<>> /\ low = 1 /\ high = 1

NetworkInit == (Init /\ NoStreets) \/ (NoTimetable /\ S!PolicyInit)
\* A street network may rest whenever nothing is asked of it.
NetworkNext ==
  \/ stage = "none" /\ Next /\ UNCHANGED streetVars
  \/ pc = "none" /\ S!PolicyStep /\ UNCHANGED timetableVars
  \/ pc = "none" /\ UNCHANGED <<vars, streetVars>>
NetworkSpec == NetworkInit /\ [][NetworkNext]_<<vars, streetVars>>

\* What the street modules promise, where there are streets: the layout is
\* that of the edge set (StreetGraph), the hierarchy and the bounded walks
\* are exact (ContractionHierarchy, StreetWalks), and so are the rides, the
\* routes, the profile cache, the policies and the transfer sets
\* (StreetQueries, StreetPolicies).
LayoutIgnoresOrder == stage # "none" => S!LayoutIgnoresOrder
HierarchyExact == stage # "none" => S!HierarchyExact
WalksExact == stage # "none" => S!WalksExact
RidesExact == stage # "none" => S!RidesExact /\ S!RoutesPure
ProfilesLatest == stage # "none" => S!ProfilesLatest
PoliciesExact == stage # "none" => S!PoliciesExact
TransfersFastest == stage # "none" => S!TransfersFastest
=============================================================================
