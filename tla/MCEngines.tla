------------------------------ MODULE MCEngines ------------------------------
(***************************************************************************)
(* The engines beside RAPTOR on the instances of SmallFeeds: the scans of  *)
(* TripMatrix and TripBased, the searches of MCMultiCriteria, the          *)
(* shortcuts of Ultra, the planes of Carriage and the fares of             *)
(* FareFrontier.  One runs at a time; they share the variables whose names *)
(* they share.                                                             *)
(***************************************************************************)
EXTENDS MCMultiCriteria

VARIABLES mode, set, reached, current, position, labels, transit_best, walked, joined, thresholds, journeys, tau, winners, pending
tripVars == <<mode, set, reached, current, position, labels, transit_best, walked, joined, thresholds, journeys, tau, winners, pending>>
VARIABLES planes, sidecar, riders, offers
planeVars == <<planes, sidecar, riders, offers>>
VARIABLES gates, purses, marks, lines, found, transit, rows
fareVars == <<gates, purses, marks, lines, found, transit, rows>>
VARIABLES source, walk, left, ready, one, two, origin, board, settled, shortcuts
ultraVars == <<source, walk, left, ready, one, two, origin, board, settled, shortcuts>>

\* Trip-based queries exclude no stop.  Some run on closed footpaths, with
\* access links that no footpath leads on from.
UnexcludedQueries ==
  {n @@ [engine |-> "tbtr"] :
     n \in {n \in MCQueries \cup Shadowed \cup Interchange : n.excluded = {}} \cup
           {Closing(n, walks) : n \in {n \in Feeders \cup Ring : n.transfers # {}}, walks \in ClosedWalks}}
T == INSTANCE TripMatrix
       WITH Stops <- 1 .. 6, Queries <- UnexcludedQueries, Modes <- {"profile", "samples", "one to all", "matrix"}

\* Shortcuts are computed for any time of a day and whatever is asked then.
UltraQueries == {n @@ [engine |-> "ultra", window |-> 0 .. 9] : n \in Feeders \cup Midnight \cup Parallel \cup Shadowed \cup Interchange \cup OnOneDate}
U == INSTANCE Ultra WITH Queries <- UltraQueries, Stops <- 1 .. 6

C == INSTANCE Carriage WITH Queries <- CarriageFeeds, Stops <- 1 .. 5

F == INSTANCE FareFrontier WITH Queries <- FareFeeds

NoScan ==
  /\ set = <<>> /\ reached = <<>> /\ current = <<>> /\ position = 0 /\ labels = <<>> /\ transit_best = <<>>
  /\ walked = <<>> /\ joined = <<>> /\ thresholds = <<>> /\ journeys = {} /\ tau = <<>> /\ winners = <<>> /\ pending = <<>>
NoSearch ==
  /\ bags = <<>> /\ destination = <<>> /\ best = <<>> /\ output = <<>> /\ bounds = <<>>
  /\ fresh = <<>> /\ touched = <<>> /\ rode = <<>> /\ shadow = <<>>
  /\ transfers = {} /\ sources = {} /\ states = <<>> /\ tripBags = <<>> /\ admitted = <<>> /\ walkBoards = <<>>
NoShortcuts ==
  /\ source = 0 /\ walk = <<>> /\ left = {} /\ ready = <<>> /\ one = <<>> /\ two = <<>> /\ origin = <<>> /\ board = <<>>
  /\ settled = <<>> /\ shortcuts = {}
NoPlanes == planes = <<>> /\ sidecar = <<>> /\ riders = <<>> /\ offers = <<>>
NoFares ==
  gates = <<>> /\ purses = <<>> /\ marks = <<>> /\ lines = <<>> /\ found = <<>> /\ transit = <<>> /\ rows = <<>>
NoQueues == pass = 0 /\ round = 0 /\ arena = <<>> /\ queue = <<>> /\ segments = <<>>
searchVars == <<bags, destination, best, output, bounds, fresh, touched, rode, shadow, building, states, tripBags, admitted, walkBoards>>

Others == {"none", "ultra", "carriage", "fares"}     \* what mode is not where trips are scanned
ScansInit == T!MatrixInit /\ NoSearch /\ waiting = <<>> /\ NoShortcuts /\ NoPlanes /\ NoFares
UltraInit == mode = "ultra" /\ U!UltraInit /\ NoSearch /\ NoScan /\ NoQueues /\ NoPlanes /\ NoFares
CarriageInit ==
  mode = "carriage" /\ C!CarriageInit /\ NoSearch /\ NoScan /\ NoShortcuts /\ NoFares /\ waiting = <<>>
    /\ pass = 0 /\ arena = <<>> /\ queue = <<>> /\ segments = <<>>
FaresInit ==
  mode = "fares" /\ F!FareInit /\ NoSearch /\ NoScan /\ NoShortcuts /\ NoPlanes /\ waiting = <<>>
    /\ arena = <<>> /\ queue = <<>> /\ segments = <<>>
EnginesInit ==
  \/ mode = "none" /\ Init /\ NoScan /\ NoShortcuts /\ NoPlanes /\ NoFares
  \/ ScansInit
  \/ UltraInit
  \/ CarriageInit
  \/ FaresInit
TripScans ==
  mode \notin Others /\ T!ScansNext /\ UNCHANGED <<searchVars, waiting, ultraVars, planeVars, fareVars>>
Ultra ==
  /\ mode = "ultra" /\ U!UltraNext
  /\ UNCHANGED <<mode, searchVars, pass, round, arena, queue, segments, set, reached, current, position, labels,
                 transit_best, walked, joined, thresholds, journeys, tau, winners, pending, planeVars, fareVars>>
Carriage ==
  /\ mode = "carriage" /\ C!CarriageNext
  /\ UNCHANGED <<mode, searchVars, pass, arena, queue, segments, waiting, set, reached, current, position, labels,
                 transit_best, walked, joined, thresholds, journeys, tau, winners, pending, ultraVars, fareVars>>
Fares ==
  /\ mode = "fares" /\ F!FareNext
  /\ UNCHANGED <<mode, searchVars, arena, queue, segments, waiting, set, reached, current, position, labels,
                 transit_best, walked, joined, thresholds, journeys, tau, winners, pending, ultraVars, planeVars>>
EnginesNext ==
  \/ mode = "none" /\ Next /\ UNCHANGED <<tripVars, ultraVars, planeVars, fareVars>>
  \/ TripScans
  \/ Ultra
  \/ Carriage
  \/ Fares
EnginesSpec == EnginesInit /\ [][EnginesNext]_<<vars, tripVars, ultraVars, planeVars, fareVars>>

\* The shortcuts alone, and the queries of one date.
CalendarSpec == UltraInit /\ q.trips # q.usable[0] /\ q.usable[1] = {} /\ [][Ultra]_<<vars, tripVars, ultraVars, planeVars, fareVars>>

\* The matrix scan alone, where a walk beats a ride to a stop to walk on from.
ShadowedSpec ==
  ScansInit /\ mode = "matrix" /\ (\E n \in Shadowed : q.arrival = n.arrival) /\ [][TripScans]_<<vars, tripVars, ultraVars, planeVars, fareVars>>

\* The reduction keeps every earliest arrival (TripBased).  A scan's samples
\* are the earliest arrivals and its journeys a sound and complete frontier,
\* whatever the footpaths.  The matrix has the earliest arrivals and elects the
\* canonical of equal journeys on closed footpaths; on others it is bounded
\* by the arrivals of journeys no walk shadows (TripMatrix).
ReductionKeepsArrivals == mode \notin Others => T!ReductionKeepsArrivals
ScansExact == mode \notin Others => T!ScansExact /\ T!ClosedMatrixCanonical /\ T!MatrixBounded

\* The matrix has the earliest arrivals whatever the footpaths (TripMatrix).
MatrixExact == mode = "matrix" => T!MatrixExact

\* The shortcuts alone are as good as unrestricted walking, over all trips,
\* and on the date an instance asks about (Ultra).
UltraExact == mode = "ultra" => U!UltraExact
UltraExactOnDate == mode = "ultra" => U!UltraExactOnDate

\* Either plane has the earliest arrivals the vehicle allows, behind legal
\* chains, and the frontier of both is what is offered (Carriage).
CarriageExact == mode = "carriage" => C!CarriageExact

\* Under every cutoff the fastest affordable journey, of these the cheapest,
\* of these the one with fewest rides (FareFrontier).
FaresExact == mode = "fares" => F!FaresExact
=============================================================================
