------------------------------ MODULE MCRaptor ------------------------------
(***************************************************************************)
(* The instances of SmallFeeds for Raptor, ReverseSearch and RaptorMatrix: *)
(* departure windows, deadlines, and origins that share a search.          *)
(***************************************************************************)
EXTENDS RaptorMatrix, SmallFeeds

LeavingIn(n) == n @@ [use |-> "depart", window |-> Range(n.departures), points |-> <<>>]
Window(n, from, seconds) ==
  [LeavingIn(n) EXCEPT !.window = from .. from + seconds - 1,
                       !.departures = Descending(DepartureCandidates(n, from, seconds))]
\* The same journeys asked for by when they arrive: one destination, or one per
\* egress link.
ArriveBy(n, use, marks, walk) ==
  n @@ [use |-> use, marks |-> marks, owner |-> [e \in n.egress |-> e.stop],
        points |-> <<>>,
        walks |-> IF use = "nearest" THEN [s \in {e.stop : e \in n.egress} |-> walk] ELSE [o \in {AnySeed} |-> walk]]
\* Access and egress tables that share stops.
Around(n) == [n EXCEPT !.access = @ \cup {Link(4, 7), Link(3, 5)}, !.egress = @ \cup {Link(1, 6), Link(2, 4)}]
\* The last to leave is not the quickest.
Apart(n) == [n EXCEPT !.access = @ \cup {Link(2, 0)}, !.egress = {Link(2, 0), Link(3, 3)}]
\* Rows to two points, over links in two orders, or to every stop.
Grams == <<3, 1, Unpriced, 2, 5>>
MatrixOf(n, product, toPoints, origins, budget) ==
  n @@ [use |-> "matrix", product |-> product, to_points |-> toPoints, origins |-> origins, budget |-> budget,
        points |-> IF toPoints THEN << SetToSeq(n.egress), <<Link(3, 2)>> >> ELSE [s \in Stops |-> <<Link(s, 0)>>],
        grams |-> [t \in n.trips |-> Grams[t + 1]], percentiles |-> {0, 40, 100},
        rentals |-> {[from |-> 3, to |-> 4, grams |-> 2]}]
\* The second origin is a stop later on the way, asked about at other instants.
Onward(departures) == <<[access |-> {Link(2, 1)}, departures |-> departures]>>
PriceBy(n, marks, budget) ==
  ArriveBy(n, "pricing", marks, Unreached) @@
  [product |-> "pricing", to_points |-> TRUE, origins |-> <<>>, budget |-> budget, allowed |-> {},
   grams |-> [t \in n.trips |-> Grams[t + 1]], rentals |-> {}]
MatrixFeeds == {n \in Feeders : /\ n.arrival[2][1] \in {3, 4} /\ n.arrival[3][1] \in {0, 1} /\ n.arrival[1][2] # 4
                                /\ \E e \in n.transfers : e.to = 4 /\ e.duration = 2} \cup
               {n \in Parallel : n.arrival[3][2] = 5 /\ n.arrival[4][1] = 4} \cup {n \in RideLimit : n.arrival[3][2] = 8}
MatrixQueries ==
  {MatrixOf(n, "fastest", tp, <<>>, Unreached) : n \in Shadowed, tp \in BOOLEAN} \cup
  {MatrixOf([n EXCEPT !.departures = <<0>>], "fastest", tp, Onward(<<1>>), Unreached) : n \in MatrixFeeds, tp \in BOOLEAN} \cup
  {MatrixOf([n EXCEPT !.departures = <<3, 1>>], "window", TRUE, Onward(<<4, 2, 0>>), Unreached) : n \in MatrixFeeds} \cup
  {MatrixOf([n EXCEPT !.departures = Descending(DepartureCandidates(n, 0, 4))], "least", tp, Onward(<<2, 0>>), b) :
     n \in MatrixFeeds, tp \in BOOLEAN, b \in {4, Unreached}} \cup
  {[PriceBy(n, <<6, 8>>, b) EXCEPT !.points = <<SetToSeq(n.egress)>>] : n \in MatrixFeeds, b \in {3, Unreached}}

RangeQueries ==
  MatrixQueries \cup {NextRequest(n) : n \in {n \in MatrixQueries : n.use = "matrix" /\ n.origins # <<>>}} \cup {LeavingIn(n) : n \in MCQueries} \cup {Window(n, 0, w) : n \in RideLimit \cup Midnight, w \in {2, 4}} \cup
  {ArriveBy(n, use, <<9>>, Unreached) : use \in {"route", "times"}, n \in RideLimit \cup {n \in Odd : n.departures[1] < Day}} \cup
  {ArriveBy(n, "profile", <<6, 8, 9>>, Unreached) : n \in {Around(n) : n \in Feeders \cup Midnight} \cup RideLimit \cup Parallel \cup {n \in Ring : Len(n.departures) > 1}} \cup
  {ArriveBy(n, "profile", <<5, 7, 9>>, 5) : n \in RideLimit \cup {Around(n) : n \in Parallel}} \cup
  {ArriveBy(n, "nearest", <<9>>, w) : n \in {Around(n) : n \in Feeders \cup Midnight} \cup {Apart(n) : n \in RideLimit}, w \in {Unreached, 5}}

\* A line whose second trip leaves stop 2 together with the first and arrives
\* at 3 after it; stop 1 is reached in time for the second only.
LeavingTogether ==
  {LeavingIn(Instance(<< <<1, 2, 3>> >>, <<1, 1>>, << <<0, 5, 6>>, <<1, 5, 8>> >>, Today(2), {}, closed,
                      Request({Link(1, 1), Link(2, x)}, {Link(3, 0)}, <<0>>, 1))) : closed \in BOOLEAN, x \in {4, 5}}

BothInit == Init /\ ReverseInit /\ MatrixInit
BothNext ==
  \/ q.use = "depart" /\ Next /\ UNCHANGED <<reverseVars, matrixVars>>
  \/ ReverseNext /\ UNCHANGED <<vars, matrixVars>>
  \/ MatrixNext /\ UNCHANGED reverseVars
  \/ PriceElected
  \/ (phase = "answered" \/ pc = "filled") /\ UNCHANGED <<vars, reverseVars, matrixVars>>
BothSpec == BothInit /\ [][BothNext]_<<vars, reverseVars, matrixVars>>

\* What the search says of best: the earliest arrival at a stop with at most
\* so many rides, over all departures processed so far (search.rs:139).
BestIsEarliest == PassExact
=============================================================================
