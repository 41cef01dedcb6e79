----------------------------- MODULE SmallTowns -----------------------------
(***************************************************************************)
(* Small inputs for the street modules: kinds of edges, shipped profiles,  *)
(* graphs with stops and points, and what is asked of them in what order.  *)
(***************************************************************************)
EXTENDS Integers, Sequences, TLC

LOCAL Far == 1000000     \* as in StreetGraph
LOCAL LowerOf(a, b) == IF a <= b THEN a ELSE b
LOCAL NoSpeeds == [own |-> 0, walk |-> 0, uphill |-> 0, downhill |-> 0, delay |-> 0]     \* as in DirectedStreets

Kind(forward, back, dismount, factor, grade) ==
  [access |-> <<forward, back>>, dismount |-> dismount, factor |-> factor, grade |-> grade,
   carPace |-> 80, fast |-> FALSE, ramp |-> FALSE, roundabout |-> FALSE, junction |-> <<"none", "none">>]
Everyone == {"walk", "bicycle", "e_scooter", "wheelchair", "car"}
\* A street, a one-way street, a way to push a bicycle on, and a hill.
TownKinds == <<[Kind(Everyone, Everyone, FALSE, 1, 0) EXCEPT !.junction = <<"signals", "none">>],
             [Kind(Everyone, {"walk", "wheelchair"}, FALSE, 1, 0) EXCEPT !.junction = <<"ramp", "topological">>, !.fast = TRUE, !.ramp = TRUE],
             Kind({"walk", "bicycle", "wheelchair"}, {"walk", "bicycle", "wheelchair"}, TRUE, 2, 0),
             [Kind(Everyone, Everyone, FALSE, 1, 8) EXCEPT !.roundabout = TRUE]>>
Definition(mode, pace, walk) ==
  [mode |-> mode, pace |-> pace, walk |-> walk, uphill |-> 0, downhill |-> 0, cap |-> 0, slope |-> 0, incline |-> FALSE, delay |-> 0]
TownProfiles ==
  [walk |-> Definition("walk", 800, 800), bicycle |-> [Definition("bicycle", 200, 800) EXCEPT !.slope = 5],
   e_bike |-> Definition("e_bike", 160, 800), e_scooter |-> [Definition("e_scooter", 160, 800) EXCEPT !.cap = 7],
   wheelchair |-> [Definition("wheelchair", 800, 800) EXCEPT !.incline = TRUE], car |-> Definition("car", 0, 800)]

E(a, b, m, kind) == [from |-> a, to |-> b, meters |-> m, place |-> LowerOf(a, b), shape |-> 0, kind |-> kind]
P(connector, at, box) == [connector |-> connector, at |-> at, box |-> box]
Away == P(900, 0, 900)

\* Two ways of equal length round a square, one of them over a hill, a
\* one-way street, a way to push on and a loop.
Square == <<E(1, 2, 20, 1), E(2, 4, 20, 1), E(1, 3, 20, 1), E(3, 4, 20, 1), E(1, 4, 50, 2), E(4, 5, 10, 3), E(3, 5, 30, 4), E(5, 5, 12, 1)>>
Point(edge, connector, at) == [e \in DOMAIN Square |-> IF e = edge THEN P(connector, at, connector) ELSE Away]
W(a, b, seconds, meters) == [from |-> a, to |-> b, seconds |-> seconds, meters |-> meters]
Walked == {W(1, 2, 12, 15), W(2, 1, 14, 15), W(2, 4, 6, 8), W(4, 3, 4, 5), W(1, 3, 20, 25)}
SquareTown(rounds) ==
  [vertices |-> 5, edges |-> Square, links |-> <<>>,
   points |-> <<Point(1, 3, 0), Point(2, 4, 20), Point(6, 2, 5), Point(5, 1, 30), Point(1, 2, 15),
                [e \in DOMAIN Square |-> IF e = 6 THEN P(2, 4, 2) ELSE IF e = 7 THEN P(6, 12, 6) ELSE Away]>>,
   coordinates |-> <<0, 15, 12, 30, 38>>, stops |-> <<2, 6, 0, 4>>, closure |-> Walked, use |-> "rides", rounds |-> rounds]

Own(v) == [NoSpeeds EXCEPT !.own = v]
Q(kind, mode, speeds, from) == [kind |-> kind, mode |-> mode, speeds |-> speeds, from |-> from, cutoff |-> 40000, allowance |-> 10]
To(q, to) == q @@ [to |-> to]
Time(mode, speeds, p, r) == To(Q("time", mode, speeds, p), r)
Costs(mode, speeds, weights) == To(Q("costs", mode, speeds, <<1, 3, 5>>), <<2, 4, 5>>) @@ [weights |-> weights]
Leg(mode, p, r) == [kind |-> "leg", mode |-> mode, speeds |-> NoSpeeds, from |-> p, to |-> r, cutoff |-> 40000]
AskStops(mode, speeds, egress, meters) ==
  [kind |-> "stops", mode |-> mode, speeds |-> speeds, from |-> 1, cutoff |-> 20000, egress |-> egress, meters |-> meters]
StopLegOf(mode, stop, egress) ==
  [kind |-> "stop leg", mode |-> mode, speeds |-> NoSpeeds, from |-> 1, stop |-> stop, cutoff |-> 40000, egress |-> egress]
Reach(mode, axis, cutoff) == [Q("reached", mode, NoSpeeds, 3) EXCEPT !.cutoff = cutoff] @@ [axis |-> axis]
Modes == {"walk", "bicycle", "e_bike", "e_scooter", "wheelchair", "car"}

Each ==
  UNION {{Time(mode, NoSpeeds, p, r) : p \in 1 .. 6, r \in {2, 4, 6}} : mode \in Modes}
  \cup {To(Q("times", mode, NoSpeeds, <<1, 2, 6>>), <<3, 4, 6>>) : mode \in Modes}
  \cup {Costs(mode, NoSpeeds, w) : mode \in Modes, w \in {<<>>, <<10, 10, 25, 30>>, <<30, 10, 10, 10>>}}
  \cup {Reach(mode, axis, 30) : mode \in Modes, axis \in {"distance"}} \cup {Reach(mode, "time", 9000) : mode \in Modes}
  \cup {AskStops(mode, s, egress, meters) : mode \in Modes \ {"car"}, s \in {NoSpeeds, Own(400), [NoSpeeds EXCEPT !.uphill = 5]}, egress \in BOOLEAN, meters \in BOOLEAN}
  \cup {AskStops("wheelchair", [NoSpeeds EXCEPT !.downhill = 5], egress, meters) : egress \in BOOLEAN, meters \in BOOLEAN}
  \cup {StopLegOf(mode, stop, egress) : mode \in {"bicycle", "wheelchair"}, stop \in {1, 4}, egress \in BOOLEAN}
  \cup {Leg(mode, p, r) : mode \in Modes \ {"car"}, p \in {1, 3, 5}, r \in {2, 4, 5}}
  \cup {Q("field", "wheelchair", NoSpeeds, p) @@ [seeds |-> <<<<1, 5000>>, <<3, 0>>>>] : p \in {1, 3}}
\* One after another, so that what a search leaves is met by the next.
First3 == {Costs("bicycle", NoSpeeds, <<>>), Costs("car", NoSpeeds, <<30, 10, 10, 10>>)}
Second3 == {Reach("bicycle", "time", 500), Reach("walk", "distance", 30), Time("walk", Own(400), 1, 4), AskStops("e_scooter", NoSpeeds, TRUE, TRUE)}
Third3 == {Leg("bicycle", p, r) : p \in {2, 3, 5}, r \in {1, 4}} \cup {Costs("walk", Own(400), <<10, 10, 10, 10>>), Reach("walk", "distance", 20)}
\* A street, asked at several speeds.
StreetTown(rounds) ==
  [vertices |-> 2, edges |-> <<E(1, 2, 20, 1)>>, links |-> <<>>, points |-> <<<<P(3, 0, 3)>>, <<P(2, 12, 2)>>>>,
   coordinates |-> <<0, 18>>, stops |-> <<>>, closure |-> {}, use |-> "rides", rounds |-> rounds]
OneOf(speeds) == {Time("bicycle", Own(v), 1, 2) : v \in speeds}
\* Sets computed, and policies asked over them or over the walks.
Compute(set, mode, budget) == [kind |-> "compute", set |-> set, mode |-> mode, speeds |-> NoSpeeds, budget |-> budget]
M(mode, cutoff, rental, eligible, factor) == [mode |-> mode, cutoff |-> cutoff, rental |-> rental, eligible |-> eligible, factor |-> factor]
Choosing == {<<M("walk", 40000, FALSE, 1 .. 4, 0), M("bicycle", 30000, TRUE, 1 .. 4, 2), M("e_bike", 40000, FALSE, {1, 4}, 3)>>,
             <<M("e_scooter", 12000, TRUE, {1, 2, 4}, Far), M("bicycle", 30000, FALSE, 1 .. 4, 0)>>,
             <<M("e_bike", 40000, TRUE, {1, 4}, 3), M("e_bike", 40000, FALSE, 1 .. 4, 3)>>}
Policies ==
  [kind : {"policy"}, pareto : BOOLEAN, speeds : {NoSpeeds}, from : {1, 2, 3}, egress : BOOLEAN, modes : Choosing, excluded : {{}, {2}},
   meters : {TRUE}, transfers : {<<>>, <<"bicycle", 25, 1>>, <<"wheelchair", 60, 0>>}]
Computes == {Compute("merged", "bicycle", 25), Compute("merged", "e_scooter", 15), Compute("merged", "wheelchair", 60), Compute("carriage", "bicycle", 15)}
Rides == {SquareTown(<<Each>>), SquareTown(<<Computes, Policies>>), SquareTown(<<First3, Second3, Third3>>),
          StreetTown([k \in 1 .. 5 |-> OneOf({0, 150, 300, 400})])}

Edge(a, b, m, shape, kind) == [from |-> a, to |-> b, meters |-> m, place |-> LowerOf(a, b), shape |-> shape, kind |-> kind]
L(stop, edge, at, connector) == [stop |-> stop, edge |-> edge, at |-> at, connector |-> connector]

\* Every graph of four vertices with streets of 1 or 2 m, or none.
Pairs == <<<<1, 2>>, <<1, 3>>, <<1, 4>>, <<2, 3>>, <<2, 4>>, <<3, 4>>>>
Grids ==
  {[vertices |-> 4, edges |-> SelectSeq([i \in 1 .. 6 |-> Edge(Pairs[i][1], Pairs[i][2], w[i], 0, 1)], LAMBDA e : e.meters # 9),
    links |-> <<>>, points |-> <<>>, coordinates |-> [v \in 1 .. 4 |-> v], use |-> "contract"] :
   w \in [1 .. 6 -> {1, 2, 9}]}

\* A town with two coincident edges of different kinds, a stop linked to
\* one of them and a stop linked twice, a loop and a vertex apart.
TownEdges == <<Edge(1, 2, 60, 1, 2), Edge(3, 4, 50, 0, 1), Edge(1, 2, 60, 1, 1), Edge(2, 3, 30, 0, 1), Edge(1, 3, 80, 0, 1), Edge(4, 4, 20, 0, 1)>>
Town(use) ==
  [vertices |-> 5, edges |-> TownEdges,
   links |-> <<L(1, 1, 20, 5), L(1, 5, 70, 3), L(2, 2, 25, 4), L(3, 3, 60, 2)>>,
   points |-> <<<<P(40, 10, 10), P(90, 0, 80), P(41, 10, 20), P(90, 30, 70), P(36, 20, 34), P(120, 0, 110)>>,
                <<P(200, 60, 190), P(8, 30, 0), P(200, 60, 190), P(60, 30, 50), P(70, 80, 60), P(12, 5, 3)>>,
                <<P(300, 0, 300), P(310, 0, 300), P(300, 0, 300), P(310, 0, 300), P(320, 0, 300), P(300, 0, 300)>>>>,
   coordinates |-> [v \in 1 .. 5 |-> v], use |-> use]

Broken == {[Town("ready") EXCEPT !.links[1].at = 61], [Town("ready") EXCEPT !.edges[1].to = 6]}
TownInputs == Grids \cup {Town("contract"), Town("ready")} \cup Broken \cup Rides
TownWalks == {[speed |-> 1, seconds |-> 60, allowance |-> 100], [speed |-> 2, seconds |-> 100, allowance |-> 10]}
Seed(stop, key, first, slack) == [stop |-> stop, key |-> key, rides |-> first, slack |-> slack]
TownSeeds == {{Seed(1, 0, 1, 10), Seed(2, 5, 2, 0)}, {Seed(2, 3, 2, 0), Seed(3, 0, 1, 20), Seed(3, 0, 1, 40)}}
=============================================================================
