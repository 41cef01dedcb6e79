--------------------------- MODULE MCMultiCriteria --------------------------
(* Emissions on the instances of SmallFeeds, for both engines. *)
EXTENDS McRaptor, McTbtr, Exhaustive, SmallFeeds

\* What is asked for, beyond a timetable and a request.
Strictly ==
  [engine |-> "mcraptor", product |-> "pair", bucket |-> 1, slack |-> 0, band |-> Unreached, max_options |-> 0, budget |-> Unreached,
   excluded_routes |-> {}, excluded_trips |-> {}, penalty |-> 0, street |-> FALSE, merged |-> FALSE, door |-> FALSE]
\* Grams per position of each trip.
Pricings == {<<1, 3, 0, 2, 1>>, <<3, 1, 2, 0, 2>>, <<2, 2, 1, 1, 0>>}
Partial == {<<1, 3, 0, 2, 1>>}
Priced(n, o, f) ==
  [pattern_stops |-> n.pattern_stops, trips |-> n.trips, trip_pattern |-> n.trip_pattern,
   arrival |-> n.arrival, departure |-> n.departure, usable |-> n.usable, transfers |-> n.transfers,
   closed |-> n.closed /\ o.penalty = 0, excluded |-> n.excluded, access |-> n.access, egress |-> n.egress,
   departures |-> n.departures, rounds |-> n.rounds,
   factor |-> [t \in n.trips \ (IF o.excluded_trips = {} THEN {} ELSE {0}) |-> f[t + 1]],
   engine |-> o.engine, bucket |-> o.bucket, slack |-> o.slack, band |-> o.band, product |-> o.product,
   max_options |-> o.max_options, budget |-> o.budget,
   plain |-> ~o.street /\ ~o.merged /\ o.penalty = 0 /\ o.slack = 0 /\ n.excluded = {} /\ o.band = Unreached /\ o.max_options = 0,
   excluded_routes |-> o.excluded_routes, excluded_trips |-> o.excluded_trips,
   route_penalty |-> [p \in DOMAIN n.pattern_stops |-> IF p = 2 THEN o.penalty ELSE 0],
   slots |-> IF o.door THEN [s \in {1, 2} |-> {Link(2, s), Link(3, 3 - s), Link(4, 1)}]
             ELSE [s \in {1, 3, 4} |-> {Link(s, 0)}],
   door |-> o.door, policy |-> o.street,
   access_grams |-> [a \in n.access |-> IF a.duration = 0 THEN 2 ELSE 0],
   sealed_access |-> IF o.merged THEN {a \in n.access : a.duration = 0} ELSE {},
   egress_grams |-> [e \in n.egress |-> IF e.duration = 0 THEN 1 ELSE 0],
   merged |-> o.merged, ride_grams |-> [e \in {e \in n.transfers : e.duration = 0} |-> 1]]
Closing(n, walks) == [n EXCEPT !.transfers = walks, !.closed = TRUE, !.access = {Link(1, 0)}]
At(n, d) == [n EXCEPT !.departures = <<d>>]
ClosedWalks == {{Footpath(3, 2, 1), Footpath(2, 3, 1)}, {Footpath(2, 3, 0), Footpath(3, 4, 0), Footpath(2, 4, 0)}}
ClosedFeeds == {Closing(n, w) : n \in Feeders \cup Midnight, w \in ClosedWalks} \cup Parallel

\* Exact frontiers of windows, one pair's and batched; and the oracle's, of
\* single departures, whatever the footpaths.
Of(feeds, options, pricings) == {Priced(n, o, f) : n \in feeds, o \in options, f \in pricings}
Exactly == {[Strictly EXCEPT !.product = p, !.budget = IF p = "emissions" THEN 4 ELSE Unreached] :
              p \in {"pair", "emissions"}}
SingleDepartures == {At(n, 0) : n \in {n \in Feeders \cup Odd \cup Ring : n.excluded = {}}}
\* Wider buckets, slacks, caps, bans, bands, penalties, door-to-door slots.
Options ==
  {[Strictly EXCEPT !.bucket = b] : b \in {2, 3}} \cup {[Strictly EXCEPT !.slack = w] : w \in {1, 2}} \cup
  {[Strictly EXCEPT !.slack = 2, !.max_options = 2], [Strictly EXCEPT !.band = 0], [Strictly EXCEPT !.band = 1],
   [Strictly EXCEPT !.excluded_routes = {1}], [Strictly EXCEPT !.excluded_trips = {1}],
   [Strictly EXCEPT !.penalty = 2], [Strictly EXCEPT !.penalty = Unreached],
   [Strictly EXCEPT !.product = "frontier", !.door = TRUE], [Strictly EXCEPT !.product = "frontier", !.band = 1],
   [Strictly EXCEPT !.product = "emissions", !.door = TRUE, !.budget = 6], [Strictly EXCEPT !.street = TRUE],
   [Strictly EXCEPT !.street = TRUE, !.merged = TRUE]}

\* What mctbtr knows of this.
TripBased(o) == o.slack = 0 /\ o.max_options = 0 /\ o.excluded_routes = {} /\ o.excluded_trips = {}
                /\ o.penalty = 0 /\ ~o.merged /\ ~(o.door /\ o.product = "emissions")
ByTrip(options) == {[o EXCEPT !.engine = "mctbtr"] : o \in {o \in options : TripBased(o)}}
BothWays(options) == options \cup ByTrip(options)
McQueries ==
  Of(ClosedFeeds, BothWays(Exactly), Pricings)
    \cup Of(SingleDepartures, BothWays({Strictly}), {<<1, 3, 0, 2, 1>>})
    \cup Of(Parallel, BothWays(Options), {<<1, 3, 0, 2, 1>>})
    \cup Of(RideLimit, BothWays(Options \cup {Strictly}), {<<0, 1, 1, 2, 4>>})

\* A stop 2 between the origin and the destination, within a walk of both.
BetweenStops ==
  Of({[n EXCEPT !.access = {Link(1, 0), Link(2, 1)}, !.egress = {Link(4, 0), Link(2, 1)}] : n \in RideLimit},
     BothWays({[Strictly EXCEPT !.band = 0], [Strictly EXCEPT !.band = 1]}), {<<0, 1, 1, 2, 4>>})

Init == q \in Queries /\ Idle /\ Unbuilt /\ Start(IF q.engine = "mcraptor" THEN "seed" ELSE "build")
Next == (McRaptorNext /\ UNCHANGED <<building, scans>>) \/ (McTbtrNext /\ UNCHANGED scanning)
vars == <<q, pc, pass, round, arena, bags, destination, best, output, bounds, scanning, building, scans>>
Spec == Init /\ [][Next]_vars

\* What either engine returns are journeys of legs that can be made and of
\* grams that add up (Exhaustive), and none descends from a boarding that was
\* cancelled for a better one (McTbtr).
JourneysReal == JourneysAddUp /\ NoCancelledAncestor
=============================================================================
