----------------------------- MODULE SmallFeeds -----------------------------
(***************************************************************************)
(* Small instances for the routing engines: five stops, five trips at      *)
(* most, a day of ten ticks.  Each family varies the times of some trips,  *)
(* so ties, missed connections and shadowed arrivals all occur in it.      *)
(***************************************************************************)
EXTENDS Integers, Sequences, TLC

Footpath(from, to, duration) == [from |-> from, to |-> to, duration |-> duration]
Link(stop, duration) == [stop |-> stop, duration |-> duration]

\* An instance: patterns, and per trip its pattern and its times, arrivals
\* and departures alike.
Instance(patterns, trips, times, usable, walks, closed, request) ==
  [pattern_stops |-> patterns,
   trips |-> 0 .. Len(trips) - 1,
   trip_pattern |-> [t \in 0 .. Len(trips) - 1 |-> trips[t + 1]],
   arrival |-> [t \in 0 .. Len(trips) - 1 |-> times[t + 1]],
   departure |-> [t \in 0 .. Len(trips) - 1 |-> times[t + 1]],
   usable |-> usable,
   transfers |-> walks,
   closed |-> closed,
   excluded |-> request.excluded,
   access |-> request.access,
   egress |-> request.egress,
   departures |-> request.departures,
   rounds |-> request.rounds]

Today(n) == [d \in {0, 1} |-> IF d = 0 THEN 0 .. n - 1 ELSE {}]
Request(access, egress, departures, rounds) ==
  [access |-> access, egress |-> egress, departures |-> departures, rounds |-> rounds, excluded |-> {}]

\* A line 1-2-3 with two trips, a feeder 2-4, and a line 1-3-4; footpaths
\* between 2, 3 and 4 that are not closed.
Feeders ==
  {Instance(<< <<1, 2, 3>>, <<2, 4>>, <<1, 3, 4>> >>, <<1, 1, 2, 3>>,
            << <<1, 3, 4>>, <<3, 3 + x, 5 + x>>, <<y, y + 1>>, <<z, z + 2, z + 4>> >>,
            Today(4),
            {Footpath(2, 3, 1), Footpath(3, 2, 1), Footpath(3, 4, w), Footpath(1, 2, 2)}, FALSE,
            Request({Link(1, 0), Link(2, 3)}, {Link(4, 0), Link(3, 2)}, <<2, 0>>, 2)) :
     x \in 0 .. 2, y \in 3 .. 6, z \in 0 .. 3, w \in {0, 2}}

\* A tram 2-3 runs today and ran yesterday, at times that pass midnight; a bus
\* 1-2 connects to it, and a night line of yesterday's goes 1-3 directly.
Midnight ==
  {Instance(<< <<1, 2>>, <<2, 3, 4>>, <<1, 3>> >>, <<1, 2, 2, 3>>,
            << <<1, 1 + x>>, <<y, y + 2, y + 3>>, <<12 + z, 13 + z, 15 + z>>, <<11, 14 + x>> >>,
            [d \in {0, 1} |-> IF d = 0 THEN {0, 1, 2} ELSE {1, 2, 3}],
            {Footpath(3, 4, 1), Footpath(2, 4, 5), Footpath(3, 2, 0)}, FALSE,
            Request({Link(1, 0)}, {Link(4, 1), Link(3, 1)}, <<1, 0>>, 3)) :
     x \in 0 .. 3, y \in {3, 10, 11}, z \in 0 .. 3}

\* Three parallel lines and a walk that tie again and again; closed footpaths.
Parallel ==
  {Instance(<< <<1, 2>>, <<1, 2, 4>>, <<1, 3>>, <<3, 4>>, <<2, 4>> >>, <<1, 2, 3, 4, 5>>,
            << <<1, 4>>, <<1, 2 + x, 6>>, <<1, 3>>, <<4, 5 + x>>, <<4 + y, 6>> >>,
            Today(5), walks, TRUE,
            Request({Link(1, 1)}, {Link(4, 0)}, <<2, 0>>, 2)) :
     x \in 0 .. 2, y \in 0 .. 1,
     walks \in {{}, {Footpath(3, 2, 1), Footpath(2, 3, 1)}, {Footpath(2, 3, 0), Footpath(3, 2, 0)}}}

\* Two quick rides to 3 that leave late, one slow ride that leaves early, a last
\* ride from 3 that only the slow one may still take, and a direct trip 1-4.
RideLimit ==
  {Instance(<< <<1, 2>>, <<2, 3>>, <<1, 3>>, <<3, 4>>, <<1, 4>> >>, <<1, 2, 3, 4, 5>>,
            << <<3, 4>>, <<4, 5>>, <<x, 6>>, <<6, 7 + y>>, <<z, 6>> >>,
            Today(5), {}, TRUE, Request({Link(1, 0)}, {Link(4, 0)}, <<2, 0>>, 2)) :
     x \in {1, 2}, y \in 0 .. 1, z \in {1, 3}}

\* A line that comes back to a stop, an excluded stop, two trips of one line
\* a rider may change between, and links that overflow late in the day.
Odd ==
  {Instance(<< <<1, 2, 1, 3>>, <<2, 3, 4>> >>, <<1, 1, 2, 2>>,
            << <<at, at + 1, at + 2, at + 3>>, <<at, at + 2, at + 3, at + 3>>,
               <<at + 1, at + 1 + x, at + 4>>, <<at + 2, at + 5, at + 5>> >>,
            [d \in {0, 1} |-> IF d = 0 THEN running ELSE {}],
            {Footpath(1, 2, 1), Footpath(3, 4, 4), Footpath(3, 1, 1)}, FALSE,
            [Request({Link(1, 1), Link(2, 3), Link(3, 6)}, {Link(4, 2), Link(3, 0)}, <<at, at - 1>>, 2)
               EXCEPT !.excluded = ex]) :
     at \in {1, 24}, x \in 0 .. 1, running \in {0 .. 3, {1, 2}, {0, 3}}, ex \in {{}, {2}, {3}}}

\* A line over all stops, a branch that runs back along it, and a ring, with
\* every rider's boarding of the line reached late, early and by other rides.
Ring ==
  {Instance(<< <<1, 2, 3, 4>>, <<3, 2, 1>>, <<2, 4, 3>> >>, <<1, 1, 2, 3>>,
            << <<3, 4, 6, 9>>, <<5, 6, 8 + x, 9 + x>>, <<y, y + 1, y + 2>>, <<z, z + 2, z + 3>> >>,
            Today(4), walks, FALSE,
            Request({Link(2, 0), Link(1, 2)}, {Link(4, 0), Link(1, 1)}, departures, 3)) :
     x \in 0 .. 1, y \in {1, 3, 6}, z \in {2, 4, 6}, walks \in {{}, {Footpath(2, 1, 1), Footpath(4, 3, 1), Footpath(3, 2, 2)}},
     departures \in {<<4, 2, 0>>, <<1>>}}

\* Stop 3 is reached by a slow ride, and sooner by another ride and a footpath;
\* only the slow ride's footpath leads on to 4, and to the line from there.
Shadowed ==
  {Instance(<< <<1, 2>>, <<1, 3>>, <<4, 5>> >>, <<1, 2, 3>>, << <<1, 2>>, <<1, 4>>, <<5 + x, 8>> >>, Today(3),
            {Footpath(2, 3, 1), Footpath(3, 4, 1)}, FALSE,
            Request({Link(1, 0)}, {Link(5, 0), Link(4, 2)}, <<0>>, 2)) : x \in 0 .. 2}

\* Lines from the two stops of a station to 3 and to 5, which are a walk away
\* from 4, where a line leaves twice for 6, and a direct trip to there.
Interchange ==
  {Instance(<< <<2, 3>>, <<1, 5>>, <<4, 6>>, <<1, 6>> >>, <<1, 2, 3, 3, 4>>,
            << <<1 + x, 2 + x>>, <<4, 5>>, <<3 + y, 4 + y>>, <<7, 8>>, <<z, 9>> >>, Today(5),
            {Footpath(1, 2, d), Footpath(2, 1, d), Footpath(3, 4, w), Footpath(5, 4, 1), Footpath(3, 5, 1)}, FALSE,
            Request({Link(1, 0)}, {Link(6, 0)}, <<0>>, 2)) :
     x \in 0 .. 1, y \in 0 .. 2, z \in {0, 3, 5}, d \in {0, 1}, w \in {1, 2}}

\* Two rides with a walk between them, on a date on which a direct trip as
\* quick does not run.
OnOneDate ==
  {Instance(<< <<1, 2>>, <<3, 4>>, <<1, 4>> >>, <<1, 2, 3>>, << <<1, 2>>, <<4, 6>>, <<x, 5>> >>,
            [d \in {0, 1} |-> IF d = 0 THEN {0, 1} ELSE {}], {Footpath(2, 3, 1)}, FALSE,
            Request({Link(1, 0)}, {Link(4, 0)}, <<0>>, 2)) : x \in 0 .. 2}

\* Taking a vehicle along from 1: the rows of the carriage set and of the
\* walking set, as stored, and per plane its access and egress links.  Stop 3
\* is near the origin too, and may have been walked to at the end.
VehicleRow(from, to, duration, ride) == [from |-> from, to |-> to, duration |-> duration, ride |-> ride]
AccessTo(stop, duration, walked) == [stop |-> stop, duration |-> duration, walked |-> walked]
VehicleRows(walk) ==
  {<<VehicleRow(2, 3, 1, TRUE), VehicleRow(2, 4, 3, TRUE), VehicleRow(3, 4, walk, FALSE), VehicleRow(4, 3, 1, TRUE)>>,
   <<VehicleRow(2, 3, walk, FALSE), VehicleRow(2, 4, 2, FALSE), VehicleRow(3, 4, 1, TRUE), VehicleRow(5, 3, 1, TRUE)>>}
WalkingRows(walk) ==
  <<VehicleRow(2, 3, walk, FALSE), VehicleRow(3, 2, 1, FALSE), VehicleRow(3, 4, walk, FALSE), VehicleRow(4, 5, 1, FALSE)>>
VehicleLinks(walked, free) ==
  (0 :> [access |-> <<AccessTo(1, 0, FALSE), AccessTo(3, 2, walked)>>, egress |-> {Link(4, 0), Link(3, 1)}]) @@
  (1 :> [access |-> free, egress |-> {Link(4, 2), Link(5, 1)}])
Bridges ==
  {Instance(<< <<1, 2>>, <<2, 5>>, <<3, 4>> >>, <<1, 2, 3>>, << <<1, 2>>, <<3, 4>>, <<5 + x, 9>> >>, Today(3), {}, TRUE,
            Request({}, {}, <<0>>, 3)) : x \in 0 .. 2}
CarriageFeeds ==
  {n @@ [engine |-> "carriage", start |-> 0, carriers |-> carriers, parks |-> parks, carriage |-> rows[1],
         walking |-> WalkingRows(rows[2]), links |-> links] :
     n \in {n \in Feeders \cup Midnight : n.departure[2][1] \in {4, 6, 12, 14}} \cup Shadowed \cup Bridges,
     carriers \in {0 .. 3, {1, 2}}, parks \in {{3}, {2, 4}},
     rows \in UNION {VehicleRows(w) \X {w} : w \in {1, 2}},
     links \in {VehicleLinks(TRUE, <<AccessTo(1, 1, TRUE)>>), VehicleLinks(FALSE, <<AccessTo(2, 1, TRUE)>>),
                VehicleLinks(TRUE, <<>>)}}

\* Rides to pay for: two lines on each of three legs, of routes and times at
\* which the cheap one is the later one, the same route's, or one whose later
\* trip is in time for a discount.  Under tariffs of two types, by what pairs
\* of types integrate to (one of them dearer than paying in full).
Tolls ==
  {Instance(<< <<1, 2>>, <<1, 2>>, <<2, 3>>, <<2, 3>>, <<3, 4>>, <<3, 4>> >>, <<1, 2, 3, 3, 4, 5, 6>>,
            << <<0, x>>, <<y, 3>>, <<2, 3>>, <<4, 5>>, <<3, 4>>, <<5, 6>>, <<5, 8>> >>, Today(7), {}, TRUE,
            Request({Link(1, 0)}, {}, <<2, 0>>, 3)) : x \in {1, 3}, y \in {0, 2}}
Integrations ==
  {(<<1, 2>> :> 4) @@ (<<2, 1>> :> 1), (<<1, 1>> :> 3) @@ (<<1, 2>> :> 4), (<<2, 1>> :> 1) @@ (<<1, 1>> :> 3), (<<1, 2>> :> 9),
   (<<1, 1>> :> 4) @@ (<<1, 2>> :> 3) @@ (<<2, 1>> :> 2) @@ (<<2, 2>> :> 2)}
Tariffs ==
  {[fare |-> fares, kind |-> <<1, 2, 1, 2, 2>>, pair |-> pairs, unlimited |-> unlimited, same_route |-> {2},
    max_discounts |-> most, allowance |-> allowance, cap |-> 10] :
     fares \in {<<2, 3, 2, 3, 3>>, <<2, 5, 5, 1, 2>>}, pairs \in Integrations, unlimited \in {{}, {1}, {2}},
     most \in 1 .. 2, allowance \in {2, 4}}
\* A route nobody knows the fare of, and fares without integrations.
Unfared(tariff) == [tariff EXCEPT !.fare = (1 :> 2) @@ (2 :> 3) @@ (3 :> 4)]
Unjoined(tariff) == [tariff EXCEPT !.pair = [p \in {} |-> 0]]
Every == [i \in 1 .. 10 |-> i + 1]
Paying(n, routes, tariff, cutoffs, seconds, exact) ==
  n @@ [engine |-> "fares", route |-> routes, tariff |-> tariff, cutoffs |-> cutoffs, budget |-> seconds, exact |-> exact,
        slots |-> <<{Link(4, 0), Link(3, 2)}, {Link(2, 0)}>>, walk |-> <<{9}, {}>>]
FareFeeds ==
  {Paying(n, r, t, Every, 30, TRUE) : n \in Tolls, r \in {<<1, 1, 2, 3, 4, 1>>, <<1, 3, 1, 2, 2, 4>>, <<1, 2, 3, 4, 5, 1>>},
     t \in Tariffs} \cup
  {Paying(n, <<1, 3, 1, 2, 2, 4>>, t, <<4>>, 6, x) : n \in Tolls, t \in {t \in Tariffs : t.allowance = 2}, x \in BOOLEAN} \cup
  {Paying(n, <<1, 2, 3, 2, 1>>, t, Every, 5, x) :
     n \in {n \in Feeders \cup Midnight \cup Parallel : n.departure[2][1] \in {4, 6, 12}} \cup Ring,
     t \in UNION {{Unfared(t), Unjoined(t)} : t \in {t \in Tariffs : t.unlimited # {} /\ t.max_discounts = 2 /\ t.pair = (<<1, 2>> :> 9)}},
     x \in BOOLEAN}

MCQueries == Feeders \cup Midnight \cup Parallel \cup Odd \cup Ring
=============================================================================
