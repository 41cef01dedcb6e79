----------------------------- MODULE Itineraries ----------------------------
(***************************************************************************)
(* What every engine of cafein-core/routers promises, said of an instance  *)
(* n (a timetable, footpaths and a request, as in Raptor) without rounds   *)
(* of marked stops, queues or scan orders: the earliest arrivals by        *)
(* dynamic programming over all rides and footpaths, and when a set of     *)
(* journeys is a Pareto frontier.                                          *)
(***************************************************************************)
EXTENDS Integers, SequencesExt

CONSTANTS
  Stops,      \* the stop indices
  Day,        \* DAY_SECONDS: how far back a previous-day trip is shifted
  Unreached   \* the u32::MAX sentinel: no time is at or above it

DayOffset(stream) == IF stream = 0 THEN 0 ELSE Day
RidesOfRound(n) == 0 .. n.rounds

\* The rides of n: a usable trip of either service day, boarded at one of its
\* positions and alighted at a later one.
RidesOf(n) ==
  UNION {{[stream |-> d, trip |-> t, board |-> b, alight |-> a] :
            b \in DOMAIN n.arrival[t], a \in DOMAIN n.arrival[t]} :
           d \in {0, 1}, t \in n.trips}
PossibleRides(n) == {r \in RidesOf(n) : r.trip \in n.usable[r.stream] /\ r.board < r.alight}
StopAt(n, r, i) == n.pattern_stops[n.trip_pattern[r.trip]][i]
BoardedAt(n, r) == n.departure[r.trip][r.board] - DayOffset(r.stream)
AlightedAt(n, r) == n.arrival[r.trip][r.alight] - DayOffset(r.stream)

\* The stops and times the rides of one more round reach, if fewer rides
\* reach the stops at earliest, and those a footpath behind them reaches.
RideArrivals(n, earliest) ==
  {<<StopAt(n, r, r.alight), AlightedAt(n, r)>> :
     r \in {r \in PossibleRides(n) : /\ StopAt(n, r, r.alight) \notin n.excluded
                                     /\ earliest[StopAt(n, r, r.board)] # Unreached
                                     /\ earliest[StopAt(n, r, r.board)] <= BoardedAt(n, r)}}
WalkArrivals(n, rides) ==
  {<<x[2].to, x[1][2] + x[2].duration>> :
     x \in {x \in rides \X n.transfers : x[2].from = x[1][1] /\ x[2].to \notin n.excluded}}

\* The same function, with its values computed.
Tabled(f) == f @@ <<>>

\* Earliest(n, D)[k][s]: over all journeys that leave at a departure of D and
\* take at most k rides, one footpath between two rides at most.
Started(n, D) ==
  [s \in Stops |-> Min({Unreached} \cup
     {d + a.duration : d \in D, a \in {a \in n.access : a.stop = s /\ s \notin n.excluded}})]
Further(n, earliest) ==
  LET rides == RideArrivals(n, earliest)
      arrivals == rides \cup WalkArrivals(n, rides)
  IN  [s \in Stops |-> Min({earliest[s]} \cup {x[2] : x \in {x \in arrivals : x[1] = s}})]
Earliest(n, D) ==
  LET earliest[k \in RidesOfRound(n)] == IF k = 0 THEN Started(n, D) ELSE Further(n, earliest[k - 1])
  IN  [k \in RidesOfRound(n) |-> earliest[k]]

\* All ways from a departure to a stop, with the leg of every ride: one
\* footpath at most after each.
RiddenOn(n, ways, leg(_, _)) ==
  UNION {{[stop |-> StopAt(n, r, r.alight), at |-> AlightedAt(n, r), legs |-> Append(w.legs, leg(n, r))] :
            r \in {r \in PossibleRides(n) : StopAt(n, r, r.board) = w.stop /\ BoardedAt(n, r) >= w.at}} : w \in ways}
WalkedOn(n, ways) ==
  UNION {{[w EXCEPT !.stop = e.to, !.at = @ + e.duration] : e \in {e \in n.transfers : e.from = w.stop}} : w \in ways}
WaysFrom(n, d, leg(_, _)) ==
  LET seeds == {[stop |-> a.stop, at |-> d + a.duration, legs |-> <<>>] : a \in n.access}
      onward(ways) == LET rode == RiddenOn(n, ways, leg) IN rode \cup WalkedOn(n, rode)
      byRides == FoldLeft(LAMBDA all, k : Append(all, onward(Last(all))), <<seeds>>, [k \in 1 .. n.rounds |-> k])
  IN  UNION Range(byRides)

\* A journey can be made as its legs say: it leaves at its departure, walks
\* an access link, every leg starts where and no earlier than the one before
\* ended, it rides as often as it says, and ends with an egress link.
Feasible(n, j) ==
  /\ j.legs[1].mode = "access" /\ j.legs[1].departure = j.departure
  /\ [stop |-> j.legs[1].to, duration |-> j.legs[1].arrival - j.departure] \in n.access
  /\ \A i \in 2 .. Len(j.legs) : /\ j.legs[i].from = j.legs[i - 1].to
                                 /\ j.legs[i].departure >= j.legs[i - 1].arrival
                                 /\ j.legs[i].arrival >= j.legs[i].departure
  /\ \A i \in 1 .. Len(j.legs) : j.legs[i].to \notin n.excluded
  /\ Cardinality({i \in 1 .. Len(j.legs) : j.legs[i].mode = "transit"}) = j.rides
  /\ j.egress \in n.egress /\ j.legs[Len(j.legs)].to = j.egress.stop
  /\ j.arrival = j.legs[Len(j.legs)].arrival + j.egress.duration

\* No journey of the set is dominated by another: later or equal departure,
\* earlier or equal arrival, no more rides.
Undominated(journeys) ==
  \A i, j \in journeys :
    /\ i.departure >= j.departure /\ i.arrival <= j.arrival /\ i.rides <= j.rides
    => i = j

\* Every journey of the set takes its egress link sooner than walking to it
\* from the origin would.
BeatWalking(n, journeys) ==
  \A j \in journeys :
    \A a \in n.access : a.stop = j.egress.stop => j.arrival < j.departure + a.duration + j.egress.duration

\* Whatever rides reach before walking does, from any departure of D, a
\* journey of the set is as good in all three.
Complete(n, D, journeys) ==
  \A d \in D :
    LET earliest == Earliest(n, {d}) IN
    \A k \in 1 .. n.rounds, e \in n.egress :
      /\ earliest[k][e.stop] < earliest[0][e.stop]
      /\ earliest[k][e.stop] + e.duration < Unreached
      => \E j \in journeys : /\ j.departure >= d
                             /\ j.arrival <= earliest[k][e.stop] + e.duration
                             /\ j.rides <= k
=============================================================================
