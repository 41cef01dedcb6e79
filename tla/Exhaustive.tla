----------------------------- MODULE Exhaustive -----------------------------
(***************************************************************************)
(* The frontiers the multicriteria engines are held against: the oracle    *)
(* the repository verifies them with (exhaustive.rs), and all itineraries  *)
(* an instance has, without rounds of labels, bags or prunings.            *)
(***************************************************************************)
EXTENDS MultiCriteria

----------------------------------------------------------------------------
(* pareto_oracle.                                                         *)

Undominate(points) ==
  {p \in points : \A o \in points : o[1] <= p[1] /\ o[2] <= p[2] => o = p}
\* What is left of new points once points that ever reached the stop count.
Surviving(ever, new) == {p \in Undominate(new) : \A o \in ever : ~(o[1] <= p[1] /\ o[2] <= p[2])}

\* Every ride to s of every boardable trip from every point of a stop.
RidesTo(points, s) ==
  UNION {{<<Arrive(r.trip, r.alight), x[2] + Grams(r.trip, r.alight) - Grams(r.trip, r.board)>> :
            x \in {x \in points[StopsOf(r.trip)[r.board]] : x[1] <= Depart(r.trip, r.board)}} :
         r \in {r \in [trip : {v \in View : Resolved(v) /\ RouteOpen(LineOf(v))}, board : 1 .. 4, alight : 1 .. 4] :
                  /\ r.board < r.alight /\ r.alight <= Len(StopsOf(r.trip))
                  /\ StopsOf(r.trip)[r.alight] = s}}
OracleRound(w) ==
  LET rode == [s \in Stops |-> Surviving(w.ever[s], RidesTo(w.current, s))]
      seen == [s \in Stops |-> Undominate(w.ever[s] \cup rode[s])]
      walks == [s \in Stops |-> UNION {{<<p[1] + e.duration, p[2]>> : p \in rode[e.from]} :
                                         e \in {e \in q.transfers : e.to = s}}]
      walked == [s \in Stops |-> Surviving(seen[s], walks[s])]
      next == [s \in Stops |-> Undominate(rode[s] \cup walked[s])]
  IN  [current |-> next, ever |-> [s \in Stops |-> Undominate(seen[s] \cup walked[s])],
       destination |-> Undominate(w.destination \cup
                         UNION {{<<p[1] + e.duration, p[2]>> : p \in next[e.stop]} : e \in q.egress})]
ParetoOracle(departure) ==
  LET seeds == [s \in Stops |-> Undominate({<<departure + a.duration, 0>> : a \in {a \in q.access : a.stop = s}})]
      oracle[k \in RidesOfRound(q)] ==
        IF k = 0 THEN [current |-> seeds, ever |-> seeds, destination |-> {}] ELSE OracleRound(oracle[k - 1])
  IN  oracle[q.rounds].destination

----------------------------------------------------------------------------
(* All itineraries.                                                       *)

SealedGrams(e) == IF q.merged /\ e \in DOMAIN q.ride_grams THEN q.ride_grams[e] ELSE 0
\* reach[k][s]: the arrivals and grams at s with at most k rides, each
\* followed by one footpath at most.
Reach(departure) ==
  LET open(r) == [s \in Stops |-> IF s \in q.excluded THEN {} ELSE r[s]]
      walks(r, s) == UNION {{<<p[1] + e.duration, p[2] + SealedGrams(e)>> : p \in r[e.from]} :
                              e \in {e \in q.transfers : e.to = s}}
      reach[k \in RidesOfRound(q)] ==
        IF k = 0
          THEN open([s \in Stops |-> {<<departure + a.duration, StreetGrams(q.access_grams, a)>> :
                                        a \in {a \in q.access : a.stop = s}}])
          ELSE LET rode == open([s \in Stops |-> RidesTo(reach[k - 1], s)])
               IN  open([s \in Stops |-> reach[k - 1][s] \cup rode[s] \cup walks(rode, s)])
  IN  reach
Departures == Range(q.departures)
\* The ways to slot x that leave at a departure: arrival, grams and rides;
\* without the ones that walking from here or from a later departure beats.
Ways(x, departure) ==
  LET reach == Reach(departure)
      seeds(s) == UNION {Reach(d)[0][s] : d \in {d \in Departures : d >= departure}}
      ridden(k, s) == {p \in reach[k][s] : \A o \in seeds(s) : ~(o[1] <= p[1] /\ Key(o[2]) <= Key(p[2]))}
  IN  UNION {{[arrival |-> p[1] + y.link.duration, grams |-> p[2] + StreetGrams(q.egress_grams, y.link),
               rides |-> y.rides] : p \in ridden(y.rides, y.link.stop)} :
             y \in [rides : 1 .. q.rounds, link : {e \in Egress(x) : e.stop \notin q.excluded}]}

----------------------------------------------------------------------------
(* What the engines return.                                               *)

Done == pc = "done"
Single == q.product # "emissions"

\* Whatever a departure of the window can reach, a returned journey leaves no
\* earlier, arrives no later and is as clean, but for "one bucket ... per
\* insertion its labels survived" (mcraptor.rs:7-14): none at all where a
\* bucket is one unit.  A slack, a cap on the options or the pruning by the
\* one destination loses none.
FrontierWithinBuckets ==
  Done /\ Single /\ q.closed /\ q.band = Unreached =>
    \A x \in Slots, d \in Departures : \A way \in Ways(x, d) :
      \E j \in output[x] : /\ j.departure >= d /\ j.arrival <= way.arrival
                           /\ j.grams <= way.grams + (2 * way.rides + 1) * (q.bucket - 1)

\* One departure, a bucket of one unit: exactly the oracle's frontier, on any
\* footpaths (mcraptor.rs:13-14).
OracleAgrees ==
  Done /\ q.product = "pair" /\ Len(q.departures) = 1 /\ q.bucket = 1 /\ q.plain =>
    {<<j.arrival, j.grams>> : j \in output[0]} = ParetoOracle(q.departures[1])

\* The chain of every journey, labels since evicted included, is one the
\* timetable and the footpaths have, and its legs make up its arrival, its
\* grams and its penalty.
RideGrams(leg) == Grams(leg.trip, leg.alight) - Grams(leg.trip, leg.board)
LegReal(leg) ==
  \/ leg.mode = "access"
  \/ /\ leg.mode = "transit" /\ leg.trip \in View /\ Resolved(leg.trip) /\ RouteOpen(LineOf(leg.trip))
     /\ leg.board < leg.alight
     /\ leg.from = StopsOf(leg.trip)[leg.board] /\ leg.to = StopsOf(leg.trip)[leg.alight]
     /\ leg.departure = Depart(leg.trip, leg.board) /\ leg.arrival = Arrive(leg.trip, leg.alight)
  \/ /\ leg.mode = "transfer"
     /\ \E e \in q.transfers : leg.from = e.from /\ leg.to = e.to /\ leg.arrival - leg.departure = e.duration
LegGrams(leg) ==
  IF leg.mode = "transit" THEN RideGrams(leg)
  ELSE IF leg.mode = "transfer"
    THEN SealedGrams([from |-> leg.from, to |-> leg.to, duration |-> leg.arrival - leg.departure])
  ELSE StreetGrams(q.access_grams, [stop |-> leg.to, duration |-> leg.arrival - leg.departure])
LegPenalty(leg) == IF leg.mode = "transit" THEN q.route_penalty[LineOf(leg.trip).pattern] ELSE 0
Total(legs, Op(_)) == FoldLeft(LAMBDA sum, leg : sum + Op(leg), 0, legs)
JourneysAddUp ==
  Done => \A x \in Slots : \A j \in output[x] :
    /\ Feasible([q EXCEPT !.egress = Egress(x)], [j EXCEPT !.arrival = @])
    /\ \A i \in DOMAIN j.legs : LegReal(j.legs[i])
    /\ j.grams = Total(j.legs, LegGrams) + (IF Single THEN StreetGrams(q.egress_grams, j.egress) ELSE 0)
    /\ j.penalty = Total(j.legs, LegPenalty)

\* max_slower never loses a departure's fastest ride: it comes back, or a
\* later departure's that arrives no later.
FastestKept(x, p) ==
  LET ways == Ways(x, q.departures[p]) IN
  \A way \in {way \in ways : \A o \in ways : way.arrival <= o.arrival} :
    \E j \in output[x] : j.departure >= q.departures[p] /\ j.arrival <= way.arrival
Banded == Done /\ Single /\ q.closed /\ q.band # Unreached
\* Where a stop is both an access and an egress stop, the sweep's seeds alone
\* may reach the slot, without a ride.
WalkableByStops(x) == \E a \in q.access, e \in Egress(x) : a.stop = e.stop
\* "The cutoff floor provably keeps that journey alive" (mc_bounds.rs:15),
\* where no stop is both an access and an egress stop.
FastestSurvives ==
  Banded => \A x \in Slots, p \in DOMAIN q.departures : WalkableByStops(x) \/ FastestKept(x, p)
\* "That fastest journey is always among the rows" (frontier.py:227).
FastestAlwaysAmongRows ==
  Banded => \A x \in Slots, p \in DOMAIN q.departures : FastestKept(x, p)

\* The matrix cell: within the budget, no cleaner way and of the cleanest no
\* faster one, over all departures, and a way as good for every cell.
LeastEmissionsExact ==
  Done /\ q.product = "emissions" /\ q.closed /\ q.bucket = 1 =>
    \A x \in Slots, d \in Departures : \A way \in Ways(x, d) :
      way.arrival - d <= q.budget =>
        \E j \in output[x] : \/ j.grams < way.grams
                             \/ j.grams = way.grams /\ j.arrival - j.departure <= way.arrival - d

\* Every product's frontier is exact up to its buckets: complete for pairs and
\* rows, equal to the oracle's where a bucket is one unit, cleanest for a cell, and a
\* band never costs a departure its fastest ride.
FrontiersExact == FrontierWithinBuckets /\ OracleAgrees /\ LeastEmissionsExact /\ FastestSurvives
=============================================================================
