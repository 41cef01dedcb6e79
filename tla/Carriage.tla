------------------------------ MODULE Carriage ------------------------------
(***************************************************************************)
(* Taking one's own vehicle along (cafein-core, routers/carriage.rs, and   *)
(* cafein-py, carriage.rs): rounds of rides in two planes.  In Carrying    *)
(* the vehicle is aboard or ridden between stops, in Free it is parked or  *)
(* was left at the origin; parking leads from one to the other.            *)
(*                                                                         *)
(* One thread goes through the phases of a round in a fixed order, and an  *)
(* action is one phase.  A plane's best is the least of its tau so far,    *)
(* and its marked stops are those its tau has at the last round.           *)
(***************************************************************************)
EXTENDS Itineraries

CONSTANT Queries
  \* the instances: a timetable; per plane the access and egress links, one to
  \* a stop; the carriage set's rows and the walking set's, as stored; the
  \* trips that take vehicles and the stops to park at

VARIABLES
  q,           \* the instance
  pc, round,   \* the phase, and the round it is of
  planes,      \* planes[x].tau[k][s], and .label[k][s]: how it was reached
  sidecar,     \* sidecar[x]: the round's best ride to each stop, shadowed or not
  riders,      \* the parked who may walk on: <<stop, time, {their ride} or {}>>
  offers       \* the (arrival, rides) frontier of the query

carriageVars == <<q, pc, round, planes, sidecar, riders, offers>>

Carrying == 0
Free == 1
Planes == {Carrying, Free}
InOrder(S) == SelectSeq([i \in 1 .. Max(Stops) |-> i], LAMBDA s : s \in S)

\* A label is how a stop was reached: [kind] and, of a ride, the ride; of a
\* row, where it starts, its duration, whether the vehicle rides it, and the
\* ride (or none) and the park it carries inline.
Unlabelled == [kind |-> "unreached"]
RowFrom(e, via, parked) ==
  [kind |-> "row", from |-> e.from, duration |-> e.duration, ride |-> e.ride, via |-> via, parked |-> parked]
Written(stop, at, label) == [stop |-> stop, at |-> at, label |-> label]

\* improve.
Within(p, k, s) == Min({p.tau[j][s] : j \in 0 .. k})
Improved(p, k, w) ==
  IF w.at >= Within(p, k, w.stop) THEN p
  ELSE [p EXCEPT !.tau[k][w.stop] = w.at, !.label[k][w.stop] = w.label]
ImprovedBy(p, k, writes) == FoldLeft(LAMBDA to, w : Improved(to, k, w), p, writes)
ReachedIn(x) == {s \in Stops : planes[x].tau[round][s] # Unreached}

\* The stored rows from s on: what they reach from a time on.
Relaxed(rows, s, at, via, parked) ==
  LET edges == SelectSeq(rows, LAMBDA e : e.from = s)
  IN  [i \in DOMAIN edges |-> Written(edges[i].to, at + edges[i].duration, RowFrom(edges[i], via, parked))]

NoRides == [at |-> [s \in Stops |-> Unreached], ride |-> [s \in Stops |-> {}], touched |-> <<>>]
Unvisited == [tau |-> [k \in RidesOfRound(q) |-> [s \in Stops |-> Unreached]],
              label |-> [k \in RidesOfRound(q) |-> [s \in Stops |-> Unlabelled]]]

CarriageInit ==
  /\ q \in Queries
  /\ pc = "seed" /\ round = 0 /\ planes = <<>> /\ sidecar = <<>> /\ riders = <<>> /\ offers = <<>>

\* The seeds of either plane.
SeedAccess ==
  /\ pc = "seed" /\ pc' = "park seeds"
  /\ planes' = [x \in Planes |->
       ImprovedBy(Unvisited, 0,
                  [i \in 1 .. Len(q.links[x].access) |->
                     Written(q.links[x].access[i].stop, q.start + q.links[x].access[i].duration,
                             [kind |-> "access", walked |-> q.links[x].access[i].walked])])]
  /\ UNCHANGED <<q, round, sidecar, riders, offers>>

\* Parking where the access ends; on foot from there if it has not walked yet.
ParkedAt(stops) == [i \in DOMAIN stops |-> Written(stops[i], planes[Carrying].tau[round][stops[i]], [kind |-> "park"])]
ParkSeeds ==
  /\ pc = "park seeds" /\ pc' = "aboard" /\ round' = 1
  /\ \E seeds \in {InOrder(q.parks \cap ReachedIn(Carrying))} :
     LET unwalked == SelectSeq(seeds, LAMBDA s : ~planes[Carrying].label[0][s].walked)
         walks == FlattenSeq([i \in DOMAIN unwalked |->
                    Relaxed(q.walking, unwalked[i], planes[Carrying].tau[0][unwalked[i]], {}, TRUE)])
     IN  planes' = [planes EXCEPT ![Free] = ImprovedBy(@, 0, ParkedAt(seeds) \o walks)]
  /\ UNCHANGED <<q, sidecar, riders, offers>>

----------------------------------------------------------------------------
(* A round.                                                                *)

\* boardable_trip, for those that run on the day of the stream.
Boardable(x, p, i, stream, ready) ==
  {t \in q.usable[stream] : /\ q.trip_pattern[t] = p /\ q.departure[t][i] >= ready
                            /\ x = Carrying => t \in q.carriers}
\* scan_patterns at position i of p: the riders of either stream alight, then
\* an earlier trip is boarded where the last round reached the stop in time.
Boarded(x, p, i, stream, current, reached) ==
  LET ready == reached + DayOffset(stream)
      trips == IF \A r \in current : ready <= q.departure[r.trip][i] THEN Boardable(x, p, i, stream, ready) ELSE {}
  IN  IF trips = {} \/ \E r \in current : q.departure[Min(trips)][i] >= q.departure[r.trip][i] THEN current
      ELSE {[trip |-> Min(trips), stream |-> stream, board |-> i]}
ScanPosition(x, p, i, scan) ==
  LET stops == q.pattern_stops[p]
      reached == planes[x].tau[round - 1][stops[i]]
      alighted == FoldLeft(LAMBDA w, stream : w \o SetToSeq({[stop |-> stops[i], ride |-> r @@ [alight |-> i]] : r \in scan.current[stream]}),
                           <<>>, <<0, 1>>)
  IN  [rides |-> scan.rides \o alighted,
       current |-> IF reached = Unreached \/ i = Len(stops) THEN scan.current
                   ELSE Tabled([stream \in {0, 1} |-> Boarded(x, p, i, stream, scan.current[stream], reached)])]
ScanPattern(x, p, rides) ==
  LET stops == q.pattern_stops[p]
      marked == {i \in DOMAIN stops : planes[x].tau[round - 1][stops[i]] # Unreached}
  IN  IF marked = {} THEN rides
      ELSE FoldLeft(LAMBDA scan, i : ScanPosition(x, p, i, scan),
                    [rides |-> rides, current |-> [stream \in {0, 1} |-> {}]],
                    [i \in 1 .. Len(stops) - Min(marked) + 1 |-> Min(marked) + i - 1]).rides
Taken(work, k, r) ==
  LET at == AlightedAt(q, r.ride) IN
  [plane |-> Improved(work.plane, k, Written(r.stop, at, [kind |-> "ride", ride |-> r.ride])),
   rides |-> IF at >= work.rides.at[r.stop] THEN work.rides
             ELSE [at |-> [work.rides.at EXCEPT ![r.stop] = at],
                   ride |-> [work.rides.ride EXCEPT ![r.stop] = {r.ride}],
                   touched |-> IF work.rides.ride[r.stop] = {} THEN Append(work.rides.touched, r.stop)
                               ELSE work.rides.touched]]

\* The transit phase of plane x.
RidePlane(x) ==
  \E rides \in {FoldLeft(LAMBDA found, p : ScanPattern(x, p, found), <<>>, [p \in DOMAIN q.pattern_stops |-> p])} :
  \E work \in {FoldLeft(LAMBDA w, r : Taken(w, round, r), [plane |-> planes[x], rides |-> NoRides], rides)} :
    /\ planes' = [planes EXCEPT ![x] = work.plane]
    /\ sidecar' = (x :> work.rides) @@ sidecar
RideAboard == pc = "aboard" /\ pc' = "ride" /\ RidePlane(Carrying) /\ UNCHANGED <<q, round, riders, offers>>
RideFree == pc = "ride" /\ pc' = "carry" /\ RidePlane(Free) /\ UNCHANGED <<q, round, riders, offers>>

\* What rows lead to from the rides of plane x.
FromRides(x, rows) ==
  FlattenSeq([i \in DOMAIN sidecar[x].touched |->
    LET s == sidecar[x].touched[i] IN Relaxed(rows, s, sidecar[x].at[s], sidecar[x].ride[s], FALSE)])

\* The carriage rows, those the vehicle rides first.
CarryOn ==
  /\ pc = "carry" /\ pc' = "park"
  /\ \E rows \in {FromRides(Carrying, q.carriage)} :
       planes' = [planes EXCEPT ![Carrying] =
         ImprovedBy(@, round, SelectSeq(rows, LAMBDA w : w.label.ride) \o SelectSeq(rows, LAMBDA w : ~w.label.ride))]
  /\ UNCHANGED <<q, round, sidecar, riders, offers>>

\* Parking: who came by a ride may walk on, and who rode the vehicle in while
\* no other label holds the stop.  Mutant: so may who carried it in on foot.
CarriedIn(s) == planes[Carrying].label[round][s].kind = "row"
RodeIn(s) == LET l == planes[Carrying].label[round][s] IN l.kind = "row" /\ l.ride
Park ==
  /\ pc = "park" /\ pc' = "walk"
  /\ \E parked \in {InOrder(q.parks \cap ReachedIn(Carrying))} :
     LET rode == SelectSeq(sidecar[Carrying].touched, LAMBDA s : s \in q.parks)
         ridden == SelectSeq(parked, RodeIn)
     IN  /\ planes' = [planes EXCEPT ![Free] = ImprovedBy(@, round, ParkedAt(parked))]
         /\ riders' = [i \in DOMAIN rode |-> <<rode[i], sidecar[Carrying].at[rode[i]], sidecar[Carrying].ride[rode[i]]>>]
                      \o [i \in DOMAIN ridden |-> <<ridden[i], planes[Carrying].tau[round][ridden[i]], {}>>]
  /\ UNCHANGED <<q, round, sidecar, offers>>

\* The walks of the free plane, and the end of the round.
WalkOn ==
  /\ pc = "walk"
  /\ \E free \in {ImprovedBy(planes[Free], round,
                    FromRides(Free, q.walking) \o
                    FlattenSeq([i \in DOMAIN riders |->
                      Relaxed(q.walking, riders[i][1], riders[i][2], riders[i][3], TRUE)]))} :
     /\ planes' = [planes EXCEPT ![Free] = free]
     /\ IF round = q.rounds \/ (ReachedIn(Carrying) = {} /\ \A s \in Stops : free.tau[round][s] = Unreached)
        THEN pc' = "fold" /\ UNCHANGED round
        ELSE pc' = "aboard" /\ round' = round + 1
  /\ UNCHANGED <<q, sidecar, riders, offers>>

----------------------------------------------------------------------------
(* What the query returns (cafein-py, carriage.rs).                        *)

\* reconstruct.
RideLeg(x, r) == [mode |-> "ride", plane |-> x, ride |-> r, from |-> StopAt(q, r, r.board), to |-> StopAt(q, r, r.alight),
                  departure |-> BoardedAt(q, r), arrival |-> AlightedAt(q, r)]
ParkLeg(s, at) == [mode |-> "park", plane |-> Free, from |-> s, to |-> s, departure |-> at, arrival |-> at]
RowLeg(x, l, s, at) == [mode |-> IF l.ride THEN "cycle" ELSE "walk", plane |-> x,
                        from |-> l.from, to |-> s, departure |-> at - l.duration, arrival |-> at]
Reconstruct(tables) ==
  LET legs[y \in Planes \X RidesOfRound(q) \X Stops] ==
        LET at == tables[y[1]].tau[y[2]][y[3]]
            l == tables[y[1]].label[y[2]][y[3]]
            Behind(x, r) == Append(legs[<<x, y[2] - 1, StopAt(q, r, r.board)>>], RideLeg(x, r))
        IN  CASE l.kind = "access" -> <<[mode |-> "access", plane |-> y[1], from |-> y[3], to |-> y[3], walked |-> l.walked,
                                         departure |-> q.start, arrival |-> at]>>
              [] l.kind = "park" -> Append(legs[<<Carrying, y[2], y[3]>>], ParkLeg(y[3], at))
              [] l.kind = "ride" -> Behind(y[1], l.ride)
              [] l.kind = "row" ->
                   LET x == IF l.parked THEN Carrying ELSE y[1]
                       before == IF l.via = {} THEN legs[<<x, y[2], l.from>>] ELSE Behind(x, CHOOSE r \in l.via : TRUE)
                   IN  before \o (IF l.parked THEN <<ParkLeg(l.from, at - l.duration)>> ELSE <<>>)
                              \o <<RowLeg(y[1], l, y[3], at)>>
  IN  legs

\* The ways out of either plane within k rides: arrival, plane and stop.
WaysOut(k) ==
  {<<Within(planes[x], k, e.stop) + e.duration, x, e.stop>> :
     <<x, e>> \in {y \in Planes \X (q.links[Carrying].egress \cup q.links[Free].egress) : y[2] \in q.links[y[1]].egress}}
\* A round is offered when it is sooner than every one before.
Out(ways) == CHOOSE w \in ways : \A v \in ways : w[1] < v[1] \/ (w[1] = v[1] /\ (w[2] < v[2] \/ (w[2] = v[2] /\ w[3] <= v[3])))
Offered(kept, k, w) ==
  IF w[1] >= Min({Unreached} \cup {o.arrival : o \in ToSet(kept)}) THEN kept
  ELSE LET p == planes[w[2]]
           rides == Min({j \in 0 .. k : p.tau[j][w[3]] = Within(p, k, w[3])})
       IN  Append(kept, [arrival |-> w[1], rides |-> rides, stop |-> w[3], legs |-> Reconstruct(planes)[<<w[2], rides, w[3]>>]])
Fold ==
  /\ pc = "fold" /\ pc' = "carried"
  /\ offers' = FoldLeft(LAMBDA kept, k : IF WaysOut(k) = {} THEN kept ELSE Offered(kept, k, Out(WaysOut(k))),
                       <<>>, [k \in 1 .. q.rounds + 1 |-> k - 1])
  /\ UNCHANGED <<q, round, planes, sidecar, riders>>

CarriageNext == SeedAccess \/ ParkSeeds \/ RideAboard \/ RideFree \/ CarryOn \/ Park \/ WalkOn \/ Fold

----------------------------------------------------------------------------
(* The same search by moves alone: every ride from every arrival, without  *)
(* marks, labels or bounds.                                                *)

Aboard(n) == [n EXCEPT !.usable = [d \in {0, 1} |-> @[d] \cap n.carriers]]
Over(n, rows) == [n EXCEPT !.transfers = rows]
AtParks(n, arrivals) == {a \in arrivals : a[1] \in n.parks}
Soonest(arrivals, before) == Tabled([s \in Stops |-> Min({before[s]} \cup {a[2] : a \in {a \in arrivals : a[1] = s}})])
Seeded(n, links) == {<<a.stop, n.start + a.duration>> : a \in links}
Beginning(n) ==
  LET aboard == ToSet(n.links[Carrying].access)
      none == [s \in Stops |-> Unreached]
      parked == AtParks(n, Seeded(n, {a \in aboard : ~a.walked}))
  IN  (Carrying :> Soonest(Seeded(n, aboard), none)) @@
      (Free :> Soonest(Seeded(n, ToSet(n.links[Free].access)) \cup AtParks(n, Seeded(n, aboard))
                       \cup WalkArrivals(Over(n, ToSet(n.walking)), parked), none))

\* One round: after a ride aboard one row of the carriage set, after a free
\* ride or a park one walk; but no walk follows a carried walk, and none a
\* row ridden to a stop that was carried to as soon before.
Moved(n, before, rode, rows, ridden, free) ==
  LET carried == rode \cup rows
      holding == {a \in ridden : a[2] < before[Carrying][a[1]] /\ \A b \in carried : b[1] = a[1] => a[2] <= b[2]}
      walkers == free \cup AtParks(n, rode \cup holding)
  IN  (Carrying :> Soonest(carried, before[Carrying])) @@
      (Free :> Soonest(free \cup AtParks(n, carried) \cup WalkArrivals(Over(n, ToSet(n.walking)), walkers), before[Free]))
AfterRound(n, before) ==
  LET rode == RideArrivals(Aboard(n), before[Carrying])
  IN  Moved(n, before, rode, WalkArrivals(Over(n, ToSet(n.carriage)), rode),
            WalkArrivals(Over(n, {e \in ToSet(n.carriage) : e.ride}), rode), RideArrivals(n, before[Free]))
ByRounds(n) ==
  FoldLeft(LAMBDA bests, k : bests @@ (k :> AfterRound(n, bests[k - 1])), 0 :> Beginning(n), [k \in 1 .. n.rounds |-> k])

\* A chain of legs obeys the vehicle: aboard on trips that take it only,
\* ridden by the carriage set's rows after a ride only, parked once and where
\* it may be, and two walks never follow each other.
OnRow(l, rows) ==
  \E e \in rows : e.from = l.from /\ e.to = l.to /\ e.duration = l.arrival - l.departure /\ (l.mode = "cycle") = e.ride
HasWalked(l) == l.mode = "walk" \/ (l.mode = "access" /\ l.walked)
Allowed(n, legs, i) ==
  LET l == legs[i]
      b == legs[i - 1] IN
  /\ l.from = b.to /\ l.departure >= b.arrival
  /\ CASE l.mode = "ride" -> /\ l.plane = b.plane /\ l.ride.trip \in n.usable[l.ride.stream] /\ l.ride.board < l.ride.alight
                             /\ l.plane = Carrying => l.ride.trip \in n.carriers
       [] l.mode = "park" -> b.plane = Carrying /\ l.to \in n.parks
       [] l.plane = Carrying -> b.mode = "ride" /\ b.plane = Carrying /\ OnRow(l, ToSet(n.carriage))
       [] OTHER -> /\ OnRow(l, ToSet(n.walking)) /\ b.plane = Free
                   /\ b.mode = "ride" \/ (b.mode = "park" /\ ~HasWalked(legs[i - 2]))
Legal(n, legs, x, k, s, at) ==
  /\ \E a \in ToSet(n.links[legs[1].plane].access) :
       /\ legs[1].mode = "access" /\ legs[1].walked = a.walked
       /\ legs[1].to = a.stop /\ legs[1].arrival = n.start + a.duration
  /\ legs[Len(legs)].to = s /\ legs[Len(legs)].arrival = at /\ legs[Len(legs)].plane = x
  /\ \A i \in 2 .. Len(legs) : Allowed(n, legs, i)
  /\ Cardinality({i \in 1 .. Len(legs) : legs[i].mode = "ride"}) = k

\* After any number of rides either plane has the earliest arrival its moves
\* allow, behind every arrival stands a legal chain, and what is offered is
\* the frontier of arrivals and rides over both (search, reconstruct,
\* _carriage_route).
Soon(n, bests, k) ==
  Min({Unreached} \cup UNION {{bests[k][x][e.stop] + e.duration : e \in n.links[x].egress} : x \in Planes})
CarriageExact ==
  pc = "carried" =>
    \A bests \in {ByRounds(q)}, legs \in {Reconstruct(planes)} :
      \A k \in RidesOfRound(q) :
        /\ \A x \in Planes, s \in Stops :
             /\ Within(planes[x], k, s) = bests[k][x][s]
             /\ planes[x].tau[k][s] # Unreached => Legal(q, legs[<<x, k, s>>], x, k, s, planes[x].tau[k][s])
        /\ \A soon \in {Soon(q, bests, k)} :
             (soon < Unreached /\ (k > 0 => soon < Soon(q, bests, k - 1)))
               <=> \E o \in ToSet(offers) : o.rides = k /\ o.arrival = soon
=============================================================================
