---------------------------- MODULE MultiCriteria ---------------------------
(***************************************************************************)
(* What the multicriteria engines of cafein-core share (routers/mcraptor   *)
(* and routers/mctbtr): bags ordered by arrival, emissions bucket and      *)
(* rides, the destinations' own bags, the footpath batch of a round, the   *)
(* band of max_slower, and what either engine promises of its results.     *)
(*                                                                         *)
(* Grams are whole units (micrograms in the code, quantized at every       *)
(* label), a leg's distance is the number of positions it covers, and a    *)
(* factor is grams per position.                                           *)
(***************************************************************************)
EXTENDS DayView

VARIABLES
  pc,           \* which loop it is in
  pass, round,  \* index into q.departures; rides taken by the labels being made
  arena,        \* every label made; an index into it is a parent
  bags,         \* bags[s]: the entries of the undominated labels at s
  destination,  \* destination[x]: the frontier of slot x
  best,         \* best[x]: the cleanest label of slot x within the budget
  output,       \* output[x]: the journeys returned for slot x
  bounds        \* bounds[p][s][k]: what max_slower's sweep of departure p has at s

Departure == q.departures[pass]

\* The trips a search may board: not excluded, with a factor on record.
Resolved(v) == v.trip \in DOMAIN q.factor /\ v.trip \notin q.excluded_trips
RouteOpen(l) == l.pattern \notin q.excluded_routes /\ q.route_penalty[l.pattern] # Unreached
Factor(v) == q.factor[v.trip]
\* absolute_grams: from the first position of v to a later one.
Grams(v, i) == (i - 1) * Factor(v)

----------------------------------------------------------------------------
(* Dominance (mcraptor/bag.rs).  The order of a bag's entries decides      *)
(* nothing.                                                                *)

Key(grams) == grams \div q.bucket
Effective(x) == x.arrival + x.penalty
SameClass(x, y) ==
  x.arrival = y.arrival /\ x.penalty = y.penalty /\ x.key = y.key /\ x.rides = y.rides

\* Mutant: rides are not ranked, so a later departure's label with more of
\* them stands in the way.
RejectsAnyRides(x, e) ==
  /\ x.key <= e.key /\ x.arrival <= e.arrival
  /\ IF SameClass(x, e) THEN x.grams <= e.grams ELSE Effective(x) + q.slack <= Effective(e)
\* Entry x keeps e out of the bag.
Rejects(x, e) ==
  /\ x.key <= e.key /\ x.rides <= e.rides /\ x.arrival <= e.arrival
  /\ IF SameClass(x, e) THEN x.grams <= e.grams ELSE Effective(x) + q.slack <= Effective(e)
\* The newcomer e takes x out of it.
Evicts(e, x) ==
  \/ /\ e.key <= x.key /\ e.rides <= x.rides /\ e.arrival <= x.arrival
     /\ Effective(e) + q.slack <= Effective(x)
  \/ SameClass(x, e) /\ e.grams < x.grams
Rejecting(bag, e) == {x \in bag : Rejects(x, e)}
Inserted(bag, e) == {x \in bag : ~Evicts(e, x)} \cup {e}

\* The destination's bag: departure, effective arrival and bucket.
SameArrived(x, a) == x.departure = a.departure /\ Effective(x) = Effective(a) /\ x.key = a.key
KeepsOut(x, a) ==
  /\ x.departure >= a.departure /\ x.key <= a.key
  /\ IF SameArrived(x, a) THEN x.grams <= a.grams ELSE Effective(x) + q.slack <= Effective(a)
Displaces(a, x) ==
  \/ /\ a.departure >= x.departure /\ a.key <= x.key
     /\ Effective(a) + q.slack <= Effective(x)
  \/ SameArrived(x, a) /\ a.grams < x.grams
Joined(bag, a) ==
  IF \E x \in bag : KeepsOut(x, a) THEN bag ELSE {x \in bag : ~Displaces(a, x)} \cup {a}

NoCell == [grams |-> Unreached, seconds |-> Unreached]
\* credit: the cleanest, then the fastest, within the budget.
Credited(cell, c) ==
  IF /\ c.seconds <= q.budget
     /\ c.grams < cell.grams \/ (c.grams = cell.grams /\ c.seconds < cell.seconds)
  THEN c ELSE cell

----------------------------------------------------------------------------
(* The slots a search serves, and the way from a stop to each.            *)

Slots == IF q.product = "pair" THEN {0} ELSE DOMAIN q.slots
Egress(x) == IF q.product = "pair" THEN q.egress ELSE q.slots[x]
LinksAt(x, s) == {e \in Egress(x) : e.stop = s /\ s \notin q.excluded}
StreetGrams(grams, link) == IF q.policy THEN grams[link] ELSE 0

\* The way of a point, an arrival at a stop, over a link, in the slots' bags.
Arrived(x, link) ==
  LET grams == x.grams + StreetGrams(q.egress_grams, link) IN
  [departure |-> x.departure, arrival |-> x.arrival + link.duration, penalty |-> x.penalty,
   grams |-> grams, key |-> Key(grams), leaf |-> x.leaf, egress |-> link]
JoinedAll(d, points) ==
  [x \in Slots |->
     FoldLeft(LAMBDA bag, p :
                FoldLeft(LAMBDA b, link : Joined(b, Arrived(p, link)), bag, SetToSeq(LinksAt(x, p.stop))),
              d[x], points)]
CreditedAll(cells, points) ==
  [x \in Slots |->
     FoldLeft(LAMBDA cell, p :
                FoldLeft(LAMBDA c, link : Credited(c, [departure |-> p.departure, grams |-> p.grams,
                                                       leaf |-> p.leaf, egress |-> link,
                                                       seconds |-> p.arrival - p.departure + link.duration]),
                         cell, SetToSeq(LinksAt(x, p.stop))),
              cells[x], points)]

\* A round's footpath sources: the points of a stop no other point covers,
\* by arrival, bucket and then exact grams; stops in the order of their first.
Covers(x, y) ==
  /\ x.arrival <= y.arrival /\ Key(x.grams) <= Key(y.grams)
  /\ ~(x.arrival = y.arrival /\ Key(x.grams) = Key(y.grams) /\ y.grams < x.grams)
NoBatch == [stops |-> <<>>, points |-> [s \in Stops |-> <<>>]]
Offered(b, x) ==
  LET live == b.points[x.stop] IN
  IF FootpathsFrom(q.transfers, x.stop) = {} \/ \E i \in DOMAIN live : Covers(live[i], x) THEN b
  ELSE [stops |-> IF Contains(b.stops, x.stop) THEN b.stops ELSE Append(b.stops, x.stop),
        points |-> [b.points EXCEPT ![x.stop] = Append(SelectSeq(live, LAMBDA y : ~Covers(x, y)), x)]]

InOrderOfTarget(walks) == SetToSortSeq(walks, LAMBDA d, e : d.to < e.to)
EdgesFrom(s) == InOrderOfTarget(FootpathsFrom(q.transfers, s))
\* Edge by edge of a source, all its live points; then the next source.
EdgeMajor(b) ==
  FlattenSeq([i \in DOMAIN b.stops |->
    FlattenSeq([k \in DOMAIN EdgesFrom(b.stops[i]) |->
      [p \in DOMAIN b.points[b.stops[i]] |->
         [point |-> b.points[b.stops[i]][p], edge |-> EdgesFrom(b.stops[i])[k]]]])])

----------------------------------------------------------------------------
(* max_slower (mc_bounds.rs): a time-only sweep over the resolved trips.  *)

\* patterns_at_stop, both service days of each pattern.
Served(s) == SetToSortSeq(ServedAt(s), LAMBDA x, y :
               \/ x.line.pattern < y.line.pattern
               \/ x.line.pattern = y.line.pattern /\ x.position < y.position
               \/ x.line.pattern = y.line.pattern /\ x.position = y.position /\ x.line.stream < y.line.stream)
FirstOf(trips) == {v \in trips : \A u \in trips : v.trip <= u.trip}
\* The first resolved trip of l from the earliest one boardable on.
FirstResolved(l, i, ready) ==
  FirstOf({v \in TripsOf(l) : Resolved(v) /\ \E u \in EarliestBoardable(l, i, ready) : v.trip >= u.trip})

\* What a sweep knows of s after k rides; an earlier arrival finds s.
After(table, k, s) == Min({table[s][j] : j \in 0 .. k})
Improve(w, k, s, at) ==
  IF s \in q.excluded \/ at >= After(w.best, k, s) THEN w
  ELSE [w EXCEPT !.best[s][k] = at, !.found = Append(@, s)]

\* One line: the trip held alights before the boardings of a position may
\* replace it by one that departs earlier.
SweepPosition(w, k, l, i, readies) ==
  LET stop == q.pattern_stops[l.pattern][i]
      rode == IF w.held = {} THEN w ELSE Improve(w, k, stop, Min({Arrive(v, i) : v \in w.held}))
      boarded == UNION {FirstResolved(l, i, ready) : ready \in readies}
      sooner == {v \in boarded : \A h \in w.held : Depart(v, i) < Depart(h, i)}
  IN  [rode EXCEPT !.held = IF sooner = {} THEN @ ELSE FirstOf(sooner)]
SweepLine(w, k, l, boards) ==
  FoldLeft(LAMBDA u, i : SweepPosition(u, k, l, i, {b.ready : b \in {b \in boards : b.position = i}}),
           [w EXCEPT !.held = {}], [i \in DOMAIN q.pattern_stops[l.pattern] |-> i])

\* A round boards what the last one found, at the times the last one gave,
\* and walks once from what its rides found.
Collected(w, k) ==
  FlattenSeq([i \in DOMAIN w.found |->
    LET boards(x) == [line |-> x.line, position |-> x.position, ready |-> After(w.best, k - 1, w.found[i])]
        served == Served(w.found[i])
    IN  SelectSeq([j \in DOMAIN served |-> boards(served[j])],
                  LAMBDA b : /\ b.position < Len(q.pattern_stops[b.line.pattern])
                             /\ b.line.pattern \notin q.excluded_routes)])
Rows(items) == FoldLeft(LAMBDA seen, x : IF Contains(seen, x) THEN seen ELSE Append(seen, x), <<>>, items)
SweepRound(w, k) ==
  LET collected == Collected(w, k)
      lines == Rows([i \in DOMAIN collected |-> collected[i].line])
      rode == FoldLeft(LAMBDA u, l : SweepLine(u, k, l, {b \in Range(collected) : b.line = l}),
                       [w EXCEPT !.found = <<>>], lines)
      walk(u, s) == FoldLeft(LAMBDA x, e : Improve(x, k, e.to, After(u.best, k, s) + e.duration), u, EdgesFrom(s))
  IN  FoldLeft(walk, rode, rode.found)
Swept(table, d) ==
  LET seeds == FoldLeft(LAMBDA w, a : Improve(w, 0, a.stop, d + a.duration),
                        [best |-> table, found |-> <<>>, held |-> {}], SetToSeq(q.access))
  IN  FoldLeft(SweepRound, seeds, [k \in 1 .. q.rounds |-> k]).best
Unswept == q.band # Unreached /\ Len(bounds) < Len(q.departures)
BoundsSwept ==
  LET none == [s \in Stops |-> [k \in RidesOfRound(q) |-> Unreached]]
      table == IF bounds = <<>> THEN none ELSE Last(bounds)
  IN  Append(bounds, Swept(table, q.departures[Len(bounds) + 1]))
Bound(p, s) == After(bounds[p], q.rounds, s)
\* The earliest a slot is reached by its bounds, and the farthest such slot.
Floor(p, x) == Min({Unreached} \cup {Bound(p, e.stop) + e.duration : e \in Egress(x)})
FarthestFloor(p) ==
  LET floors == {Floor(p, x) : x \in Slots} \ {Unreached}
  IN  IF floors = {} THEN Unreached ELSE Max(floors)
\* The cutoff of a pass: a stop's bound and the band, never below the floor.
Cutoff(p) ==
  [s \in Stops |-> IF Bound(p, s) = Unreached THEN Unreached
                   ELSE Max({Bound(p, s) + q.band, FarthestFloor(p)})]
InBand(x, a) ==
  \E p \in DOMAIN q.departures : q.departures[p] = a.departure /\ a.arrival <= Floor(p, x) + q.band

----------------------------------------------------------------------------
(* The beginning and the results.                                         *)

Start(at) ==
  /\ pc = at /\ pass = 1 /\ round = 0 /\ arena = <<>> /\ bounds = <<>>
  /\ bags = [s \in Stops |-> {}]
  /\ destination = [x \in Slots |-> {}]
  /\ best = [x \in Slots |-> NoCell]
  /\ output = [x \in Slots |-> {}]

\* cap_entries: the strict frontier, then of the others those arriving least
\* behind it, the cleaner first.
StrictlyDominates(a, b) ==
  /\ a.departure >= b.departure /\ Effective(a) <= Effective(b) /\ a.key <= b.key
  /\ a.departure > b.departure \/ Effective(a) < Effective(b) \/ a.key < b.key
OnFrontier(entries) == {a \in entries : \A b \in entries : ~StrictlyDominates(b, a)}
Gap(entries, a) ==
  Min({Effective(a) - Effective(b) : b \in {b \in OnFrontier(entries) : StrictlyDominates(b, a)}})
Capped(entries) ==
  IF q.max_options = 0 \/ Cardinality(entries) <= q.max_options THEN entries
  ELSE LET others == entries \ OnFrontier(entries)
           behind(a) == <<Gap(entries, a), a.key, a.grams>>
           before(a, b) == \E i \in 1 .. 3 : /\ behind(a)[i] < behind(b)[i]
                                             /\ \A h \in 1 .. i - 1 : behind(a)[h] = behind(b)[h]
           spare == Max({0, q.max_options - Cardinality(OnFrontier(entries))})
       IN  OnFrontier(entries) \cup
           {a \in others : Cardinality({b \in others : before(b, a)}) < spare}
Returned(x) ==
  IF q.product = "emissions" THEN
    {[departure |-> c.departure, arrival |-> c.departure + c.seconds, grams |-> c.grams, penalty |-> 0,
      leaf |-> c.leaf, egress |-> c.egress] : c \in {best[x]} \ {NoCell}}
  ELSE Capped({a \in destination[x] : q.band = Unreached \/ InBand(x, a)})
JourneyOf(a, legs) ==
  [departure |-> a.departure, arrival |-> a.arrival, penalty |-> a.penalty, grams |-> a.grams,
   rides |-> Len(SelectSeq(legs, LAMBDA leg : leg.mode = "transit")), egress |-> a.egress, legs |-> legs]
=============================================================================
