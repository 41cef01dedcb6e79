---------------------------- MODULE RaptorMatrix ----------------------------
(***************************************************************************)
(* RAPTOR's matrices (cafein-core, routers/raptor/matrices.rs, costs.rs    *)
(* and the cost walks of search.rs): a worker keeps one Search and resets  *)
(* it between the origins it is given.  An origin's passes are Raptor's;   *)
(* after each, the labels are folded into one cell per destination, or     *)
(* sampled.  The arrive-by form prices what the reverse search elected.    *)
(*                                                                         *)
(* A destination is the sequence of its egress links; a destination that   *)
(* is a stop is its one link of no duration, and also counts when reached  *)
(* without a ride.  Costs are grams: what fares add is a price per ride    *)
(* sequence instead of a sum, which no step here looks into.               *)
(***************************************************************************)
EXTENDS ReverseSearch

\* The request of the origin that follows, to the same worker.
NextRequest(n) ==
  [n EXCEPT !.access = Head(n.origins).access, !.departures = Head(n.origins).departures,
            !.origins = Tail(@)]

\* A matrix request: one departure for the fastest times, some for a window,
\* and further origins that are requests by themselves.
WellFormedMatrix(n) ==
  /\ {"rounds", "trips", "pattern_stops"} \subseteq DOMAIN n
  /\ n.points \in [DOMAIN n.points -> Seq([stop : Stops, duration : Nat])]
  /\ n.product = "fastest" => Len(n.departures) = 1
  /\ n.product = "window" => Len(n.departures) > 0 /\ n.percentiles \subseteq 0 .. 100
  /\ n.origins # <<>> => NextRequest(n) \in {m \in Queries : m.use = "matrix"}

ASSUME MatrixAssumption == \A n \in Queries : n.use = "matrix" => WellFormedMatrix(n)

VARIABLES
  cells,     \* per destination: the best row the origin's passes gave so far
  bars,      \* per destination: the best arrival folded with at most k rides
  samples,   \* per minute mark: the earliest arrival at every stop
  matrix     \* the rows of the finished origins

matrixVars == <<cells, bars, samples, matrix>>

NoRow == [seconds |-> -1]
Points == DOMAIN q.points
FirstRound == IF q.product # "fastest" /\ q.to_points THEN 1 ELSE 0

----------------------------------------------------------------------------
(* candidate_departures: the instants of a window, latest first.          *)

Descending(D) == SetToSortSeq(D, LAMBDA a, b : a > b)

----------------------------------------------------------------------------
(* walk_costs: the journey behind a label.                                *)

Unpriced == -1
PlusGrams(a, b) == IF a = Unpriced \/ b = Unpriced THEN Unpriced ELSE a + b

\* A ride waits from the chain's own arrival at its stop.
AfterRide(c, l) ==
  [c EXCEPT !.at = AlightTime(l), !.rides = @ + 1, !.legs = Append(@, RideOf(l)),
            !.grams = PlusGrams(@, IF q.grams[l.trip] = Unpriced THEN Unpriced
                                     ELSE q.grams[l.trip] * (l.alight - l.board)),
            !.waited = @ + OnTheDay(BoardTime(l), c.at)]
AfterWalk(c, l) == [c EXCEPT !.at = @ + l.duration, !.walked = @ + l.duration]
\* A footpath carried with its ride may be a rental of a merged transfer set.
Rented(c, l, to) ==
  [c EXCEPT !.grams = PlusGrams(@, SumSet({h.grams : h \in {h \in q.rentals : h.from = l.from /\ h.to = to}}))]
AfterWalkedRide(c, l, at) == Rented(AfterWalk(AfterRide(c, l), l), l, at[2])

Seeded(l, at) ==
  [at |-> l.departure + l.duration, rides |-> 0, legs |-> <<>>, grams |-> 0,
   walked |-> l.duration, waited |-> 0, access |-> at[2]]
ChainCosts ==
  LET costs[at \in Rounds \X Stops] ==
        LET l == labels[at[1]][at[2]]
        IN  CASE l.kind = "access"      -> Seeded(l, at)
              [] l.kind = "transit"     -> AfterRide(costs[Behind(l, at)], l)
              [] l.kind = "transfer"    -> AfterWalk(costs[Behind(l, at)], l)
              [] l.kind = "walked ride" -> AfterWalkedRide(costs[Behind(l, at)], l, at)
  IN  costs

\* The row of the journey behind labels[k][link.stop], left by link.
Row(k, link, seconds) ==
  LET c == ChainCosts[k, link.stop]
  IN  [seconds |-> seconds, rides |-> c.rides, grams |-> c.grams, legs |-> c.legs,
       waited |-> c.waited, walked |-> c.walked + link.duration, access |-> c.access, egress |-> link.stop]

----------------------------------------------------------------------------
(* What a pass leaves per destination.                                    *)

\* The first of the links with the earliest arrival, if arrivals are as given
\* by stop: none, or one.
Links(p) == Range(q.points[p])
LinkArrival(arrivals, link) == arrivals[link.stop] + link.duration
LinksTaken(arrivals, links) ==
  {i \in DOMAIN links : arrivals[links[i].stop] # Unreached /\ LinkArrival(arrivals, links[i]) < Unreached}
Chosen(arrivals, links) ==
  {i \in LinksTaken(arrivals, links) : \A j \in LinksTaken(arrivals, links) :
     \/ LinkArrival(arrivals, links[i]) < LinkArrival(arrivals, links[j])
     \/ LinkArrival(arrivals, links[i]) = LinkArrival(arrivals, links[j]) /\ i <= j}

\* costs_to, costs_to_point: the fewest rides that achieve the earliest arrival.
Fastest(p) ==
  IF Chosen(best[q.rounds], q.points[p]) = {} THEN NoRow
  ELSE LET link == q.points[p][Min(Chosen(best[q.rounds], q.points[p]))]
           rides == Min({k \in Rounds : tau[k][link.stop] = best[q.rounds][link.stop]})
       IN  Row(rides, link, LinkArrival(best[q.rounds], link) - Now)

\* fold_better: lower grams, then shorter; what has no price never qualifies.
Better(cell, row) ==
  IF /\ row.grams # Unpriced
     /\ \/ cell = NoRow
        \/ row.grams < cell.grams
        \/ row.grams = cell.grams /\ row.seconds < cell.seconds
    THEN row ELSE cell

\* The deadline's candidates, where the reverse search elected some.
Priceable(p, arrival, k) ==
  q.product = "pricing" => arrival <= Deadline /\ Candidate(Now, k, arrival) \in q.allowed

\* One number of rides of fold_best, fold_best_points: an arrival that beats all
\* with as few rides is priced where it is within the budget.
FoldRound(acc, k, p) ==
  LET chosen == Chosen(tau[k], q.points[p])
      link == q.points[p][Min(chosen)]
      arrival == LinkArrival(tau[k], link)
  IN  IF chosen = {} THEN acc
      ELSE IF arrival >= acc.bar[k] THEN acc
      ELSE [bar |-> [j \in Rounds |-> IF j >= k /\ arrival < acc.bar[j] THEN arrival ELSE acc.bar[j]],
            cell |-> IF arrival - Now <= q.budget /\ Priceable(p, arrival, k)
                       THEN Better(acc.cell, Row(k, link, arrival - Now)) ELSE acc.cell]
Folded(p) ==
  FoldLeft(LAMBDA acc, k : FoldRound(acc, k, p), [bar |-> bars[p], cell |-> cells[p]],
           [k \in 1 .. q.rounds + 1 - FirstRound |-> FirstRound + k - 1])

----------------------------------------------------------------------------
(* The matrix.                                                            *)

Matrix == q.use = "matrix" \/ phase = "priced"

FoldPass ==
  /\ Matrix /\ pc = "collect"
  /\ LET folded == [p \in Points |-> Folded(p)] IN
     /\ cells' = CASE q.product = "fastest" -> [p \in Points |-> Fastest(p)]
                   [] q.product = "window" -> cells
                   [] OTHER -> [p \in Points |-> folded[p].cell]
     /\ bars' = IF q.product \in {"fastest", "window"} THEN bars ELSE [p \in Points |-> folded[p].bar]
  /\ samples' = IF q.product = "window" THEN Append(samples, [mark |-> Now, arrivals |-> best[q.rounds]])
                                        ELSE samples
  /\ pc' = "next pass"
  /\ UNCHANGED <<q, pass, round, tables, transit, pending, scanning, emitted, matrix>>

\* propagate_point_percentiles: a sample is the way through the earliest link,
\* or walking through a stop of both tables, which no departure changes.
WalkFloor(n, links) ==
  Min({Unreached} \cup {x[1].duration + x[2].duration :
                          x \in {x \in n.access \X Range(links) : x[1].stop = x[2].stop}})
TravelTime(sample, links) ==
  Min({WalkFloor(q, links)} \cup
      {LinkArrival(sample.arrivals, links[i]) - sample.mark : i \in LinksTaken(sample.arrivals, links)})
\* nearest_rank: ranks between two samples round up.
RankOf(percentile, count) == (2 * percentile * (count - 1) + 100) \div 200
Ascending(times) ==
  LET order == CHOOSE order \in [DOMAIN times -> DOMAIN times] :
                 /\ Range(order) = DOMAIN times
                 /\ \A i, j \in DOMAIN times : i < j => times[order[i]] <= times[order[j]]
  IN  [i \in DOMAIN times |-> times[order[i]]]
NearestRank(sorted, percentile) == sorted[1 + Min({RankOf(percentile, Len(sorted)), Len(sorted) - 1})]
Percentiles(p) ==
  LET sorted == Ascending([i \in DOMAIN samples |-> TravelTime(samples[i], q.points[p])])
  IN  [c \in q.percentiles |-> NearestRank(sorted, c)]
\* An origin's row, and the request it answers.
OriginRow ==
  [request |-> q, cells |-> IF q.product = "window" THEN [p \in Points |-> Percentiles(p)] ELSE cells]

NoCells == [p \in Points |-> NoRow]
NoBars == [p \in Points |-> [k \in Rounds |-> Unreached]]
OriginEnds == Matrix /\ pc = "next pass" /\ pass = Len(q.departures)

\* Mutant: the tables of the last origin stay.
NextOriginUnreset ==
  /\ OriginEnds /\ q.origins # <<>>
  /\ matrix' = Append(matrix, OriginRow)
  /\ q' = NextRequest(q)
  /\ pass' = 0 /\ marked' = {}
  /\ cells' = NoCells /\ bars' = NoBars /\ samples' = <<>>
  /\ UNCHANGED <<pc, round, tau, best, labels, transit, pending, scanning, emitted>>
\* Search::reset: the next origin's request on the same tables.
NextOrigin ==
  /\ OriginEnds /\ q.origins # <<>>
  /\ matrix' = Append(matrix, OriginRow)
  /\ q' = NextRequest(q)
  /\ pass' = 0 /\ tau' = AllUnreached /\ best' = AllUnreached
  /\ labels' = [k \in Rounds |-> [s \in Stops |-> NoLabel]]
  /\ marked' = {} /\ transit' = [s \in Stops |-> NoRide]
  /\ cells' = NoCells /\ bars' = NoBars /\ samples' = <<>>
  /\ UNCHANGED <<pc, round, pending, scanning, emitted>>

LastOrigin ==
  /\ OriginEnds /\ q.origins = <<>>
  /\ matrix' = Append(matrix, OriginRow)
  /\ pc' = "filled"
  /\ UNCHANGED <<q, pass, round, tables, transit, pending, scanning, emitted, cells, bars, samples>>

\* The arrive-by form: one pass per departure of the candidates that ride.
PriceElected ==
  /\ phase = "replay" /\ q.use = "pricing"
  /\ LET rides == {c \in elected : c.rides > 0} IN
     q' = [q EXCEPT !.departures = Descending({c.departure : c \in rides}), !.allowed = rides]
  /\ phase' = "priced"
  /\ UNCHANGED <<pc, pass, round, tables, transit, pending, scanning, emitted,
                 suffix, search, elected, answers, matrixVars>>

\* A pass is Raptor's, up to what is collected from it.
PassStep ==
  /\ Matrix
  /\ \/ StartPass
     \/ \E a \in pending : SeedAccess(a)
     \/ CollectPatterns
     \/ \E p \in DOMAIN queue_position : DequeuePattern(p)
     \/ \E stream \in Streams : Alight(stream)
     \/ Board
     \/ StartWalking
     \/ \E w \in pending : Walk(w)
     \/ EndRound
  /\ UNCHANGED matrixVars

MatrixNext == PassStep \/ FoldPass \/ NextOrigin \/ LastOrigin
MatrixInit == cells = NoCells /\ bars = NoBars /\ samples = <<>> /\ matrix = <<>>
MatrixSpec == q.use = "matrix" /\ Init /\ MatrixInit /\ [][MatrixNext]_<<vars, matrixVars>>

----------------------------------------------------------------------------
(* Properties.                                                            *)

\* The fastest way from an origin to a destination, leaving at d: none is
\* Unreached; and how long it takes at best, on foot alone or with rides.
ExactSeconds(n, d, links) ==
  LET arrivals == R!Earliest(n, {d})[n.rounds]
  IN  Min({Unreached} \cup {LinkArrival(arrivals, links[i]) - d : i \in LinksTaken(arrivals, links)})
ExactSample(n, d, links) == Min({ExactSeconds(n, d, links), WalkFloor(n, links)})

\* A row is what its own request yields, whatever origins the worker searched
\* before: the fastest time, or percentiles of the exact times at each mark
\* ("each result depends only on its own request", matrices.rs:161-165;
\* "exactly the earliest arrivals for leaving at or after mark", 831-836).
FastestExact(n, p, cell) ==
  LET exact == ExactSeconds(n, n.departures[1], n.points[p])
  IN  IF exact = Unreached THEN cell = NoRow ELSE cell.seconds = exact
PercentilesExact(n, p, cell) ==
  LET exact == [m \in DOMAIN n.departures |-> ExactSample(n, n.departures[m], n.points[p])]
  IN  \A c \in n.percentiles :
        /\ Cardinality({m \in DOMAIN exact : exact[m] <= cell[c]}) > RankOf(c, Len(exact))
        /\ Cardinality({m \in DOMAIN exact : exact[m] < cell[c]}) <= RankOf(c, Len(exact))
RowExact(row) ==
  \A p \in DOMAIN row.request.points :
    /\ row.request.product = "fastest" => FastestExact(row.request, p, row.cells[p])
    /\ row.request.product = "window" => PercentilesExact(row.request, p, row.cells[p])
RowsExact == Matrix => \A i \in DOMAIN matrix : RowExact(matrix[i])

\* A fastest row's walks, waits and rides add up to its travel time: the chain
\* is followed through the rides it carries, not through what a stop's slot
\* holds by now (search.rs:505-507).
InVehicle(legs) == FoldSeq(LAMBDA r, sum : sum + AlightTime(r) - BoardTime(r), 0, legs)
SkeletonAddsUp ==
  Matrix /\ q.product = "fastest" =>
    \A i \in DOMAIN matrix : \A p \in Points :
      LET cell == matrix[i].cells[p]
      IN  cell # NoRow => /\ cell.seconds = cell.walked + cell.waited + InVehicle(cell.legs)
                          /\ cell.rides = Len(cell.legs)

\* Every way to ride exactly k trips from the row's departures, with its grams.
Way(s, d, at, grams) == [stop |-> s, left |-> d, at |-> at, grams |-> grams]
RideGrams(r) == IF q.grams[r.trip] = Unpriced THEN Unpriced ELSE q.grams[r.trip] * (r.alight - r.board)
HireGrams(e) == SumSet({h.grams : h \in {h \in q.rentals : h.from = e.from /\ h.to = e.to}})
Ways(row) ==
  LET ridden(some) ==
        {Way(R!StopAt(q, x[2], x[2].alight), x[1].left, R!AlightedAt(q, x[2]), PlusGrams(x[1].grams, RideGrams(x[2]))) :
           x \in {x \in some \X OpenRides : /\ R!StopAt(q, x[2], x[2].board) = x[1].stop
                                            /\ x[1].at <= R!BoardedAt(q, x[2])}}
      walked(some) ==
        {Way(x[2].to, x[1].left, x[1].at + x[2].duration, PlusGrams(x[1].grams, HireGrams(x[2]))) :
           x \in {x \in some \X q.transfers : x[2].from = x[1].stop /\ Open(x[2].to)}}
      ways[k \in Rounds] ==
        IF k = 0 THEN {Way(a.stop, d, d + a.duration, 0) : a \in {a \in row.request.access : Open(a.stop)}, d \in Range(row.request.departures)}
        ELSE LET some == ridden(ways[k - 1]) IN some \cup walked(some)
  IN  ways
Outwalked(row, w) ==
  \E a \in row.request.access, d \in Range(row.request.departures) : a.stop = w.stop /\ d >= w.left /\ d + a.duration <= w.at
Offers(row, p) ==
  LET ways == Ways(row) IN
  UNION {{[left |-> w.left, at |-> w.at + link.duration, rides |-> k, grams |-> w.grams] :
            w \in {w \in ways[k] : w.stop = link.stop /\ (k > 0 => ~Outwalked(row, w))}} :
           k \in FirstRound .. q.rounds, link \in Links(p)}
Undominated(o, offers) ==
  \A x \in offers : x.left >= o.left /\ x.at <= o.at /\ x.rides <= o.rides =>
                      x.left = o.left /\ x.at = o.at /\ x.rides = o.rides

\* A least-cost cell is a journey no other dominates, within the budget, and no
\* undominated departure, arrival and number of rides is cheaper however it is
\* ridden ("the candidates are exactly the profile's Pareto set",
\* search.rs:598-604); an arrive-by cell is one of the journeys the reverse
\* search answers with.
CellsCheapest ==
  Matrix /\ q.product \in {"least", "pricing"} =>
    \A i \in DOMAIN matrix : \A p \in Points :
      LET offers == Offers(matrix[i], p)
          cell == matrix[i].cells[p]
          frontier == {o \in offers : Undominated(o, offers)}
          priceable == {o \in offers : Candidate(o.left, o.rides, o.at) \in q.allowed}
          pool == IF q.product = "pricing" THEN priceable ELSE frontier
          within(some) == {o \in some : o.at - o.left <= q.budget}
          same(o) == {x \in offers : x.left = o.left /\ x.at = o.at /\ x.rides = o.rides}
      IN  /\ cell # NoRow => \E o \in within(pool) : /\ o.at - o.left = cell.seconds
                                                     /\ o.grams = cell.grams /\ o.rides = cell.rides
          /\ \A o \in within(pool \cap frontier) :
               (\A x \in same(o) : x.grams # Unpriced) => cell # NoRow /\ cell.grams <= Max({x.grams : x \in same(o)})

\* Whatever a matrix computes, each row is what its own origin alone would
\* yield: its times, its legs and its cheapest cells, from a search that other
\* origins used before.
ProductsExact == RowsExact /\ SkeletonAddsUp /\ CellsCheapest
=============================================================================
