------------------------------- MODULE McTbtr -------------------------------
(***************************************************************************)
(* Multicriteria trip-based routing (cafein-core, routers/mctbtr): a set   *)
(* of transfers worth making, enumerated stop by stop and independent of   *)
(* footpaths, and a scan of boarded trips over it, cumulative over the     *)
(* passes of a departure window.                                           *)
(***************************************************************************)
EXTENDS MultiCriteria

VARIABLES
  transfers,         \* the set built so far: pairs of an alighting and a boarding
  sources,           \* the stops it is not enumerated from yet
  states,            \* states[i]: "pending", "scanned" or "cancelled", of segment i of the arena
  tripBags,          \* tripBags[v][n]: boardings of v as the n-th ride, undominated
  waiting,           \* the segments queued for the next round
  segments,          \* this round's still to scan
  admitted, walkBoards    \* its alightings and walked arrivals that the stop bags took

building == <<transfers, sources>>
scans == <<states, tripBags, waiting, segments, admitted, walkBoards>>

----------------------------------------------------------------------------
(* What is boarded.                                                       *)

\* CleanerChains: the first resolved trip, then each strictly cleaner one.
Candidates(l, i, ready) ==
  LET later == {v \in TripsOf(l) : Resolved(v) /\ \E u \in EarliestBoardable(l, i, ready) : v.trip >= u.trip}
  IN  {v \in later : \A u \in later : u.trip < v.trip => Factor(v) < Factor(u)}
\* The order of trips and events in the code: line by line.
RankOf(v) == <<q.trip_pattern[v.trip], v.stream, v.trip>>
Before(a, b) == \E i \in DOMAIN a : a[i] < b[i] /\ \A h \in 1 .. i - 1 : a[h] = b[h]
BoardableAt(s, ready) ==
  SetToSortSeq(
    UNION {{[trip |-> v, board |-> x.position] : v \in Candidates(x.line, x.position, ready)} : x \in ServedAt(s)},
    LAMBDA x, y : Before(<<RankOf(x.trip)[1], x.board, x.trip.stream, x.trip.trip>>,
                         <<RankOf(y.trip)[1], y.board, y.trip.stream, y.trip.trip>>))
RidesOn(x) ==
  [k \in 1 .. Len(StopsOf(x.trip)) - x.board |-> [trip |-> x.trip, board |-> x.board, alight |-> x.board + k]]
RidesAt(s, ready) == LET boarded == BoardableAt(s, ready) IN FlattenSeq([i \in DOMAIN boarded |-> RidesOn(boarded[i])])
GramsOf(r) == Grams(r.trip, r.alight) - Grams(r.trip, r.board)
AlightStop(r) == StopsOf(r.trip)[r.alight]

----------------------------------------------------------------------------
(* The transfer set (set.rs).                                             *)

\* dominates_one, dominates_two: of equals the witness wins, which has no
\* identity, then the one that is first in an order all sources share.
Dominates(a, b) ==
  /\ a.arrival <= b.arrival /\ a.grams <= b.grams
  /\ \/ a.arrival < b.arrival \/ a.grams < b.grams
     \/ a.id = <<>> \/ a.id = b.id \/ (b.id # <<>> /\ Before(a.id, b.id))
Refused(bag, x) == \E y \in bag : Dominates(y, x)
Taken(bag, x) == {y \in bag : ~Dominates(x, y)} \cup {x}
Witness(arrival, grams) == [arrival |-> arrival, grams |-> grams, id |-> <<>>, pair |-> {}]

\* w is a source's enumeration: bags of journeys with one trip and with two,
\* and this departure's new ones of either kind.
OneTrip(w, r) ==
  LET s == AlightStop(r)
      x == [arrival |-> Arrive(r.trip, r.alight), grams |-> GramsOf(r), id |-> Append(RankOf(r.trip), r.alight)]
      mirrored == Witness(x.arrival, x.grams)
  IN  IF Refused(w.one[s], x) THEN w
      ELSE [w EXCEPT !.one[s] = Taken(@, x),
                     !.two[s] = IF Refused(@, mirrored) THEN @ ELSE Taken(@, mirrored),
                     !.fresh = Append(@, [ride |-> r, label |-> x])]
\* Staying on the line, on a trip that is no cleaner.
SameLine(r, next) ==
  /\ LineOf(next.trip) = LineOf(r.trip) /\ next.trip.trip >= r.trip.trip
  /\ next.board >= r.alight /\ Factor(next.trip) >= Factor(r.trip)
TwoTrips(w, one, next) ==
  LET r == one.ride
      s == AlightStop(next)
      pair == [trip |-> r.trip, alight |-> r.alight, to |-> next.trip, position |-> next.board]
      x == [arrival |-> Arrive(next.trip, next.alight), grams |-> one.label.grams + GramsOf(next),
            id |-> Append(RankOf(r.trip), r.alight) \o Append(RankOf(next.trip), next.board), pair |-> {pair}]
  IN  IF SameLine(r, next) \/ Refused(w.two[s], x) THEN w
      ELSE [w EXCEPT !.two[s] = Taken(@, x), !.inserted = @ \cup {[stop |-> s, label |-> x]}]
\* run_departure: what a departure leaves in the two-trip bags is kept before
\* an earlier departure can evict it.
Departed(w, source, d) ==
  LET staying == Witness(d, 0)
      stay(bag, x) == IF Refused(bag, x) THEN bag ELSE Taken(bag, x)
      seeded == [w EXCEPT !.one[source] = stay(@, [arrival |-> d, grams |-> 0, id |-> <<>>]),
                          !.two[source] = stay(@, staying), !.fresh = <<>>, !.inserted = {}]
      one == FoldLeft(OneTrip, seeded, RidesAt(source, d))
      two == FoldLeft(LAMBDA u, x : FoldLeft(LAMBDA t, next : TwoTrips(t, x, next), u,
                                             RidesAt(AlightStop(x.ride), x.label.arrival)),
                      one, one.fresh)
  IN  [two EXCEPT !.out = @ \cup UNION {x.label.pair : x \in {x \in two.inserted : x.label \in two.two[x.stop]}}]
\* The departures of the trips that may be boarded at s, the last one first.
DeparturesAt(s) ==
  SetToSortSeq(UNION {{Depart(v, x.position) : v \in {v \in TripsOf(x.line) :
                         x.position < Len(StopsOf(v)) /\ Depart(v, x.position) >= 0}} : x \in ServedAt(s)},
               LAMBDA a, b : a > b)
KeptFrom(source) ==
  FoldLeft(LAMBDA w, d : Departed(w, source, d),
           [one |-> [s \in Stops |-> {}], two |-> [s \in Stops |-> {}], fresh |-> <<>>, inserted |-> {}, out |-> {}],
           DeparturesAt(source)).out
TransfersFrom(v, alight) ==
  LET kept == {x \in transfers : x.trip = v /\ x.alight = alight}
  IN  SetToSortSeq(kept, LAMBDA x, y : Before(Append(RankOf(x.to), x.position), Append(RankOf(y.to), y.position)))

----------------------------------------------------------------------------
(* Boarding a segment (engine.rs, scan.rs).                               *)

\* admits: boarding earlier with no worse a kappa, the grams boarded with less
\* those of the trip up to there, covers all a later boarding could do.
CoversBoarding(e, b) ==
  /\ e.board <= b.board /\ e.key <= b.key
  /\ ~(e.board = b.board /\ e.key = b.key /\ b.kappa < e.kappa)
Covered(e, b) == b.board <= e.board /\ b.key <= e.key
\* Only what is still waiting for its scan is cancelled.
Cancelled(was, evicted) ==
  [i \in DOMAIN was |-> IF i \in evicted /\ was[i] = "pending" THEN "cancelled" ELSE was[i]]
\* One boarding of u, the work of a round: x is the segment it makes.
Boarded(u, x, n) ==
  LET kappa == x.grams - Grams(x.trip, x.board)
      b == [board |-> x.board, kappa |-> kappa, key |-> Key(kappa), segment |-> Len(u.arena) + 1]
      bag == u.tripBags[x.trip][n]
      evicted == {e \in bag : Covered(e, b)}
  IN  IF \E e \in bag : CoversBoarding(e, b) THEN u
      ELSE [arena |-> Append(u.arena, x),
            states |-> Append(Cancelled(u.states, {e.segment : e \in evicted}), "pending"),
            tripBags |-> [u.tripBags EXCEPT ![x.trip][n] = (bag \ evicted) \cup {b}],
            waiting |-> Append(u.waiting, b.segment)]
Boards == [arena |-> arena, states |-> states, tripBags |-> tripBags, waiting |-> waiting]
BoardsBecome(u) == arena' = u.arena /\ states' = u.states /\ tripBags' = u.tripBags /\ waiting' = u.waiting
\* board: all that may be boarded at s from ready on.
BoardAt(u, s, ready, grams, departure, origin, n) ==
  LET boarded == BoardableAt(s, ready) IN
  FoldLeft(LAMBDA t, x : Boarded(t, [trip |-> x.trip, board |-> x.board, grams |-> grams,
                                     departure |-> departure, origin |-> origin], n), u, boarded)

Beyond(s, at) == q.band # Unreached /\ at > Cutoff(pass)[s]
StopEntry(arrival, grams, rides) ==
  [arrival |-> arrival, penalty |-> 0, key |-> Key(grams), grams |-> grams, rides |-> rides, sealed |-> FALSE]
PointAt(x, stop, arrival, grams, leaf) ==
  [departure |-> x.departure, arrival |-> arrival, penalty |-> 0, grams |-> grams, stop |-> stop, leaf |-> leaf]

----------------------------------------------------------------------------
(* A round.                                                               *)

\* One alighting: taken by its stop's bag, or nothing.
Alight(w, i, a) ==
  LET x == arena[i]
      s == StopsOf(x.trip)[a]
      at == Arrive(x.trip, a)
      grams == x.grams + Grams(x.trip, a) - Grams(x.trip, x.board)
      e == StopEntry(at, grams, round)
  IN  IF Beyond(s, at) \/ Rejecting(w.bags[s], e) # {} THEN w
      ELSE [bags |-> [w.bags EXCEPT ![s] = Inserted(@, e)],
            points |-> Append(w.points, PointAt(x, s, at, grams, [segment |-> i, alight |-> a, walk |-> {}]))]
WalkedOver(w, x) ==
  LET p == x.point
      at == p.arrival + x.edge.duration
      e == StopEntry(at, p.grams, round)
  IN  IF Beyond(x.edge.to, at) \/ Rejecting(w.bags[x.edge.to], e) # {} THEN w
      ELSE [bags |-> [w.bags EXCEPT ![x.edge.to] = Inserted(@, e)],
            points |-> Append(w.points, [p EXCEPT !.arrival = at, !.stop = x.edge.to, !.leaf.walk = {x.edge}])]
\* The slots' bags, or the cells, after points arrived.
Reported(points) ==
  IF q.product = "emissions" THEN best' = CreditedAll(best, points) /\ UNCHANGED destination
  ELSE destination' = JoinedAll(destination, points) /\ UNCHANGED best

\* PruneEnvelope: the one pair has an entry that arrives no later and is no
\* dirtier than the point, so nothing the point leads to can join.
Pruned(p) ==
  q.product = "pair" /\ \E a \in destination[0] : a.arrival <= p.arrival /\ a.key <= Key(p.grams)
\* The alightings that expand: up to the first pruned one of their segment.
Expanding ==
  SelectSeq([i \in DOMAIN admitted |-> [at |-> i, point |-> admitted[i]]],
            LAMBDA x : ~\E h \in 1 .. x.at : admitted[h].leaf.segment = x.point.leaf.segment /\ Pruned(admitted[h]))
ExpandOne(u, x) ==
  LET p == x.point
      from == arena[p.leaf.segment]
      next == TransfersFrom(from.trip, p.leaf.alight)
  IN  FoldLeft(LAMBDA t, y : Boarded(t, [trip |-> y.to, board |-> y.position, grams |-> p.grams,
                                         departure |-> p.departure,
                                         origin |-> [kind |-> "transfer", parent |-> p.leaf.segment,
                                                     alight |-> p.leaf.alight]], round + 1), u, next)
WalkOn(u, p) ==
  IF Pruned(p) THEN u
  ELSE BoardAt(u, p.stop, p.arrival, p.grams, p.departure,
               [kind |-> "walked", parent |-> p.leaf.segment, alight |-> p.leaf.alight,
                edge |-> CHOOSE e \in p.leaf.walk : TRUE], round + 1)

----------------------------------------------------------------------------
(* The legs of a leaf.                                                    *)

TransitLeg(x, a) ==
  [mode |-> "transit", trip |-> x.trip, board |-> x.board, alight |-> a,
   from |-> StopsOf(x.trip)[x.board], to |-> StopsOf(x.trip)[a],
   departure |-> Depart(x.trip, x.board), arrival |-> Arrive(x.trip, a)]
WalkLeg(e, at) == [mode |-> "transfer", from |-> e.from, to |-> e.to, departure |-> at, arrival |-> at + e.duration]
AccessLeg(link, departure) ==
  [mode |-> "access", to |-> link.stop, departure |-> departure, arrival |-> departure + link.duration]
SegmentLegs(a) ==
  LET ahead[i \in DOMAIN arena] ==    \* the legs that lead to boarding segment i
        LET o == arena[i].origin IN
        IF o.kind = "access" THEN <<AccessLeg(o.link, arena[i].departure)>>
        ELSE LET rode == Append(ahead[o.parent], TransitLeg(arena[o.parent], o.alight)) IN
             IF o.kind = "transfer" THEN rode
             ELSE Append(rode, WalkLeg(o.edge, Arrive(arena[o.parent].trip, o.alight)))
      leaf == a.leaf
  IN  IF leaf.segment = 0 THEN <<AccessLeg(CHOOSE l \in leaf.walk : TRUE, a.departure)>>
      ELSE LET x == arena[leaf.segment]
               rode == Append(ahead[leaf.segment], TransitLeg(x, leaf.alight))
           IN  IF leaf.walk = {} THEN rode
               ELSE Append(rode, WalkLeg(CHOOSE e \in leaf.walk : TRUE, Arrive(x.trip, leaf.alight)))

----------------------------------------------------------------------------
(* The engine.                                                            *)

Unbuilt ==
  /\ transfers = {} /\ sources = Stops
  /\ states = <<>> /\ waiting = <<>> /\ segments = <<>> /\ admitted = <<>> /\ walkBoards = <<>>
  /\ tripBags = [v \in View |-> [n \in 1 .. q.rounds |-> {}]]

\* transfer_set: the sources are independent; one at a time.
EnumerateSource ==
  /\ pc = "build" /\ sources # {}
  /\ LET source == Min(sources) IN
       transfers' = transfers \cup KeptFrom(source) /\ sources' = sources \ {source}
  /\ pc' = IF sources' = {} THEN "open" ELSE "build"
  /\ UNCHANGED <<q, pass, round, arena, bags, scans, destination, best, output, bounds>>

SweepAhead ==
  /\ pc = "open" /\ Unswept
  /\ bounds' = BoundsSwept
  /\ UNCHANGED <<q, pc, pass, round, arena, bags, building, scans, destination, best, output>>

\* The boardings of a pass.  A policy's street legs may also lead straight to
\* the destination, whether or not the stop's bag took them.
OpenPass ==
  /\ pc = "open" /\ ~Unswept
  /\ LET ready(a) == Departure + a.duration
         street(a) == StreetGrams(q.access_grams, a)
         seed(w, a) ==
           LET e == StopEntry(ready(a), street(a), 0) IN
           IF Beyond(a.stop, ready(a)) \/ Rejecting(w.bags[a.stop], e) # {} THEN w
           ELSE [bags |-> [w.bags EXCEPT ![a.stop] = Inserted(@, e)],
                 taken |-> Append(w.taken, a),
                 boards |-> BoardAt(w.boards, a.stop, ready(a), street(a), Departure,
                                    [kind |-> "access", link |-> a], 1)]
         seeds == SetToSeq(q.access)
         w == FoldLeft(seed, [bags |-> bags, taken |-> <<>>, boards |-> Boards], seeds)
         points(links) == [i \in DOMAIN links |->
           [departure |-> Departure, arrival |-> ready(links[i]), penalty |-> 0, grams |-> street(links[i]),
            stop |-> links[i].stop, leaf |-> [segment |-> 0, alight |-> 0, walk |-> {links[i]}]]]
     IN  /\ BoardsBecome(w.boards) /\ bags' = w.bags
         /\ best' = IF q.product = "emissions" THEN CreditedAll(best, points(w.taken)) ELSE best
         /\ destination' = IF q.policy THEN JoinedAll(destination, points(seeds)) ELSE destination
  /\ round' = 1 /\ pc' = "round"
  /\ UNCHANGED <<q, pass, building, segments, admitted, walkBoards, output, bounds>>

\* A round scans what was queued for it and not cancelled since.
OpenRound ==
  /\ pc = "round"
  /\ segments' = SelectSeq(waiting, LAMBDA i : states[i] = "pending")
  /\ states' = [i \in DOMAIN states |-> IF Contains(segments', i) THEN "scanned" ELSE states[i]]
  /\ waiting' = <<>> /\ pc' = "direct"
  /\ UNCHANGED <<q, pass, round, arena, bags, building, tripBags, admitted, walkBoards, destination, best, output, bounds>>

ScanSegment ==
  /\ pc = "direct" /\ segments # <<>>
  /\ LET i == Head(segments)
         x == arena[i]
         w == FoldLeft(LAMBDA u, k : Alight(u, i, x.board + k), [bags |-> bags, points |-> <<>>],
                       [k \in 1 .. Len(StopsOf(x.trip)) - x.board |-> k])
     IN  /\ bags' = w.bags /\ admitted' = admitted \o w.points
         /\ Reported(w.points)
  /\ segments' = Tail(segments)
  /\ UNCHANGED <<q, pc, pass, round, arena, building, states, tripBags, waiting, walkBoards, output, bounds>>

\* One hop from the round's alightings.  Points to board from are recorded
\* unless the round is the last.
RelaxClosure ==
  /\ pc = "direct" /\ segments = <<>>
  /\ LET w == FoldLeft(WalkedOver, [bags |-> bags, points |-> <<>>], EdgeMajor(FoldLeft(Offered, NoBatch, admitted)))
     IN  /\ bags' = w.bags /\ Reported(w.points)
         /\ walkBoards' = IF round < q.rounds THEN w.points ELSE <<>>
  /\ pc' = IF round < q.rounds THEN "expand" ELSE "round over"
  /\ UNCHANGED <<q, pass, round, arena, building, states, tripBags, waiting, segments, admitted, output, bounds>>

\* The next round's boardings: over the transfer set, then after the walkBoards.
Expand ==
  /\ pc = "expand"
  /\ BoardsBecome(FoldLeft(WalkOn, FoldLeft(ExpandOne, Boards, Expanding), walkBoards))
  /\ pc' = "round over"
  /\ UNCHANGED <<q, pass, round, bags, building, segments, admitted, walkBoards, destination, best, output, bounds>>

CloseRound ==
  /\ pc = "round over"
  /\ admitted' = <<>> /\ walkBoards' = <<>>
  /\ IF round < q.rounds THEN pc' = "round" /\ round' = round + 1 /\ UNCHANGED pass
     ELSE pc' = (IF pass = Len(q.departures) THEN "collect" ELSE "open") /\ round' = 0 /\ pass' = pass + 1
  /\ UNCHANGED <<q, arena, bags, building, states, tripBags, waiting, segments, destination, best, output, bounds>>

Collect ==
  /\ pc = "collect"
  /\ output' = [x \in Slots |-> {JourneyOf(a, SegmentLegs(a)) : a \in Returned(x)}]
  /\ pc' = "done"
  /\ UNCHANGED <<q, pass, round, arena, bags, building, scans, destination, best, bounds>>

McTbtrNext ==
  \/ EnumerateSource \/ SweepAhead \/ OpenPass \/ OpenRound \/ ScanSegment \/ RelaxClosure
  \/ Expand \/ CloseRound \/ Collect

\* Only scanned segments are ancestors of what the slots hold: none that a
\* later boarding cancelled (engine.rs:450-472 asserts it in debug builds).
Ancestors(i) ==
  LET up[k \in DOMAIN arena] ==
        {k} \cup (IF arena[k].origin.kind = "access" THEN {} ELSE up[arena[k].origin.parent])
  IN  IF i = 0 THEN {} ELSE up[i]
NoCancelledAncestor ==
  q.engine = "mctbtr" =>
  \A x \in Slots : \A a \in destination[x] : \A i \in Ancestors(a.leaf.segment) : states[i] = "scanned"
=============================================================================
