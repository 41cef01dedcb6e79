------------------------------ MODULE McRaptor ------------------------------
(***************************************************************************)
(* Multicriteria RAPTOR (cafein-core, routers/mcraptor): rounds of line    *)
(* scans over labels, cumulative over the passes of a departure window;    *)
(* its products are the journeys of one pair, batched frontiers, and the   *)
(* least-emissions matrix.                                                 *)
(*                                                                         *)
(* The search is one thread in a fixed order, and so are the actions: the  *)
(* seeds of a pass, the boardings of a round, one line's scan, a round's   *)
(* footpaths, its joins, and the results.                                  *)
(***************************************************************************)
EXTENDS MultiCriteria

VARIABLES
  fresh,        \* the labels the round boards from
  queue,        \* queue[l]: the boardings of line l collected this round
  touched,      \* the lines with boardings, in the order they got one
  rode, shadow  \* the round's ride labels: admitted, and owed their footpaths only

scanning == <<fresh, queue, touched, rode, shadow>>

Strict == q.slack = 0 /\ \A p \in DOMAIN q.route_penalty : q.route_penalty[p] = 0

----------------------------------------------------------------------------
(* Labels.                                                                *)

EntryOf(x, sealed) ==
  [arrival |-> x.arrival, penalty |-> x.penalty, key |-> Key(x.grams), grams |-> x.grams,
   rides |-> round, sealed |-> sealed]

\* insert_transit: under a merged transfer set, a ride that only sealed
\* entries reject still walks on.
Fate(bag, e) ==
  IF Rejecting(bag, e) = {} THEN "admitted"
  ELSE IF q.merged /\ \A x \in Rejecting(bag, e) : x.sealed THEN "shadowed"
  ELSE "rejected"

\* target_pruned: the one pair's frontier already rejects all that x leads to.
TargetPruned(x) ==
  q.product = "pair" /\
  \E a \in destination[0] : /\ a.departure >= x.departure /\ a.key <= Key(x.grams)
                            /\ Effective(a) + q.slack <= Effective(x)
                            /\ ~(/\ a.departure = x.departure /\ Effective(a) = Effective(x)
                                 /\ a.key = Key(x.grams) /\ x.grams < a.grams)
Dropped(x) ==
  \/ x.stop \in q.excluded
  \/ q.band # Unreached /\ x.arrival > Cutoff(pass)[x.stop]
  \/ TargetPruned(x)

\* w is what labels change: the arena, the bags and the lists of new labels.
Work == [arena |-> arena, bags |-> bags, new |-> <<>>, shadow |-> <<>>]
Made(w, x) == [w EXCEPT !.arena = Append(@, x), !.new = Append(@, Len(w.arena) + 1)]
\* A seed, or a walk: kept when its stop's bag takes it.
Keep(w, x, sealed) ==
  LET e == EntryOf(x, sealed) IN
  IF Dropped(x) \/ Rejecting(w.bags[x.stop], e) # {} THEN w
  ELSE [Made(w, x) EXCEPT !.bags[x.stop] = Inserted(@, e)]
\* A ride.
Alighted(w, x) ==
  LET e == EntryOf(x, FALSE)
      fate == Fate(w.bags[x.stop], e)
  IN  IF Dropped(x) \/ fate = "rejected" THEN w
      ELSE IF fate = "admitted" THEN [Made(w, x) EXCEPT !.bags[x.stop] = Inserted(@, e)]
      ELSE [w EXCEPT !.arena = Append(@, x), !.shadow = Append(@, Len(w.arena) + 1)]

\* A label as the slots see it.
Point(a, i) ==
  [departure |-> a[i].departure, arrival |-> a[i].arrival, penalty |-> a[i].penalty, grams |-> a[i].grams,
   stop |-> a[i].stop, leaf |-> i]
PointsOf(a, labels) == [j \in DOMAIN labels |-> Point(a, labels[j])]

----------------------------------------------------------------------------
(* One line's scan.                                                       *)

\* The trips a label boards from the first it can catch on: each one cleaner
\* than all before it and, under a slack, those soon after the last cleaner.
NextBoarded(b, v, i) ==
  IF ~Resolved(v) THEN b
  ELSE IF Factor(v) < b.cleanest
    THEN [trips |-> Append(b.trips, v), cleanest |-> Factor(v), departs |-> Depart(v, i)]
  ELSE IF q.slack > 0 /\ Depart(v, i) - b.departs <= q.slack THEN [b EXCEPT !.trips = Append(@, v)]
  ELSE b
TripsBoarded(l, i, ready) ==
  FlattenSeq(SetToSeq({
    FoldLeft(LAMBDA b, v : NextBoarded(b, v, i),
             [trips |-> <<>>, cleanest |-> Unreached, departs |-> Depart(first, i)],
             SetToSortSeq(LaterSiblings(first), LAMBDA u, v : u.trip < v.trip)).trips :
    first \in EarliestBoardable(l, i, ready)}))

\* Riders of one trip reduce by kappa, the grams they alight with less those
\* of the trip, and by penalty.
Outrides(r, s) == r.trip = s.trip /\ r.kappa <= s.kappa /\ r.penalty <= s.penalty
Ridden(riders, r) ==
  IF \E i \in DOMAIN riders : Outrides(riders[i], r) THEN riders
  ELSE Append(SelectSeq(riders, LAMBDA s : ~Outrides(r, s)), r)
Rider(v, i, label) ==
  [trip |-> v, board |-> i, parent |-> label, grams |-> arena[label].grams,
   kappa |-> arena[label].grams - Grams(v, i), penalty |-> arena[label].penalty,
   departure |-> arena[label].departure]
BoardAll(riders, l, i, labels) ==
  FoldLeft(LAMBDA all, label :
             FoldLeft(LAMBDA r, v : Ridden(r, Rider(v, i, label)), all, TripsBoarded(l, i, arena[label].arrival)),
           riders, labels)

\* Mutant: grams counted from the trip's first stop.
RideFromStart(r, i) ==
  [arrival |-> Arrive(r.trip, i), grams |-> r.grams + Grams(r.trip, i), stop |-> StopsOf(r.trip)[i],
   departure |-> r.departure, penalty |-> r.penalty + q.route_penalty[LineOf(r.trip).pattern],
   origin |-> [kind |-> "ride", parent |-> r.parent, trip |-> r.trip, board |-> r.board, alight |-> i]]
\* The label a rider makes at position i.
Ride(r, i) ==
  [arrival |-> Arrive(r.trip, i), grams |-> r.grams + Grams(r.trip, i) - Grams(r.trip, r.board),
   stop |-> StopsOf(r.trip)[i],
   departure |-> r.departure, penalty |-> r.penalty + q.route_penalty[LineOf(r.trip).pattern],
   origin |-> [kind |-> "ride", parent |-> r.parent, trip |-> r.trip, board |-> r.board, alight |-> i]]
\* At a position the riders alight, then its labels board.
ScanPosition(w, l, i) ==
  LET boarding == SelectSeq(queue[l], LAMBDA b : b.position = i)
      alighted == FoldLeft(LAMBDA u, r : Alighted(u, Ride(r, i)), w.work, w.riders)
  IN  [work |-> alighted,
       riders |-> BoardAll(w.riders, l, i, [j \in DOMAIN boarding |-> boarding[j].label])]
Scanned(l) ==
  IF ~RouteOpen(l) THEN Work
  ELSE FoldLeft(LAMBDA w, i : ScanPosition(w, l, i), [work |-> Work, riders |-> <<>>],
                [i \in DOMAIN q.pattern_stops[l.pattern] |-> i]).work

----------------------------------------------------------------------------
(* A round's footpaths.                                                   *)

SealedEdge(e) == q.merged /\ e \in DOMAIN q.ride_grams
Walk(w, x) ==
  LET from == x.point
      e == x.edge
  IN  Keep(w, [arrival |-> from.arrival + e.duration,
               grams |-> from.grams + (IF SealedEdge(e) THEN q.ride_grams[e] ELSE 0),
               stop |-> e.to, departure |-> from.departure, penalty |-> from.penalty,
               origin |-> [kind |-> "walk", parent |-> from.label, edge |-> e]], SealedEdge(e))
Source(i) == [label |-> i, arrival |-> arena[i].arrival, grams |-> arena[i].grams, stop |-> arena[i].stop,
              departure |-> arena[i].departure, penalty |-> arena[i].penalty]
\* relax_footpaths: label by label, all edges of its stop.
LabelMajor(sources) ==
  FlattenSeq([i \in DOMAIN sources |->
    LET edges == EdgesFrom(sources[i].stop) IN [k \in DOMAIN edges |-> [point |-> sources[i], edge |-> edges[k]]]])
Relaxations ==
  LET sources == [i \in DOMAIN (rode \o shadow) |-> Source((rode \o shadow)[i])]
  IN  IF Strict THEN EdgeMajor(FoldLeft(Offered, NoBatch, sources)) ELSE LabelMajor(sources)

----------------------------------------------------------------------------
(* Results (products.rs).                                                 *)

Legs(i) ==
  LET legs[j \in DOMAIN arena] ==
        LET x == arena[j]
            o == x.origin
        IN  IF o.kind = "access"
              THEN <<[mode |-> "access", to |-> x.stop, departure |-> x.departure, arrival |-> x.arrival]>>
            ELSE IF o.kind = "ride"
              THEN Append(legs[o.parent],
                     [mode |-> "transit", trip |-> o.trip, board |-> o.board, alight |-> o.alight,
                      from |-> StopsOf(o.trip)[o.board], to |-> x.stop,
                      departure |-> Depart(o.trip, o.board), arrival |-> Arrive(o.trip, o.alight)])
            ELSE Append(legs[o.parent],
                   [mode |-> "transfer", from |-> arena[o.parent].stop, to |-> x.stop,
                    departure |-> arena[o.parent].arrival,
                    arrival |-> arena[o.parent].arrival + o.edge.duration])
  IN  legs[i]

----------------------------------------------------------------------------
(* The search.                                                            *)

Idle == fresh = <<>> /\ queue = [l \in Lines |-> <<>>] /\ touched = <<>> /\ rode = <<>> /\ shadow = <<>>

\* resolved_bounds, a departure at a time, with what those before left.
SweepBounds ==
  /\ pc = "seed" /\ Unswept
  /\ bounds' = BoundsSwept
  /\ UNCHANGED <<q, pc, pass, round, arena, bags, scanning, destination, best, output>>

\* The access labels; stops that are slots count them in, and a policy's
\* street legs may lead straight to the destination.
SeedPass ==
  /\ pc = "seed" /\ ~Unswept
  /\ LET label(a) == [arrival |-> Departure + a.duration, grams |-> StreetGrams(q.access_grams, a),
                      stop |-> a.stop, departure |-> Departure, penalty |-> 0, origin |-> [kind |-> "access"]]
         w == FoldLeft(LAMBDA u, a : Keep(u, label(a), a \in q.sealed_access), Work, SetToSeq(q.access))
     IN  /\ arena' = w.arena /\ bags' = w.bags /\ fresh' = w.new
         /\ best' = IF q.product = "emissions" /\ ~q.door THEN CreditedAll(best, PointsOf(w.arena, w.new)) ELSE best
         /\ destination' = IF q.policy THEN JoinedAll(destination, PointsOf(w.arena, w.new)) ELSE destination
  /\ pc' = "board"
  /\ UNCHANGED <<q, pass, round, queue, touched, rode, shadow, output, bounds>>

\* Every line a fresh label's stop has more of, with the label's position.
BoardRound ==
  /\ pc = "board" /\ round < q.rounds /\ fresh # <<>>
  /\ LET boardings == FlattenSeq([i \in DOMAIN fresh |->
           LET served == SelectSeq(Served(arena[fresh[i]].stop),
                                   LAMBDA x : x.position < Len(q.pattern_stops[x.line.pattern]))
           IN  [j \in DOMAIN served |-> [line |-> served[j].line, position |-> served[j].position, label |-> fresh[i]]]])
     IN  /\ queue' = [l \in Lines |-> SelectSeq(boardings, LAMBDA b : b.line = l)]
         /\ touched' = Rows([i \in DOMAIN boardings |-> boardings[i].line])
  /\ round' = round + 1 /\ pc' = "scan"
  /\ UNCHANGED <<q, pass, arena, bags, fresh, rode, shadow, destination, best, output, bounds>>

ScanLine ==
  /\ pc = "scan" /\ touched # <<>>
  /\ LET l == Head(touched)
         w == Scanned(l)
     IN  /\ arena' = w.arena /\ bags' = w.bags
         /\ rode' = rode \o w.new /\ shadow' = shadow \o w.shadow
         /\ queue' = [queue EXCEPT ![l] = <<>>]
  /\ touched' = Tail(touched)
  /\ UNCHANGED <<q, pc, pass, round, fresh, destination, best, output, bounds>>

\* One hop from the ride labels; shadowed ones walk but board nothing.
RelaxFootpaths ==
  /\ pc = "scan" /\ touched = <<>>
  /\ LET w == FoldLeft(Walk, Work, Relaxations)
     IN  arena' = w.arena /\ bags' = w.bags /\ fresh' = rode \o w.new
  /\ rode' = <<>> /\ shadow' = <<>> /\ pc' = "join"
  /\ UNCHANGED <<q, pass, round, queue, touched, destination, best, output, bounds>>

JoinDestinations ==
  /\ pc = "join"
  /\ IF q.product = "emissions"
       THEN best' = CreditedAll(best, PointsOf(arena, fresh)) /\ UNCHANGED destination
       ELSE destination' = JoinedAll(destination, PointsOf(arena, fresh)) /\ UNCHANGED best
  /\ pc' = "board"
  /\ UNCHANGED <<q, pass, round, arena, bags, fresh, queue, touched, rode, shadow, output, bounds>>

EndPass ==
  /\ pc = "board" /\ (round = q.rounds \/ fresh = <<>>)
  /\ pass' = pass + 1 /\ round' = 0 /\ fresh' = <<>>
  /\ pc' = IF pass = Len(q.departures) THEN "return" ELSE "seed"
  /\ UNCHANGED <<q, arena, bags, queue, touched, rode, shadow, destination, best, output, bounds>>

Return ==
  /\ pc = "return"
  /\ output' = [x \in Slots |-> {JourneyOf(a, Legs(a.leaf)) : a \in Returned(x)}]
  /\ pc' = "done"
  /\ UNCHANGED <<q, pass, round, arena, bags, scanning, destination, best, bounds>>

McRaptorNext ==
  SweepBounds \/ SeedPass \/ BoardRound \/ ScanLine \/ RelaxFootpaths \/ JoinDestinations \/ EndPass \/ Return
=============================================================================
