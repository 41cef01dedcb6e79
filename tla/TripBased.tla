------------------------------ MODULE TripBased -----------------------------
(***************************************************************************)
(* Trip-based routing (cafein-core, routers/tbtr): the reduced transfers   *)
(* between trips (set.rs), and the scans of trip segments over them:       *)
(* profile, window_samples and one_to_all (engine.rs).                     *)
(*                                                                         *)
(* The scans run in one thread in a fixed order, and so do these actions:  *)
(* one is the start of a pass or a round, the start of a segment's scan,   *)
(* one alighting, or the end of a round.  Positions count from 1, rounds   *)
(* from 0 as in the code; a sum at or past Unreached stands for the        *)
(* saturated one, which improves nothing.                                  *)
(***************************************************************************)
EXTENDS DayView

CONSTANT Modes    \* the scans asked for: "profile", "samples", "one to all" (TripMatrix adds one)

VARIABLES
  mode,          \* the scan that runs on it
  set,           \* set[v][i]: the transfers kept when virtual trip v is alighted at i
  pc,            \* which loop the scan is in
  pass, round,   \* index into q.departures; the queue being scanned
  reached,       \* reached[v][k]: the horizon no boarding of v in round k may reach
  arena, queue,  \* the segments, and the queue of the round to come
  segments,      \* what is left of the round's queue
  current,       \* the segment being scanned: its index, its last alight and its bar
  position,      \* the alight the scan is at
  labels,        \* labels[s][k]: earliest arrival at s by round k
  transit_best,  \* the round's best ride to each stop, of an unclosed set
  walked,        \* the stops the round's footpaths improved, in that order
  joined,        \* round_best: the best way to the destination this round
  thresholds,    \* thresholds[k]: best arrival emitted by round k
  journeys       \* the journeys emitted

vars == <<q, mode, set, pc, pass, round, reached, arena, queue, segments, current,
          position, labels, transit_best, walked, joined, thresholds, journeys>>
given == <<q, mode, set>>

Scans == 0 .. q.rounds - 1

----------------------------------------------------------------------------
(* The transfer set (set.rs).                                             *)

\* generate: the transfers feasible when v is alighted at a position.
Generate(walks, v, alight) ==
  LET stop == StopsOf(v)[alight]
      arrival == Arrive(v, alight)
      all == Boardings(stop, arrival) \cup
             UNION {Boardings(e.to, arrival + e.duration) : e \in FootpathsFrom(walks, stop)}
  IN  {x \in all : ~StaysOnLine(v, alight, x) /\ ~UTurn(v, alight, x)}

Reaching(walks, stop, at) ==
  {<<stop, at>>} \cup {<<e.to, at + e.duration>> : e \in FootpathsFrom(walks, stop)}
\* The stops and times a transfer's trip reaches, walks behind it included.
ReachedBy(walks, x) ==
  UNION {Reaching(walks, StopsOf(x.trip)[k], Arrive(x.trip, k)) : k \in x.position + 1 .. Len(StopsOf(x.trip))}
StayReaches(walks, v, alight) == Reaching(walks, StopsOf(v)[alight], Arrive(v, alight))

\* Mutant: the labels of a trip take in every alight, earlier ones too.
SeenFromAnywhere(v, alight) == Alights(v)
\* The backward walk: at an alight the labels hold it and the later ones.
SeenFrom(v, alight) == {a \in Alights(v) : a >= alight}

\* x reaches some stop first: earlier than by staying on the trip, no later
\* than by another transfer, and of the same trip's ties boards earliest.
Witnesses(walks, x, contenders, stays) ==
  \E r \in ReachedBy(walks, x) :
    /\ r[2] < Unreached
    /\ \A s \in stays : s[1] = r[1] => r[2] < s[2]
    /\ \A y \in contenders : \A s \in ReachedBy(walks, y) :
         s[1] = r[1] => /\ r[2] <= s[2]
                        /\ r[2] = s[2] /\ y.trip = x.trip => x.position <= y.position

\* reduce: the transfers of an alight that witness a label.
Reduce(walks, v, alight) ==
  LET contenders == UNION {Generate(walks, v, a) : a \in SeenFrom(v, alight)}
      stays == UNION {StayReaches(walks, v, a) : a \in SeenFrom(v, alight)}
  IN  {x \in Generate(walks, v, alight) : Witnesses(walks, x, contenders, stays)}

\* for_view, as the engine asks for it: same-stop transfers only.
TransferSet == [v \in View |-> [i \in Alights(v) |-> InServedOrder(Reduce({}, v, i))]]

----------------------------------------------------------------------------
(* Queues, labels and targets (engine.rs).                                *)

\* Mutant: a boarding closes its trip to every number of rides.
ReachedFromAllRounds(old, v, r, board) ==
  [u \in View |-> [k \in Scans |-> IF u \in LaterSiblings(v) /\ board < old[u][k] THEN board ELSE old[u][k]]]
\* A boarding closes its trip and the later siblings from this round on.
ReachedFrom(old, v, r, board) ==
  [u \in View |-> [k \in Scans |-> IF u \in LaterSiblings(v) /\ k >= r /\ board < old[u][k] THEN board ELSE old[u][k]]]

\* w is what enqueue changes: the horizons, the arena and the round's queue.
Enqueue(w, r, segment) ==
  LET v == segment.trip IN
  IF segment.board >= w.reached[v][r] THEN w
  ELSE [reached |-> ReachedFrom(w.reached, v, r, segment.board),
        arena |-> Append(w.arena, segment),
        queue |-> Append(w.queue, [segment |-> Len(w.arena) + 1, end |-> w.reached[v][r]])]
Boarded(w, r, transfers, origin) ==
  FoldLeft(LAMBDA u, x : Enqueue(u, r, [trip |-> x.trip, board |-> x.position, origin |-> origin]),
           w, transfers)
Work == [reached |-> reached, arena |-> arena, queue |-> queue]
SetWork(w) == reached' = w.reached /\ arena' = w.arena /\ queue' = w.queue

\* one_to_all keeps one label per stop, whatever the number of rides.
Slot(r) == IF mode = "one to all" THEN 0 ELSE r
Improves(l, s, time, r) == time < l[s][Slot(r)]
Improved(l, s, time, r) ==
  [l EXCEPT ![s] = [k \in Scans |-> IF k >= Slot(r) /\ time < l[s][k] THEN time ELSE l[s][k]]]

\* A stop keeps its first rank, and the latest walk that improved it.
Insert(w, x) ==
  IF \E i \in DOMAIN w : w[i].stop = x.stop
    THEN [i \in DOMAIN w |-> IF w[i].stop = x.stop THEN x ELSE w[i]]
    ELSE Append(w, x)

NoWalk == [duration |-> 0]
\* Where a line may be alighted for the destination: at an egress stop, or a
\* footpath before one.
Targets(l) ==
  LET stops == q.pattern_stops[l.pattern] IN
  {t \in [position : 2 .. Len(stops), egress : q.egress, walk : q.transfers \cup {NoWalk}] :
     IF t.walk = NoWalk THEN stops[t.position] = t.egress.stop
     ELSE stops[t.position] = t.walk.from /\ t.walk.to = t.egress.stop}
Total(t) == t.walk.duration + t.egress.duration

NoJoin == [arrival |-> Unreached]
\* The joins a set of targets gives the segment of index i, and round_best
\* after them: some best one, if it beats what the round has and the bar.
Joins(i, targets) ==
  {[arrival |-> Arrive(arena[i].trip, t.position) + Total(t), segment |-> i, target |-> t] : t \in targets}
BestOf(joins) ==
  LET better == {j \in joins : j.arrival < joined.arrival /\ j.arrival < thresholds[round]}
  IN  IF better = {} THEN {joined} ELSE {j \in better : \A o \in better : j.arrival <= o.arrival}

----------------------------------------------------------------------------
(* The scan.                                                              *)

Horizons == [v \in View |-> [k \in Scans |-> Len(StopsOf(v)) + 1]]

Init ==
  /\ q \in Queries /\ mode \in Modes
  /\ mode = "one to all" => Len(q.departures) = 1
  /\ set = TransferSet
  /\ pc = "pass" /\ pass = 0 /\ round = 0
  /\ reached = Horizons /\ arena = <<>> /\ queue = <<>>
  /\ segments = <<>> /\ current = [segment |-> 0, last |-> 0, bar |-> 0] /\ position = 0
  /\ labels = [s \in Stops |-> [k \in Scans |-> Unreached]]
  /\ transit_best = [s \in Stops |-> Unreached] /\ walked = <<>> /\ joined = NoJoin
  /\ thresholds = [k \in Scans |-> Unreached] /\ journeys = {}

\* The next departure's pass: label the access stops, then board there.
Access == SetToSortSeq(q.access, LAMBDA a, b : a.stop < b.stop \/ (a.stop = b.stop /\ a.duration < b.duration))
StartPass ==
  /\ pc = "pass" /\ pass < Len(q.departures)
  /\ pass' = pass + 1 /\ round' = 0
  /\ LET departure == q.departures[pass + 1] IN
     /\ labels' = FoldLeft(LAMBDA l, a : Improved(l, a.stop, departure + a.duration, 0), labels, Access)
     /\ SetWork(FoldLeft(LAMBDA w, a : Boarded(w, 0, InServedOrder(Boardings(a.stop, departure + a.duration)),
                                               [kind |-> "access", link |-> a]),
                         Work, Access))
  /\ pc' = "round"
  /\ UNCHANGED <<given, segments, current, position, transit_best, walked, joined, thresholds, journeys>>

StartRound ==
  /\ pc = "round" /\ round < q.rounds /\ queue # <<>>
  /\ segments' = queue /\ queue' = <<>>
  /\ walked' = <<>> /\ transit_best' = [s \in Stops |-> Unreached] /\ joined' = NoJoin
  /\ pc' = "scan"
  /\ UNCHANGED <<given, pass, round, reached, arena, current, position, labels, thresholds, journeys>>

EndPass ==
  /\ pc = "round" /\ (round = q.rounds \/ queue = <<>>)
  /\ pc' = "pass"
  /\ UNCHANGED <<given, pass, round, reached, arena, queue, segments, current, position,
                 labels, transit_best, walked, joined, thresholds, journeys>>

\* Alights run up to the old horizon, inclusive: the segment that set it
\* boarded there and never alighted there.
LastAlight(s) ==
  LET length == Len(StopsOf(arena[s.segment].trip))
  IN  IF s.end < length THEN s.end ELSE length

\* The bar a continuation must clear: what may still be emitted next round.
ExpansionBar(best) ==
  IF mode # "profile" THEN Unreached
  ELSE IF round + 1 = q.rounds THEN 0
  ELSE IF best < thresholds[round + 1] THEN best ELSE thresholds[round + 1]

\* A segment's scan begins with its direct joins.
ScanSegment ==
  /\ pc = "scan" /\ segments # <<>>
  /\ LET s == Head(segments)
         trip == arena[s.segment].trip
         board == arena[s.segment].board
         direct == {t \in Targets(LineOf(trip)) :
                      t.walk = NoWalk /\ t.position \in board + 1 .. LastAlight(s)}
     IN  /\ IF mode = "profile" THEN joined' \in BestOf(Joins(s.segment, direct)) ELSE UNCHANGED joined
         /\ current' = [segment |-> s.segment, last |-> LastAlight(s), bar |-> ExpansionBar(joined'.arrival)]
         /\ position' = board + 1
  /\ segments' = Tail(segments)
  /\ pc' = "alight"
  /\ UNCHANGED <<given, pass, round, reached, arena, queue, labels, transit_best, walked, thresholds, journeys>>

\* What the walks behind an arrival change: the labels, and the stops to
\* board from.
Relaxed(l, stop, arrival) ==
  FoldLeft(LAMBDA w, e :
             IF Improves(w.labels, e.to, arrival + e.duration, round)
               THEN [labels |-> Improved(w.labels, e.to, arrival + e.duration, round),
                     walked |-> Insert(w.walked, [stop |-> e.to, ready |-> arrival + e.duration,
                                                  parent |-> current.segment, alight |-> position])]
               ELSE w,
           [labels |-> l, walked |-> walked],
           SetToSortSeq(FootpathsFrom(q.transfers, stop), LAMBDA e, f : e.to < f.to))

\* Of an unclosed set, a ride a footpath has beaten to the stop still walks
\* on if it is the round's best ride there.
Shadowed(stop, arrival) == ~q.closed /\ arrival < transit_best[stop]

\* Alight at the position: improve the stop, join and walk from it if that
\* helped, and take the transfers of the set.
Alight ==
  /\ pc = "alight" /\ position <= current.last
  /\ LET trip == arena[current.segment].trip
         stop == StopsOf(trip)[position]
         arrival == Arrive(trip, position)
         expand == round + 1 < q.rounds
         relaxes == Improves(labels, stop, arrival, round) \/ Shadowed(stop, arrival)
         here == Improved(labels, stop, arrival, round)
         via == {t \in Targets(LineOf(trip)) : t.walk # NoWalk /\ t.position = position}
         after == Relaxed(here, stop, arrival)
     IN  /\ transit_best' = IF ~q.closed /\ arrival < transit_best[stop]
                              THEN [transit_best EXCEPT ![stop] = arrival] ELSE transit_best
         /\ IF relaxes /\ mode = "profile"
              THEN joined' \in BestOf(Joins(current.segment, via)) ELSE UNCHANGED joined
         /\ IF relaxes /\ (mode = "profile" => expand)
              THEN labels' = after.labels /\ walked' = after.walked
              ELSE labels' = here /\ UNCHANGED walked
         /\ SetWork(IF expand /\ arrival < current.bar
                      THEN Boarded(Work, round + 1, set[trip][position],
                                   [kind |-> "transfer", parent |-> current.segment, alight |-> position])
                      ELSE Work)
  /\ position' = position + 1
  /\ UNCHANGED <<given, pc, pass, round, segments, current, thresholds, journeys>>

EndSegment ==
  /\ pc = "alight" /\ position > current.last
  /\ pc' = "scan"
  /\ UNCHANGED <<given, pass, round, reached, arena, queue, segments, current, position,
                 labels, transit_best, walked, joined, thresholds, journeys>>

\* assemble: the legs up to the ride of each segment, and that ride's leg.
RideLeg(i, alight) ==
  LET v == arena[i].trip IN
  [mode |-> "transit", trip |-> v.trip, from |-> StopsOf(v)[arena[i].board], to |-> StopsOf(v)[alight],
   departure |-> Depart(v, arena[i].board), arrival |-> Arrive(v, alight)]
WalkLeg(e, left) ==
  [mode |-> "transfer", from |-> e.from, to |-> e.to, departure |-> left, arrival |-> left + e.duration]
WalkBetween(ride, s) ==
  IF ride.to = s THEN <<>>
  ELSE <<WalkLeg(CHOOSE e \in q.transfers : e.from = ride.to /\ e.to = s, ride.arrival)>>
LegsBefore ==
  LET before[i \in DOMAIN arena] ==
        LET o == arena[i].origin
            boardStop == StopsOf(arena[i].trip)[arena[i].board]
            departure == q.departures[pass]
        IN  IF o.kind = "access"
              THEN <<[mode |-> "access", to |-> o.link.stop, departure |-> departure,
                      arrival |-> departure + o.link.duration]>>
              ELSE LET ride == RideLeg(o.parent, o.alight)
                   IN  before[o.parent] \o <<ride>> \o WalkBetween(ride, boardStop)
  IN  before
Assembled(j) ==
  LET ride == RideLeg(j.segment, j.target.position)
      walk == IF j.target.walk = NoWalk THEN <<>> ELSE <<WalkLeg(j.target.walk, ride.arrival)>>
  IN  [departure |-> q.departures[pass], arrival |-> j.arrival, rides |-> round + 1,
       egress |-> j.target.egress, legs |-> LegsBefore[j.segment] \o <<ride>> \o walk]

\* The best arrival emitted by round k, once this round emits its join.
Bar(k) == IF k >= round /\ joined.arrival < thresholds[k] THEN joined.arrival ELSE thresholds[k]

\* The round ends: board where its footpaths led, and emit its best join.
EndRound ==
  /\ pc = "scan" /\ segments = <<>>
  /\ SetWork(IF round + 1 < q.rounds
               THEN FoldLeft(LAMBDA w, x : Boarded(w, round + 1, InServedOrder(Boardings(x.stop, x.ready)),
                                                   [kind |-> "transfer", parent |-> x.parent, alight |-> x.alight]),
                             Work, walked)
               ELSE Work)
  /\ IF joined.arrival < thresholds[round]
       THEN /\ thresholds' = [k \in Scans |-> Bar(k)]
            /\ journeys' = journeys \cup {Assembled(joined)}
       ELSE UNCHANGED <<thresholds, journeys>>
  /\ round' = round + 1
  /\ pc' = "round"
  /\ UNCHANGED <<given, pass, segments, current, position, labels, transit_best, walked, joined>>

Done == pc = "pass" /\ pass = Len(q.departures) /\ UNCHANGED vars

Next ==
  \/ StartPass \/ StartRound \/ EndPass
  \/ ScanSegment \/ Alight \/ EndSegment \/ EndRound
  \/ Done

Spec == Init /\ [][Next]_vars

----------------------------------------------------------------------------
(* Properties.                                                            *)

Departed == {q.departures[i] : i \in 1 .. pass}
PassEnded == pc = "pass" /\ pass > 0

\* The reduction drops no transfer an arrival needs: from every boarding of
\* every trip, with one change of trip, each stop is reached as early by the
\* kept transfers as by all feasible ones, whether the set walks or not.
EarliestBehind(walks, v, board, transfers(_)) ==
  LET alights == {a \in Alights(v) : a > board}
      reaches == UNION {StayReaches(walks, v, a) : a \in alights} \cup
                 UNION {UNION {ReachedBy(walks, x) : x \in transfers(a)} : a \in alights}
  IN  [s \in Stops |-> Min({Unreached} \cup {r[2] : r \in {r \in reaches : r[1] = s}})]
ReductionKeepsArrivals ==
  pc = "pass" /\ pass = 0 =>
    \A walks \in {{}, q.transfers}, v \in View : \A board \in FirstBoardable(v) .. Len(StopsOf(v)) :
      EarliestBehind(walks, v, board, LAMBDA a : Generate(walks, v, a)) =
      EarliestBehind(walks, v, board, LAMBDA a : Reduce(walks, v, a))

\* Whatever a sampled or one-to-all scan leaves behind a pass is the earliest
\* arrival at every stop over the departures so far: no horizon, label of an
\* earlier pass or shadowed walk hides one.
SamplesExact ==
  PassEnded /\ mode \in {"samples", "one to all"} =>
    LET earliest == Earliest(q, Departed)[q.rounds] IN
    \A s \in Stops : labels[s][q.rounds - 1] = earliest[s]

\* Every journey of a profile can be made as its legs say, and none is
\* dominated by another.
SegmentJourneysSound == (\A j \in journeys : Feasible(q, j)) /\ Undominated(journeys)

\* A profile's frontier is complete.
SegmentFrontierComplete ==
  PassEnded /\ pass = Len(q.departures) /\ mode = "profile" => Complete(q, Departed, journeys)

\* What a scan yields, samples or journeys, is what the timetable offers: no
\* bound left by an earlier pass or round hides any (engine.rs).
ScansExact == SamplesExact /\ SegmentJourneysSound /\ SegmentFrontierComplete
=============================================================================
