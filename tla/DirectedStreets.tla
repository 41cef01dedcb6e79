--------------------------- MODULE DirectedStreets ---------------------------
(***************************************************************************)
(* Riding the streets (cafein-core, streets/profile.rs and                 *)
(* streets/directed.rs; cafein-py, streets.rs): a profile compiled to a    *)
(* cost per slot, the cache the compiled ones are kept in, and the         *)
(* forward, backward and goal-directed searches over one thread's labels.  *)
(*                                                                         *)
(* Costs are whole milliseconds and a pace is milliseconds a meter; the    *)
(* seconds of an answer are those rounded up.  Slopes are percents.  The   *)
(* coordinates of the vertices lie on a line, where distances are exact.   *)
(***************************************************************************)
EXTENDS StreetWalks

CONSTANTS
  Shipped,            \* Shipped[mode]: the definition shipped for it
  OverrideProfiles,   \* how many profiles of callers' own speeds are kept
  MinRun              \* grade limits hold on longer edges only

VARIABLES
  profiles,           \* the caches of compiled profiles, a caller's least recently used first
  labels,             \* the thread's labels: time, previous and touched
  rides, found        \* the queries so far, and what the last returned

NoPrevious == <<Far, Far>>
Unlabelled(n) == [time |-> [v \in 1 .. n |-> Far], previous |-> [v \in 1 .. n |-> NoPrevious], touched |-> {}]
Gap(a, b) == IF a <= b THEN b - a ELSE a - b
Slots == Edges \X {0, 1}
EdgeKind(e) == Kinds[net.edges[e].kind]

----------------------------------------------------------------------------
(* Profiles (profile.rs).                                                 *)

NoSpeeds == [own |-> 0, walk |-> 0, uphill |-> 0, downhill |-> 0, delay |-> 0]
\* profile_definition: 0 where the caller sets no speed.
ProfileDefinition(mode, speeds) ==
  LET onFoot == mode \in {"walk", "wheelchair"}
      own == speeds.own # 0 /\ mode # "car"
      paced == [Shipped[mode] EXCEPT !.pace = IF own THEN speeds.own ELSE @,
                                     !.walk = IF own /\ onFoot THEN speeds.own
                                              ELSE IF ~onFoot /\ speeds.walk # 0 THEN speeds.walk ELSE @]
  IN  CASE mode = "wheelchair" -> [paced EXCEPT !.uphill = speeds.uphill, !.downhill = speeds.downhill]
        [] mode = "car" -> [paced EXCEPT !.delay = speeds.delay]
        [] OTHER -> paced

\* The permission a mode reads: the e-bike's is the bicycle's.
ModeBit(mode) == IF mode = "e_bike" THEN "bicycle" ELSE mode
\* The grade a slot climbs; a loop climbs alike both ways.
Grade(slot) ==
  LET edge == net.edges[slot[1]]
  IN  IF slot[2] = 1 /\ edge.from # edge.to THEN 0 - Kinds[edge.kind].grade ELSE Kinds[edge.kind].grade
Over(limit, grade) == limit # 0 /\ grade > limit
Permitted(definition, slot) ==
  /\ ModeBit(definition.mode) \in EdgeKind(slot[1]).access[slot[2] + 1]
  /\ Length(slot[1]) > MinRun => /\ ~Over(definition.uphill, Grade(slot))
                                 /\ ~Over(definition.downhill, 0 - Grade(slot))
  /\ ~Over(definition.cap, Gap(0, Grade(slot)))

\* slope_means, in percent of the flat cost: an incline costs by how far the
\* grade over MinRun at least is from the ideal one, -1; a slope by its
\* grade, a descent's credit floored.
Slope(definition, slot) ==
  LET run == Length(slot[1])
      grade == IF run < MinRun THEN (Grade(slot) * run) \div MinRun ELSE Grade(slot)
      percent == 100 + definition.slope * Grade(slot)
  IN  IF definition.incline THEN 100 + 5 * (Gap(0 - 1, grade) - 1)
      ELSE IF percent < 10 THEN 10 ELSE percent
\* compile_profile: a dismount way is walked, whatever its class.
ArcCost(definition, slot) ==
  LET pace == IF EdgeKind(slot[1]).dismount /\ definition.mode # "walk" THEN definition.walk
              ELSE definition.pace * EdgeKind(slot[1]).factor
      total == Ceil(Length(slot[1]) * pace * Slope(definition, slot), 100)
  IN  [total |-> total, base |-> total, head |-> 0, tail |-> 0]

\* compile_car: the junctions' shares of the delay, in quarters.
Junctions == {"topological", "signals", "ramp"}
Quarters(class, kind) ==
  CASE class \in {"topological", "signals"} -> 2
    [] class = "ramp" /\ kind.ramp -> IF kind.fast THEN 3 ELSE 0
    [] class = "ramp" /\ ~kind.ramp -> 1
    [] OTHER -> 0
\* The shares come out of the total, the head's first.
CarParts(total, head, tail) ==
  [total |-> total, base |-> total - head - LowerOf(tail, total - head), head |-> head, tail |-> LowerOf(tail, total - head)]
SharedParts(base, head, tail) == CarParts(base + head + tail, LowerOf(head, base + head + tail), tail)
\* A slot has the class at its head; the one at its tail is its sibling's.
CarCost(definition, slot) ==
  LET kind == EdgeKind(slot[1])
      headClass == kind.junction[slot[2] + 1]
      tailClass == kind.junction[2 - slot[2]]
      flow == Length(slot[1]) * kind.carPace
      modelled == definition.delay # 0
      shared == modelled /\ ~kind.roundabout /\ {headClass, tailClass} \cap Junctions # {}
      share(class) == IF shared THEN (definition.delay * Quarters(class, kind)) \div 4 ELSE 0
      base == IF ~modelled \/ shared THEN flow
              ELSE IF kind.roundabout THEN flow + definition.delay \div 4
              ELSE IF kind.fast THEN (IF kind.ramp THEN 2 * flow ELSE 3 * flow) ELSE flow
  IN  SharedParts(base, share(headClass), share(tailClass))
\* A forbidden slot has no cost.
Compile(definition) ==
  [definition |-> definition,
   cost |-> Tabled([slot \in {x \in Slots : Permitted(definition, x)} |->
              IF definition.mode = "car" THEN CarCost(definition, slot) ELSE ArcCost(definition, slot)])]

\* weighted: every part of a cost times the multiplier of its edge's kind,
\* in tenths, each rounded up.
Weighted(profile, multipliers) ==
  LET scale(slot, part) == Ceil(part * multipliers[net.edges[slot[1]].kind], 10)
  IN  [profile EXCEPT !.cost = Tabled([slot \in DOMAIN @ |->
         [total |-> scale(slot, @[slot].total), base |-> scale(slot, @[slot].base),
          head |-> scale(slot, @[slot].head), tail |-> scale(slot, @[slot].tail)]])]

\* ProfileCache.position, and where it finds what it held.
Held(cache, definition) == {i \in DOMAIN cache : cache[i].profile.definition = definition}
Overridden(cache) == {i \in DOMAIN cache : cache[i].overridden}
PlaceMoved(cache, i) == IF cache[i].overridden THEN Len(cache) ELSE i
PlaceOf(cache, i) == PlaceMoved(cache, i)
\* Mutant: a hit leaves a caller's profile where it was.
UsedUnmoved(cache, i) == cache
UsedLast(cache, i) == IF cache[i].overridden THEN Append(RemoveAt(cache, i), cache[i]) ELSE cache
Used(cache, i) == UsedLast(cache, i)
Position(cache, definition, overridden) ==
  IF Held(cache, definition) # {}
  THEN LET i == LeastOf(Held(cache, definition))
       IN  [cache |-> Used(cache, i), index |-> PlaceOf(cache, i)]
  ELSE LET full == overridden /\ Cardinality(Overridden(cache)) >= OverrideProfiles
           kept == IF full THEN RemoveAt(cache, LeastOf(Overridden(cache))) ELSE cache
       IN  [cache |-> Append(kept, [profile |-> Compile(definition), overridden |-> overridden]),
            index |-> Len(kept) + 1]
\* compiled: what is not the shipped definition is a caller's.
CompiledFor(cache, mode, speeds) ==
  LET definition == ProfileDefinition(mode, speeds)
  IN  Position(cache, definition, definition # ProfileDefinition(mode, NoSpeeds))

----------------------------------------------------------------------------
(* Where a ride leaves and enters the streets (directed.rs:330-557).      *)

EdgePermits(profile, e) == {<<e, 0>>, <<e, 1>>} \cap DOMAIN profile.cost # {}
\* snap_for_profile: a rider starts on a street it rides, if there is one.
SnapForProfile(point, profile, allowance) ==
  LET usable == {e \in Edges : EdgePermits(profile, e)}
      ridden == {e \in usable : ~EdgeKind(e).dismount}
      riding == IF profile.definition.mode \in {"bicycle", "e_scooter"} THEN Snap(point, ridden, allowance) ELSE Nothing
  IN  IF riding # Nothing THEN riding ELSE Snap(point, usable, allowance)

ConnectorMillis(profile, snap) == snap.connector * profile.definition.walk
\* Part of an edge: the base in proportion, and the junctions crossed.
Partial(profile, slot, meters) == Ceil(profile.cost[slot].base * meters, Length(slot[1]))
DepartingPartial(profile, slot, meters) ==
  Partial(profile, slot, meters) + profile.cost[slot].head
    + (IF meters = Length(slot[1]) THEN profile.cost[slot].tail ELSE 0)
ArrivingPartial(profile, slot, meters) ==
  Partial(profile, slot, meters) + profile.cost[slot].tail
    + (IF meters = Length(slot[1]) THEN profile.cost[slot].head ELSE 0)

\* An endpoint names the end of the edge it is, as a loop has one vertex.
Endpoint(vertex, millis, end) == [vertex |-> vertex, millis |-> millis, end |-> end]
DirectedSeeds(snap, profile) ==
  LET e == snap.edge
      edge == net.edges[e]
      rest == edge.meters - snap.at
      on == ConnectorMillis(profile, snap)
  IN  (IF snap.at = 0 THEN <<Endpoint(edge.from, on, 0)>>
       ELSE IF <<e, 1>> \in DOMAIN profile.cost
            THEN <<Endpoint(edge.from, on + DepartingPartial(profile, <<e, 1>>, snap.at), 0)>> ELSE <<>>)
      \o (IF rest = 0 THEN <<Endpoint(edge.to, on, edge.meters)>>
          ELSE IF <<e, 0>> \in DOMAIN profile.cost
               THEN <<Endpoint(edge.to, on + DepartingPartial(profile, <<e, 0>>, rest), edge.meters)>> ELSE <<>>)
DirectedEgress(snap, profile) ==
  LET e == snap.edge
      edge == net.edges[e]
      rest == edge.meters - snap.at
      off == ConnectorMillis(profile, snap)
  IN  (IF snap.at = 0 THEN <<Endpoint(edge.from, off, 0)>>
       ELSE IF <<e, 0>> \in DOMAIN profile.cost
            THEN <<Endpoint(edge.from, off + ArrivingPartial(profile, <<e, 0>>, snap.at), 0)>> ELSE <<>>)
      \o (IF rest = 0 THEN <<Endpoint(edge.to, off, edge.meters)>>
          ELSE IF <<e, 1>> \in DOMAIN profile.cost
               THEN <<Endpoint(edge.to, off + ArrivingPartial(profile, <<e, 1>>, rest), edge.meters)>> ELSE <<>>)

\* same_edge_millis: Far when the way between is not permitted.
SameEdgeMillis(from, to, profile) ==
  LET slot == <<from.edge, IF to.at > from.at THEN 0 ELSE 1>>
      ends == IF slot[2] = 0 THEN <<0, Length(from.edge)>> ELSE <<Length(from.edge), 0>>
      connectors == ConnectorMillis(profile, from) + ConnectorMillis(profile, to)
  IN  IF from.edge # to.edge THEN Far
      ELSE IF from.at = to.at THEN connectors
      ELSE IF slot \notin DOMAIN profile.cost THEN Far
      ELSE connectors + Partial(profile, slot, Gap(from.at, to.at))
             + (IF from.at = ends[1] THEN profile.cost[slot].tail ELSE 0)
             + (IF to.at = ends[2] THEN profile.cost[slot].head ELSE 0)

----------------------------------------------------------------------------
(* The searches (directed.rs:101-177, 224-316, 561-1080).                 *)

\* prepare: the times of the last search go, its predecessors stay.
Cleared(s) == [s EXCEPT !.time = [v \in DOMAIN @ |-> IF v \in s.touched THEN Far ELSE @[v]], !.touched = {}]
\* prepare_with_previous
ClearedWithPrevious(s) ==
  Cleared([s EXCEPT !.previous = [v \in DOMAIN @ |-> IF v \in s.touched THEN NoPrevious ELSE @[v]]])

\* A seed has no predecessor.
\* Mutant: it keeps what the labels hold of an earlier search.
SeedKeeping(held) == held
SeedFresh(held) == NoPrevious
SeedPrevious(held) == SeedFresh(held)

\* One label bettered: its time, its predecessor where they are kept, and
\* an entry of the heap.
Labelled(run, v, time, previous) ==
  [run EXCEPT !.s.time[v] = time, !.s.touched = @ \cup {v},
              !.s.previous[v] = IF run.paths THEN previous ELSE @,
              !.heap = @ \cup {<<time + run.bound[v], time, v>>}]
\* An arc offered to the vertex at its far end.  Of equal offers the least
\* (vertex, edge) is kept, unless the arc is free.
Relaxed(run, v, time, slot, u) ==
  LET cost == run.profile.cost[slot].total
      next == time + cost
  IN  IF slot \notin DOMAIN run.profile.cost THEN run
      ELSE IF next > run.cutoff \/ next > run.s.time[u] THEN run
      ELSE IF next < run.s.time[u] THEN Labelled(run, u, next, <<v, slot[1]>>)
      ELSE IF run.paths /\ cost > 0 /\ Precedes(<<v, slot[1]>>, run.s.previous[u])
           THEN [run EXCEPT !.s.previous[u] = <<v, slot[1]>>]
      ELSE run
\* The arcs of a vertex, and those into it with the vertex they come from.
Arcs(v) == [i \in DOMAIN net.slots[v] |-> <<net.slots[v][i], HeadOf(net.slots[v][i])>>]
ReverseArcs(v) ==
  FlattenSeq([u \in Vertices |->
    LET into == SelectSeq(net.slots[u], LAMBDA x : HeadOf(x) = v) IN [i \in DOMAIN into |-> <<into[i], u>>]])
RECURSIVE Explore(_)
Explore(run) ==
  IF run.heap = {} THEN run
  ELSE LET top == First(run.heap)
           time == top[2]
           v == top[3]
           rest == [run EXCEPT !.heap = @ \ {top}]
           ends == {run.arrivals[i].millis : i \in {i \in DOMAIN run.arrivals : run.arrivals[i].vertex = v}}
           totals == {run.best} \cup {t \in {time + m : m \in ends} : t <= run.cutoff}
           arcs == IF run.reversed THEN ReverseArcs(v) ELSE Arcs(v)
       IN  IF run.best < top[1] THEN run
           ELSE IF time > run.s.time[v] THEN Explore(rest)
           ELSE Explore(FoldLeft(LAMBDA r, arc : Relaxed(r, v, time, arc[1], arc[2]),
                                 [rest EXCEPT !.best = LeastOf(totals)], arcs))
Begun(run, seeds) ==
  FoldLeft(LAMBDA r, seed : IF seed.millis <= r.cutoff /\ seed.millis < r.s.time[seed.vertex]
                            THEN Labelled(r, seed.vertex, seed.millis, SeedPrevious(r.s.previous[seed.vertex]))
                            ELSE r,
           run, seeds)
Run(s, profile, cutoff, paths) ==
  [s |-> s, profile |-> profile, cutoff |-> cutoff, paths |-> paths, reversed |-> FALSE,
   heap |-> {}, bound |-> [v \in Vertices |-> 0], arrivals |-> <<>>, best |-> Far]

DirectedDijkstra(s, profile, seeds, cutoff) ==
  Explore(Begun(Run(Cleared(s), profile, cutoff, FALSE), seeds)).s
DirectedDijkstraWithPaths(s, profile, seeds, cutoff) ==
  Explore(Begun(Run(ClearedWithPrevious(s), profile, cutoff, TRUE), seeds)).s
DirectedDijkstraReverse(s, profile, seeds, cutoff) ==
  Explore(Begun([Run(Cleared(s), profile, cutoff, FALSE) EXCEPT !.reversed = TRUE], seeds)).s
DirectedDijkstraReverseWithPaths(s, profile, seeds, cutoff) ==
  Explore(Begun([Run(ClearedWithPrevious(s), profile, cutoff, TRUE) EXCEPT !.reversed = TRUE], seeds)).s

\* chord_speed_bound: the greatest chord over cost, of what is permitted.
ChordOf(e) == Gap(net.place[net.edges[e].from], net.place[net.edges[e].to])
ChordSpeed(profile) ==
  LET arcs == {<<ChordOf(x[1]), profile.cost[x].total>> : x \in {x \in DOMAIN profile.cost : ChordOf(x[1]) > 0}}
  IN  IF arcs = {} THEN <<1, profile.definition.pace>>
      ELSE CHOOSE x \in arcs : \A y \in arcs : x[1] * y[2] >= y[1] * x[2]
\* The bound: the way to the ball about the arrivals, less a meter and half
\* a percent, at the greatest speed, and the lesser way off.  In half
\* meters, as the centre of two places may lie between.
\* Mutant: the centre of the ball for the ball.
CentreOnly(p, q) == 0
BallSpan(p, q) == Gap(p, q)
Span(p, q) == BallSpan(p, q)
AstarBound(profile, arrivals) ==
  LET places == [i \in DOMAIN arrivals |-> net.place[arrivals[i].vertex]]
      p == places[1]
      q == places[Len(places)]
      speed == ChordSpeed(profile)
      off == LeastOf({arrivals[i].millis : i \in DOMAIN arrivals})
      halves(v) == Gap(2 * net.place[v], p + q) - Span(p, q) - 2
  IN  Tabled([v \in Vertices |-> IF halves(v) <= 0 THEN off
                                 ELSE (halves(v) * 995 * speed[2]) \div (2000 * speed[1]) + off])

\* The goal-directed searches, with the way along a shared edge held first.
Within(millis, cutoff) == IF millis <= cutoff THEN millis ELSE Far
AstarTo(s, profile, seeds, arrivals, best, cutoff, paths) ==
  LET run == Run(IF paths THEN ClearedWithPrevious(s) ELSE Cleared(s), profile, cutoff, paths)
      goal == [run EXCEPT !.bound = AstarBound(profile, arrivals), !.arrivals = arrivals, !.best = best]
  IN  IF arrivals = <<>> THEN [s |-> s, best |-> best] ELSE Explore(Begun(goal, seeds))
Astar(s, profile, seeds, to, direct, cutoff, paths) ==
  AstarTo(s, profile, seeds, DirectedEgress(to, profile), Within(direct, cutoff), cutoff, paths)
DirectedAstar(s, profile, seeds, to, direct, cutoff) == Astar(s, profile, seeds, to, direct, cutoff, FALSE)
DirectedAstarWithPaths(s, profile, seeds, to, direct, cutoff) == Astar(s, profile, seeds, to, direct, cutoff, TRUE)

----------------------------------------------------------------------------
(* Reading the labels (directed.rs:1085-1235, 1467-2117).                 *)

\* Of candidates in their order the first of the least total within the
\* cutoff, and that total; the way along a shared edge comes first.
Best(direct, endpoints, s, cutoff) ==
  FoldLeft(LAMBDA held, end : LET total == s.time[end.vertex] + end.millis
                              IN  IF total <= cutoff /\ total < held.millis THEN [millis |-> total, end |-> end] ELSE held,
           [millis |-> Within(direct, cutoff), end |-> Nothing], endpoints)
\* arrival_millis: Far when the target is out of reach.
ArrivalMillis(from, to, profile, cutoff, s) ==
  Best(SameEdgeMillis(from, to, profile), DirectedEgress(to, profile), s, cutoff).millis

\* predecessor_chain: the edges from the root to a vertex, in travel order,
\* each with the vertex it leaves.
RECURSIVE PredecessorChain(_, _)
PredecessorChain(s, v) ==
  IF s.previous[v] = NoPrevious THEN <<>>
  ELSE Append(PredecessorChain(s, s.previous[v][1]), s.previous[v])
FirstOf(seq, test(_)) == Head(SelectSeq(seq, test))
\* winning_route: the shared edge, or the chain with the ends of the snapped
\* edges it leaves and enters by.
RouteAlong(from, profile, s, arrival, chain) ==
  LET root == IF chain = <<>> THEN arrival.vertex ELSE chain[1][1]
  IN  [shared |-> FALSE, chain |-> chain, exit |-> arrival,
       entry |-> FirstOf(DirectedSeeds(from, profile), LAMBDA x : x.vertex = root /\ x.millis = s.time[root])]
RouteInto(from, profile, s, arrival) == RouteAlong(from, profile, s, arrival, PredecessorChain(s, arrival.vertex))
WinningRoute(from, to, profile, millis, s) ==
  IF SameEdgeMillis(from, to, profile) = millis THEN [shared |-> TRUE]
  ELSE RouteInto(from, profile, s,
                 FirstOf(DirectedEgress(to, profile), LAMBDA end : s.time[end.vertex] + end.millis = millis))

\* arc_slot: the slot of an edge that leaves a vertex.
ArcSlot(step) == <<step[2], IF net.edges[step[2]].from = step[1] THEN 0 ELSE 1>>
\* The route's ends under a profile, which permits what the chosen one does.
EntryUnder(from, route, profile) ==
  FirstOf(DirectedSeeds(from, profile), LAMBDA x : x.vertex = route.entry.vertex /\ x.end = route.entry.end)
ExitUnder(to, route, profile) ==
  FirstOf(DirectedEgress(to, profile), LAMBDA x : x.vertex = route.exit.vertex /\ x.end = route.exit.end)
RouteMillis(from, to, route, profile) ==
  IF route.shared THEN SameEdgeMillis(from, to, profile)
  ELSE FoldLeft(LAMBDA sum, step : sum + profile.cost[ArcSlot(step)].total,
                EntryUnder(from, route, profile).millis + ExitUnder(to, route, profile).millis, route.chain)
\* route_edges: edge, meters and milliseconds, the connectors taken out.
RouteEdges(from, to, route, profile) ==
  LET on == ConnectorMillis(profile, from)
      off == ConnectorMillis(profile, to)
  IN  IF route.shared THEN <<<<from.edge, Gap(from.at, to.at), SameEdgeMillis(from, to, profile) - on - off>>>>
      ELSE <<<<from.edge, Gap(from.at, route.entry.end), EntryUnder(from, route, profile).millis - on>>>>
           \o [i \in DOMAIN route.chain |->
                <<route.chain[i][2], Length(route.chain[i][2]), profile.cost[ArcSlot(route.chain[i])].total>>]
           \o <<<<to.edge, Gap(to.at, route.exit.end), ExitUnder(to, route, profile).millis - off>>>>
\* chain_meters and partial_meters
RouteMeters(from, to, route) ==
  IF route.shared THEN Gap(from.at, to.at)
  ELSE FoldLeft(LAMBDA sum, step : sum + Length(step[2]), 0, route.chain)
         + Gap(from.at, route.entry.end) + Gap(to.at, route.exit.end)

\* assemble_leg: a cell reports the true profile's clock, whichever profile
\* chose the route.
AssembleLeg(from, to, chosen, clock, millis, route) ==
  [millis |-> IF chosen = clock THEN millis ELSE RouteMillis(from, to, route, clock),
   perceived |-> millis,
   meters |-> RouteMeters(from, to, route),
   connectors |-> from.connector + to.connector,
   edges |-> RouteEdges(from, to, route, clock)]
Cell(from, to, chosen, clock, millis, s) ==
  AssembleLeg(from, to, chosen, clock, millis, WinningRoute(from, to, chosen, millis, s))

\* suffix_meters: the chain onwards from a vertex to the arrival it ends at.
RECURSIVE SuffixMeters(_, _, _)
SuffixMeters(s, seeds, v) ==
  IF s.previous[v] = NoPrevious
  THEN [meters |-> 0, end |-> FirstOf(seeds, LAMBDA x : x.vertex = v /\ x.millis = s.time[v]).end]
  ELSE LET rest == SuffixMeters(s, seeds, s.previous[v][1])
       IN  [rest EXCEPT !.meters = @ + Length(s.previous[v][2])]

----------------------------------------------------------------------------
(* Rows, columns and fields of snapped points.                            *)

Ridable(snap) == snap # Nothing
TimesIn(after, from, targets, profile, cutoff) ==
  [s |-> after,
   row |-> [i \in DOMAIN targets |->
             IF Ridable(targets[i]) THEN ArrivalMillis(from, targets[i], profile, cutoff, after) ELSE Far]]
TimesToSnaps(s, from, targets, profile, cutoff) ==
  TimesIn(DirectedDijkstra(s, profile, DirectedSeeds(from, profile), cutoff), from, targets, profile, cutoff)
\* legs_to_snaps_impl and meters_to_snaps_impl: an empty cell is no route.
CellOrNone(from, to, chosen, clock, millis, after) ==
  IF millis = Far THEN <<>> ELSE Cell(from, to, chosen, clock, millis, after)
CellsIn(after, from, targets, chosen, clock, cutoff) ==
  [s |-> after,
   row |-> [i \in DOMAIN targets |->
             IF ~Ridable(targets[i]) THEN <<>>
             ELSE CellOrNone(from, targets[i], chosen, clock, ArrivalMillis(from, targets[i], chosen, cutoff, after), after)]]
CellsToSnaps(s, from, targets, chosen, clock, cutoff) ==
  CellsIn(DirectedDijkstraWithPaths(s, chosen, DirectedSeeds(from, chosen), cutoff), from, targets, chosen, clock, cutoff)
\* Backwards, each source's best way onto the streets.
BestFrom(from, to, profile, after, cutoff) ==
  Best(SameEdgeMillis(from, to, profile), DirectedSeeds(from, profile), after, cutoff)
TimesOut(after, sources, to, profile, cutoff) ==
  [s |-> after,
   row |-> [i \in DOMAIN sources |->
             IF Ridable(sources[i]) THEN BestFrom(sources[i], to, profile, after, cutoff).millis ELSE Far]]
TimesFromSnaps(s, sources, to, profile, cutoff) ==
  TimesOut(DirectedDijkstraReverse(s, profile, DirectedEgress(to, profile), cutoff), sources, to, profile, cutoff)
MetersOn(from, to, end, suffix) == suffix.meters + Gap(from.at, end.end) + Gap(to.at, suffix.end)
MetersOf(from, to, profile, after, best) ==
  IF best.millis = Far THEN <<>>
  ELSE <<best.millis, IF best.end = Nothing THEN Gap(from.at, to.at)
                      ELSE MetersOn(from, to, best.end, SuffixMeters(after, DirectedEgress(to, profile), best.end.vertex))>>
MetersOut(after, sources, to, profile, cutoff) ==
  [s |-> after,
   row |-> [i \in DOMAIN sources |->
             IF Ridable(sources[i]) THEN MetersOf(sources[i], to, profile, after, BestFrom(sources[i], to, profile, after, cutoff))
             ELSE <<>>]]
MetersFromSnaps(s, sources, to, profile, cutoff) ==
  MetersOut(DirectedDijkstraReverseWithPaths(s, profile, DirectedEgress(to, profile), cutoff), sources, to, profile, cutoff)
\* directed_leg: the goal-directed search and its route.
LegOf(from, to, profile, goal) ==
  [s |-> goal.s, leg |-> CellOrNone(from, to, profile, profile, goal.best, goal.s)]
DirectedLeg(s, from, to, profile, cutoff) ==
  LegOf(from, to, profile, DirectedAstarWithPaths(s, profile, DirectedSeeds(from, profile), to, SameEdgeMillis(from, to, profile), cutoff))
DirectedTravelTime(s, from, to, profile, cutoff) ==
  DirectedAstar(s, profile, DirectedSeeds(from, profile), to, SameEdgeMillis(from, to, profile), cutoff)

\* directed_field: the seeds past their head starts; no seed, no search.
FieldSeedsOf(seeds, profile, cutoff) ==
  FlattenSeq([i \in DOMAIN seeds |->
    IF seeds[i].millis > cutoff \/ ~Ridable(seeds[i].snap) THEN <<>>
    ELSE LET ends == DirectedSeeds(seeds[i].snap, profile)
         IN  [k \in DOMAIN ends |-> [ends[k] EXCEPT !.millis = @ + seeds[i].millis]]])
LabelsOf(s) == [v \in s.touched |-> s.time[v]]
FieldIn(after) == [s |-> after, field |-> LabelsOf(after)]
DirectedField(s, seeds, profile, cutoff) ==
  LET weighted == FieldSeedsOf(seeds, profile, cutoff)
  IN  IF weighted = <<>> THEN [s |-> s, field |-> Empty] ELSE FieldIn(DirectedDijkstra(s, profile, weighted, cutoff))

\* directed_reached_vertices_meters: over the permitted slots, in the state
\* the walking searches use.
RECURSIVE SpreadPermitted(_, _, _, _)
SpreadPermitted(s, profile, most, heap) ==
  IF heap = {} THEN s
  ELSE LET top == First(heap)
           v == top[2]
           slots == {x \in ToSet(net.slots[v]) : x \in DOMAIN profile.cost}
           offer(u) == LeastOf({top[1] + Length(x[1]) : x \in {x \in slots : HeadOf(x) = u}})
           near == {u \in {HeadOf(x) : x \in slots} : offer(u) <= most /\ offer(u) < s.distance[u]}
       IN  IF top[1] > s.distance[v] THEN SpreadPermitted(s, profile, most, heap \ {top})
           ELSE SpreadPermitted([distance |-> [u \in Vertices |-> IF u \in near THEN offer(u) ELSE s.distance[u]],
                                 touched |-> s.touched \cup near],
                                profile, most, (heap \ {top}) \cup {<<offer(u), u>> : u \in near})
ReachedMeters(s, from, profile, most) ==
  LET edge == net.edges[from.edge]
      rest == edge.meters - from.at
      ends == (IF from.at = 0 \/ <<from.edge, 1>> \in DOMAIN profile.cost THEN {<<edge.from, from.connector + from.at>>} ELSE {})
              \cup (IF rest = 0 \/ <<from.edge, 0>> \in DOMAIN profile.cost THEN {<<edge.to, from.connector + rest>>} ELSE {})
      start == Seeded(ends, most)
      clean == Prepare(s)
  IN  SpreadPermitted([distance |-> start @@ clean.distance, touched |-> clean.touched \cup DOMAIN start],
                      profile, most, {<<start[v], v>> : v \in DOMAIN start})
=============================================================================
