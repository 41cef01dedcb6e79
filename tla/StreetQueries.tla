---------------------------- MODULE StreetQueries -----------------------------
(***************************************************************************)
(* The street queries of the bindings (cafein-py, streets.rs and           *)
(* network.rs): a street network routes between coordinates, a transport   *)
(* network over its multimodal streets to and from its stops.  Each query  *)
(* takes its profile from its network's cache, snaps by it, and leaves the *)
(* thread's labels to the next.                                            *)
(*                                                                         *)
(* One action is one query.  A coordinate is a point of the input, so two  *)
(* coordinates are equal when the points are.  Cutoffs are milliseconds    *)
(* and not negative, and times stay milliseconds until a stop's row rounds *)
(* them up.  input.stops gives each stop its point, 0 for one without      *)
(* coordinates; input.rounds[k] are the queries that may come k-th.        *)
(***************************************************************************)
EXTENDS DirectedStreets

CONSTANTS
  StopReach       \* MULTIMODAL_STOP_SNAP: how far a stop snaps

Seconds(millis) == IF millis = Far THEN Far ELSE Ceil(millis, 1000)
SnapsOf(seq, profile, allowance) == [i \in DOMAIN seq |-> SnapForProfile(net.points[seq[i]], profile, allowance)]
\* A point is no time and no distance from itself, where it snaps.
NoWay(snap) == [millis |-> 0, perceived |-> 0, meters |-> 0, connectors |-> 0, edges |-> <<>>]

----------------------------------------------------------------------------
(* What the street network is asked (streets.rs).                         *)

Due(kind) ==
  IF stage = "rides" /\ Len(rides) < Len(input.rounds)
  THEN {q \in input.rounds[Len(rides) + 1] : q.kind = kind} ELSE {}
OwnerOf(q) == IF q.kind \in {"time", "times", "costs", "reached"} THEN "street" ELSE "transit"
CompiledAt(owner, q) == CompiledFor(profiles[owner], q.mode, q.speeds)
ProfileAt(at) == at.cache[at.index].profile
Returned(q, owner, at, after, answered) ==
  /\ rides' = Append(rides, q) /\ found' = answered
  /\ profiles' = [profiles EXCEPT ![owner] = at.cache]
  /\ labels' = after
  /\ UNCHANGED <<graphVars, chVars, buckets, asked, answer, queries>>

\* travel_time: <<>> stands for an endpoint that does not snap.
TravelTime == \E q \in Due("time") : \E at \in {CompiledAt("street", q)} :
  \E ends \in {SnapsOf(<<q.from, q.to>>, ProfileAt(at), q.allowance)} :
  LET goal == DirectedTravelTime(labels, ends[1], ends[2], ProfileAt(at), q.cutoff)
  IN  /\ IF Nothing \in ToSet(ends) THEN Returned(q, "street", at, labels, <<>>)
         ELSE IF q.from = q.to THEN Returned(q, "street", at, labels, <<0>>)
         ELSE Returned(q, "street", at, goal.s, <<goal.best>>)
      /\ UNCHANGED state

\* travel_time_matrix (directed_matrix): row by row.
TimesRow(s, origin, from, q, targets, profile) ==
  LET row == TimesToSnaps(s, from, targets, profile, q.cutoff)
  IN  IF from = Nothing THEN [s |-> s, row |-> [i \in DOMAIN targets |-> Far]]
      ELSE [row EXCEPT !.row = [i \in DOMAIN @ |-> IF q.to[i] = origin /\ targets[i] # Nothing THEN 0 ELSE @[i]]]
TravelTimeMatrix == \E q \in Due("times") : \E at \in {CompiledAt("street", q)} :
  LET profile == ProfileAt(at)
      targets == SnapsOf(q.to, profile, q.allowance)
      all == FoldLeft(LAMBDA done, p :
                        LET one == TimesRow(done.s, p, SnapForProfile(net.points[p], profile, q.allowance), q, targets, profile)
                        IN  [s |-> one.s, rows |-> Append(done.rows, one.row)],
                      [s |-> labels, rows |-> <<>>], q.from)
  IN  Returned(q, "street", at, all.s, all.rows) /\ UNCHANGED state

\* cost_matrix: a weighted profile chooses the routes, the true one tells
\* their time, and the meters of a route are summed over the bins of its
\* edges, here the kinds.
CostsRow(s, origin, from, q, targets, chosen, profile) ==
  LET row == CellsToSnaps(s, from, targets, chosen, profile, q.cutoff)
  IN  IF from = Nothing THEN [s |-> s, row |-> [i \in DOMAIN targets |-> <<>>]]
      ELSE [row EXCEPT !.row = [i \in DOMAIN @ |-> IF q.to[i] = origin /\ targets[i] # Nothing THEN NoWay(from) ELSE @[i]]]
Binned(cell) ==
  [k \in DOMAIN Kinds |->
     FoldLeft(LAMBDA sum, edge : sum + IF net.edges[edge[1]].kind = k THEN edge[2] ELSE 0, 0, cell.edges)]
CostMatrix == \E q \in Due("costs") : \E at \in {CompiledAt("street", q)} :
  LET profile == ProfileAt(at)
      chosen == IF q.weights = <<>> THEN profile ELSE Weighted(profile, q.weights)
      targets == SnapsOf(q.to, profile, q.allowance)
      all == FoldLeft(LAMBDA done, p :
                        LET one == CostsRow(done.s, p, SnapForProfile(net.points[p], profile, q.allowance), q, targets, chosen, profile)
                        IN  [s |-> one.s, rows |-> Append(done.rows, one.row)],
                      [s |-> labels, rows |-> <<>>], q.from)
      binned == [i \in DOMAIN all.rows |-> [j \in DOMAIN all.rows[i] |->
                   IF all.rows[i][j] = <<>> THEN <<>> ELSE Binned(all.rows[i][j])]]
  IN  Returned(q, "street", at, all.s, [rows |-> all.rows, binned |-> binned]) /\ UNCHANGED state

\* _reached_vertices: by the clock, or in meters over the permitted streets.
ReachedVertices == \E q \in Due("reached") : \E at \in {CompiledAt("street", q)} :
  \E from \in {SnapForProfile(net.points[q.from], ProfileAt(at), q.allowance)} :
  LET profile == ProfileAt(at)
      timed == DirectedDijkstra(labels, profile, DirectedSeeds(from, profile), q.cutoff)
      spread == ReachedMeters(state, from, profile, q.cutoff)
  IN  IF from = Nothing THEN Returned(q, "street", at, labels, Empty) /\ UNCHANGED state
      ELSE IF q.axis = "time" THEN Returned(q, "street", at, timed, LabelsOf(timed)) /\ UNCHANGED state
      ELSE Returned(q, "street", at, labels, Arrived(spread)) /\ state' = spread

----------------------------------------------------------------------------
(* What the transport network is asked (network.rs).                      *)

\* multimodal_stop_links: a stop snaps once per mode, by the permission
\* alone, and for the wheelchair by its shipped profile.
SnapForModeBit(point, bit, allowance) ==
  LET usable == {e \in Edges : bit \in EdgeKind(e).access[1] \cup EdgeKind(e).access[2]}
      riding == Snap(point, {e \in usable : ~EdgeKind(e).dismount}, allowance)
  IN  IF bit \in {"bicycle", "e_scooter"} /\ riding # Nothing THEN riding ELSE Snap(point, usable, allowance)
StopLink(stop, bit) ==
  IF input.stops[stop] = 0 THEN Nothing
  ELSE LET point == net.points[input.stops[stop]]
       IN  IF bit = "wheelchair" THEN SnapForProfile(point, Compile(Shipped[bit]), StopReach)
           ELSE SnapForModeBit(point, bit, StopReach)
\* mode_link_targets: a stop whose link the profile cannot use snaps again.
LinkTarget(profile, stop, link) ==
  IF link = Nothing \/ EdgePermits(profile, link.edge) THEN link
  ELSE SnapForProfile(net.points[input.stops[stop]], profile, StopReach)
ModeLinkTargets(profile) ==
  Tabled([stop \in DOMAIN input.stops |-> LinkTarget(profile, stop, StopLink(stop, ModeBit(profile.definition.mode)))])

\* try_street_row: the times of the stops, with their links, rounded up; and
\* try_street_meters_row, by the searches that keep paths, with the meters
\* on the streets and those with the connectors.
StreetRow(s, q, profile, links, snap) ==
  IF q.egress THEN TimesFromSnaps(s, links, snap, profile, q.cutoff) ELSE TimesToSnaps(s, snap, links, profile, q.cutoff)
MetersRow(s, q, profile, links, snap) ==
  IF q.egress THEN MetersFromSnaps(s, links, snap, profile, q.cutoff)
  ELSE LET cells == CellsToSnaps(s, snap, links, profile, profile, q.cutoff)
       IN  [cells EXCEPT !.row = [i \in DOMAIN @ |-> IF @[i] = <<>> THEN <<>> ELSE <<@[i].millis, @[i].meters>>]]
TimeCell(millis) == IF millis = Far THEN <<>> ELSE <<Seconds(millis), 0, 0>>
MetersCell(cell, connectors) == IF cell = <<>> THEN <<>> ELSE <<Seconds(cell[1]), cell[2], cell[2] + connectors>>
\* A stop at the coordinate itself is no time away.
RowOf(q, links, snap, all) ==
  [s |-> all.s, snapped |-> TRUE, links |-> links,
   cells |-> [stop \in DOMAIN links |->
     IF links[stop] = Nothing THEN <<>>
     ELSE IF input.stops[stop] = q.from THEN <<0, 0, 0>>
     ELSE IF q.meters THEN MetersCell(all.row[stop], snap.connector + links[stop].connector)
     ELSE TimeCell(all.row[stop])]]
SnappedRow(s, q, profile, links, snap) ==
  IF snap = Nothing THEN [s |-> s, snapped |-> FALSE]
  ELSE RowOf(q, links, snap, IF q.meters THEN MetersRow(s, q, profile, links, snap) ELSE StreetRow(s, q, profile, links, snap))
RowTo(s, q, profile) == SnappedRow(s, q, profile, ModeLinkTargets(profile), SnapForProfile(net.points[q.from], profile, StopReach))

\* _street_access_seconds and _street_egress_seconds, and their meters.
StopRow == \E q \in Due("stops") : \E at \in {CompiledAt("transit", q)} : \E row \in {RowTo(labels, q, ProfileAt(at))} :
  /\ Returned(q, "transit", at, row.s, IF row.snapped THEN <<row.cells>> ELSE <<>>)
  /\ UNCHANGED state

\* _multimodal_direct_leg, and _multimodal_leg to or from a stop's link.
DirectLeg == \E q \in Due("leg") : \E at \in {CompiledAt("transit", q)} :
  \E ends \in {SnapsOf(<<q.from, q.to>>, ProfileAt(at), StopReach)} :
  /\ IF Nothing \in ToSet(ends) THEN Returned(q, "transit", at, labels, <<>>)
     ELSE IF q.from = q.to THEN Returned(q, "transit", at, labels, NoWay(ends[1]))
     ELSE \E goal \in {DirectedLeg(labels, ends[1], ends[2], ProfileAt(at), q.cutoff)} : Returned(q, "transit", at, goal.s, goal.leg)
  /\ UNCHANGED state
StopLeg == \E q \in Due("stop leg") : \E at \in {CompiledAt("transit", q)} :
  \E link \in {ModeLinkTargets(ProfileAt(at))[q.stop]}, snap \in {SnapForProfile(net.points[q.from], ProfileAt(at), StopReach)} :
  /\ IF Nothing \in {link, snap} THEN Returned(q, "transit", at, labels, <<>>)
     ELSE IF input.stops[q.stop] = q.from THEN Returned(q, "transit", at, labels, NoWay(snap))
     ELSE \E ends \in {IF q.egress THEN <<link, snap>> ELSE <<snap, link>>} :
          \E goal \in {DirectedLeg(labels, ends[1], ends[2], ProfileAt(at), q.cutoff)} : Returned(q, "transit", at, goal.s, goal.leg)
  /\ UNCHANGED state

\* _catchment_directed_field: from the origin and the stops past their head
\* starts.
RideField == \E q \in Due("field") : \E at \in {CompiledAt("transit", q)} :
  LET profile == ProfileAt(at)
      links == ModeLinkTargets(profile)
      origin == [snap |-> SnapForProfile(net.points[q.from], profile, q.allowance), millis |-> 0]
      seeds == <<origin>> \o [i \in DOMAIN q.seeds |-> [snap |-> links[q.seeds[i][1]], millis |-> q.seeds[i][2]]]
      spread == DirectedField(labels, seeds, profile, q.cutoff)
  IN  Returned(q, "transit", at, spread.s, spread.field) /\ UNCHANGED state

RideStep ==
  \/ TravelTime \/ TravelTimeMatrix \/ CostMatrix \/ ReachedVertices
  \/ StopRow \/ DirectLeg \/ StopLeg \/ RideField

----------------------------------------------------------------------------
(* The reference: shortest times by relaxing through every vertex, over    *)
(* a profile compiled afresh.                                             *)

Latest == rides[Len(rides)]
Fitting(q) == Compile(ProfileDefinition(q.mode, q.speeds))
LeastMillis(profile) ==
  Shortest(net.vertices,
    [p \in Vertices \X Vertices |->
       LeastOf({Far} \cup {profile.cost[x].total : x \in {x \in DOMAIN profile.cost : TailOf(x) = p[1] /\ HeadOf(x) = p[2]}})])
LeastFrom(d, seeds) ==
  Tabled([v \in Vertices |-> LeastOf({Far} \cup {seeds[i].millis + d[<<seeds[i].vertex, v>>] : i \in DOMAIN seeds})])
RideBetween(d, from, to, profile, cutoff) ==
  LET there == LeastFrom(d, DirectedSeeds(from, profile))
      ends == DirectedEgress(to, profile)
  IN  Within(LeastOf({SameEdgeMillis(from, to, profile)} \cup {there[ends[i].vertex] + ends[i].millis : i \in DOMAIN ends}),
             cutoff)
\* What two points, snapped or not, are apart.
Apart(d, p, r, a, b, profile, cutoff) ==
  IF Nothing \in {a, b} THEN Far ELSE IF p = r THEN 0 ELSE RideBetween(d, a, b, profile, cutoff)
Total(edges, part) == FoldLeft(LAMBDA sum, edge : sum + edge[part], 0, edges)

\* A cell is the least ride; its edges and connectors make up its time, and
\* its edges its meters.
CellRight(cell, least, from, to, profile) ==
  IF least = Far THEN cell = <<>>
  ELSE /\ cell # <<>>
       /\ cell.perceived = least
       /\ cell.millis <= cell.perceived
       /\ Total(cell.edges, 2) = cell.meters
       /\ cell.edges # <<>> =>
            Total(cell.edges, 3) + ConnectorMillis(profile, from) + ConnectorMillis(profile, to) = cell.millis

\* The points of the town as they snap for a query.
SnapsFor(q, profile) ==
  Tabled([p \in DOMAIN net.points |->
            SnapForProfile(net.points[p], profile, IF "allowance" \in DOMAIN q THEN q.allowance ELSE StopReach)])
\* What the last query should have found, from the points as they snap, the
\* links of the stops and the distances between the vertices.
TimesRight(q, least(_, _), snap) ==
  /\ q.kind = "time" => found = IF Nothing \in {snap[q.from], snap[q.to]} THEN <<>> ELSE <<least(q.from, q.to)>>
  /\ q.kind = "times" => found = [i \in DOMAIN q.from |-> [j \in DOMAIN q.to |-> least(q.from[i], q.to[j])]]
CostsRight(q, profile, chosen, d, snap) ==
  \A i \in DOMAIN q.from, j \in DOMAIN q.to : \A a \in {snap[q.from[i]]}, b \in {snap[q.to[j]]}, cell \in {found.rows[i][j]} :
    /\ CellRight(cell, Apart(d, q.from[i], q.to[j], a, b, chosen, q.cutoff), a, b, profile)
    /\ (cell # <<>> /\ q.weights = <<>>) => cell.millis = cell.perceived
    /\ cell # <<>> => FoldLeft(LAMBDA sum, m : sum + m, 0, found.binned[i][j]) = cell.meters
StopsRight(q, toStop(_), snap) ==
  IF snap[q.from] = Nothing THEN found = <<>>
  ELSE \A stop \in DOMAIN input.stops : \A time \in {toStop(stop)}, cell \in {found[1][stop]} :
         IF time = Far THEN cell = <<>> ELSE cell # <<>> /\ cell[1] = Seconds(time)
FieldRight(q, profile, d, snap, link) ==
  LET seeds == <<<<snap[q.from], 0>>>> \o [i \in DOMAIN q.seeds |-> <<link[q.seeds[i][1]], q.seeds[i][2]>>]
      from(i) == IF seeds[i][1] = Nothing THEN [v \in Vertices |-> Far] ELSE LeastFrom(d, DirectedSeeds(seeds[i][1], profile))
      time == Tabled([v \in Vertices |-> LeastOf({from(i)[v] + seeds[i][2] : i \in DOMAIN seeds})])
  IN  found = [v \in {v \in Vertices : time[v] <= q.cutoff} |-> time[v]]
\* In reach of a snapped point by the clock, or in meters over the permitted
\* streets whatever they cost.
ReachedRight(q, profile, d, from) ==
  LET edge == net.edges[from.edge]
      rest == edge.meters - from.at
      walked == [profile EXCEPT !.cost = [x \in DOMAIN @ |-> [total |-> Length(x[1])]]]
      far == LeastMillis(walked)
      open(slot, meters) == meters = 0 \/ slot \in DOMAIN profile.cost
      starts == (IF open(<<from.edge, 1>>, from.at) THEN {<<edge.from, from.at>>} ELSE {})
                \cup (IF open(<<from.edge, 0>>, rest) THEN {<<edge.to, rest>>} ELSE {})
      meters(v) == LeastOf({Far} \cup {from.connector + x[2] + far[<<x[1], v>>] : x \in starts})
      there == IF q.axis = "time" THEN LeastFrom(d, DirectedSeeds(from, profile)) ELSE [v \in Vertices |-> meters(v)]
  IN  found = [v \in {v \in Vertices : there[v] <= q.cutoff} |-> there[v]]

RideRight(q, profile, d, snap, link) ==
  LET least(p, r) == Apart(d, p, r, snap[p], snap[r], profile, q.cutoff)
      toStop(stop) ==
        IF q.egress THEN Apart(d, input.stops[stop], q.from, link[stop], snap[q.from], profile, q.cutoff)
        ELSE Apart(d, q.from, input.stops[stop], snap[q.from], link[stop], profile, q.cutoff)
  IN  /\ TimesRight(q, least, snap)
      /\ q.kind = "costs" /\ q.weights = <<>> => CostsRight(q, profile, profile, d, snap)
      /\ q.kind = "costs" /\ q.weights # <<>> =>
           \A chosen \in {Weighted(profile, q.weights)} : CostsRight(q, profile, chosen, LeastMillis(chosen), snap)
      /\ q.kind = "leg" => CellRight(found, least(q.from, q.to), snap[q.from], snap[q.to], profile)
      /\ q.kind = "stop leg" => CellRight(found, toStop(q.stop), snap[q.from], link[q.stop], profile)
      /\ q.kind = "stops" => StopsRight(q, toStop, snap)
      /\ q.kind = "field" => FieldRight(q, profile, d, snap, link)
      /\ q.kind = "reached" /\ snap[q.from] # Nothing => ReachedRight(q, profile, d, snap[q.from])

(* Every ride a thread answers is the shortest under the asked profile,    *)
(* compiled afresh: forwards, backwards or towards a goal, singly or in a  *)
(* row, whatever was asked before and whatever the cache had to give up;   *)
(* a weighted route costs the least as perceived and no more by the clock, *)
(* its time and its meters are those of its edges, and a field holds       *)
(* every vertex in reach.                                                  *)
RidesExact ==
  (rides # <<>> /\ Latest.kind \notin {"policy", "compute"}) =>
    \A profile \in {Fitting(Latest)} :
      RideRight(Latest, profile, LeastMillis(profile), SnapsFor(Latest, profile), ModeLinkTargets(profile))

\* The labels a search of the whole graph leaves, each vertex with the least
\* of its predecessors that cost something.
PureLabels(profile, seeds) ==
  LET time == LeastFrom(LeastMillis(profile), seeds)
      before(v) == {<<TailOf(x), x[1]>> : x \in {x \in DOMAIN profile.cost :
                      /\ HeadOf(x) = v /\ profile.cost[x].total > 0
                      /\ time[v] < Far /\ time[TailOf(x)] + profile.cost[x].total = time[v]}}
  IN  [time |-> time, previous |-> [v \in Vertices |-> IF before(v) = {} THEN NoPrevious ELSE First(before(v))]]
PureCell(from, to, chosen, clock, cutoff) ==
  LET s == PureLabels(chosen, DirectedSeeds(from, chosen))
      millis == ArrivalMillis(from, to, chosen, cutoff, s)
  IN  IF millis = Far THEN <<>> ELSE Cell(from, to, chosen, clock, millis, s)

(* A route is a function of the graph and the profile: the same edges,     *)
(* whichever search finds them, however far it looks, and whatever a       *)
(* search before it left in the thread's labels.                           *)
RoutesPure ==
  (rides # <<>> /\ Latest.kind \in {"leg", "costs"}) =>
    \A q \in {Latest} : \A profile \in {Fitting(q)} : \A snap \in {SnapsFor(q, profile)} :
      LET weighted == q.kind = "costs" /\ q.weights # <<>>
          chosen == IF weighted THEN Weighted(profile, q.weights) ELSE profile
          pure(p, r) ==
            IF Nothing \in {snap[p], snap[r]} THEN <<>>
            ELSE IF p = r THEN NoWay(snap[p]) ELSE PureCell(snap[p], snap[r], chosen, profile, q.cutoff)
      IN  IF q.kind = "leg" THEN found = pure(q.from, q.to)
          ELSE \A i \in DOMAIN q.from, j \in DOMAIN q.to : found.rows[i][j] = pure(q.from[i], q.to[j])

\* The definitions a cache was asked for, in their order, each with whether
\* it is a caller's own.
AskedOf(owner) ==
  LET asks == SelectSeq(rides, LAMBDA q : OwnerOf(q) = owner)
      each(q) == IF "modes" \in DOMAIN q THEN [k \in DOMAIN q.modes |-> q.modes[k].mode] ELSE <<q.mode>>
      of(q) == [k \in DOMAIN each(q) |-> <<ProfileDefinition(each(q)[k], q.speeds),
                                           ProfileDefinition(each(q)[k], q.speeds) # ProfileDefinition(each(q)[k], NoSpeeds)>>]
  IN  FlattenSeq([i \in DOMAIN asks |-> of(asks[i])])

(* A cache keeps each profile once, the shipped ones asked for always and  *)
(* of the callers' own the latest used, compiled as asked; so a caller     *)
(* that alternates between a few speeds never compiles again.              *)
ProfilesLatest ==
  \A owner \in DOMAIN profiles :
    LET cache == profiles[owner]
        asks == AskedOf(owner)
        latest == FoldLeft(LAMBDA s, x : IF x[1] \in ToSet(s) \/ ~x[2] THEN s ELSE Append(s, x[1]), <<>>, Reverse(asks))
        own == {i \in DOMAIN cache : cache[i].overridden}
    IN  /\ \A i, j \in DOMAIN cache : cache[i].profile.definition = cache[j].profile.definition => i = j
        /\ \A i \in DOMAIN cache : cache[i].profile = Compile(cache[i].profile.definition)
        /\ {cache[i].profile.definition : i \in own} = {latest[k] : k \in 1 .. LowerOf(OverrideProfiles, Len(latest))}
        /\ {cache[i].profile.definition : i \in DOMAIN cache \ own} = {x[1] : x \in {x \in ToSet(asks) : ~x[2]}}
=============================================================================
