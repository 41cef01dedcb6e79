---------------------------- MODULE StreetWalks -----------------------------
(***************************************************************************)
(* The walking searches (cafein-core, streets/search.rs): the stops within *)
(* reach of a point, the transfers between stops, points linked from the   *)
(* stops' side, direct walks and the fields of a catchment.  A thread's    *)
(* search state is kept from one query to the next, and a hierarchy, once  *)
(* installed, answers for it where its buckets reach.                      *)
(*                                                                         *)
(* One action is one query; a query's searches run in one thread here, one *)
(* after another.  A speed is whole meters a second, and a walk is told by *)
(* its meters: the seconds are those over the speed, rounded up.           *)
(***************************************************************************)
EXTENDS ContractionHierarchy

CONSTANTS
  Walks,          \* the walks asked for: speed, seconds and snap allowance
  FieldSeeds,     \* the seeds of the fields: stop, key, rides and slack
  MaxQueries      \* how many queries a thread answers

VARIABLES
  buckets,        \* the stop-side buckets of the installed hierarchy
  state,          \* the thread's search state: distance of each vertex, touched
  asked, answer,  \* the last query and what it returned
  queries         \* how many there were

walkVars == <<buckets, state, asked, answer, queries>>

Fresh == [distance |-> [v \in Vertices |-> Far], touched |-> {}]
Cutoff(walk) == walk.seconds * walk.speed

----------------------------------------------------------------------------
(* The bounded search (search.rs:31-66, paths.rs:272-305).                *)

\* prepare: only what the last search wrote is reset.
Prepared(s) == [distance |-> [v \in Vertices |-> IF v \in s.touched THEN Far ELSE s.distance[v]], touched |-> {}]
\* Mutant: a search starts from what the last one left.
PreparedNever(s) == s
Prepare(s) == Prepared(s)

RECURSIVE Spread(_, _, _)
Spread(s, cutoff, heap) ==
  IF heap = {} THEN s
  ELSE LET top == First(heap)
           v == top[2]
           offer(u) == LeastOf({top[1] + Length(x[1]) : x \in {x \in ToSet(net.slots[v]) : HeadOf(x) = u}})
           near == {u \in {HeadOf(x) : x \in ToSet(net.slots[v])} : offer(u) <= cutoff /\ offer(u) < s.distance[u]}
       IN  IF top[1] > s.distance[v] THEN Spread(s, cutoff, heap \ {top})
           ELSE Spread([distance |-> [u \in Vertices |-> IF u \in near THEN offer(u) ELSE s.distance[u]],
                        touched |-> s.touched \cup near],
                       cutoff, (heap \ {top}) \cup {<<offer(u), u>> : u \in near})
\* bounded_dijkstra from the seeds, in the thread's state.
BoundedDijkstra(s, seeds, cutoff) ==
  LET clean == Prepare(s)
      dist == Seeded(seeds, cutoff)
      first == {v \in DOMAIN dist : dist[v] < clean.distance[v]}
  IN  Spread([distance |-> [v \in Vertices |-> IF v \in first THEN dist[v] ELSE clean.distance[v]],
              touched |-> clean.touched \cup first],
             cutoff, {<<dist[v], v>> : v \in first})

----------------------------------------------------------------------------
(* Stops in reach of a point (search.rs:170-205, 381-448).                *)

\* The direct walk between two places of one edge.
OnEdge(a, b) == a.connector + (IF a.at <= b.at THEN b.at - a.at ELSE a.at - b.at) + b.connector
LinkSnap(l) == [edge |-> net.links[l].edge, at |-> net.links[l].at, connector |-> net.links[l].connector]

\* links_at: the links of the edges that touch a vertex.
LinksAt(v) == {l \in DOMAIN net.links : v \in {net.edges[net.links[l].edge].from, net.edges[net.links[l].edge].to}}
\* link_join: of each stop the least walk over its links within the cutoff,
\* the links being those at reached vertices and on the sources' edges.
LinkJoin(snaps, cutoff, reached) ==
  LET candidates == UNION {LinksAt(v) : v \in DOMAIN reached \cup {end[1] : end \in SeedsOf(snaps)}}
      byVertex(l) == {reached[end[1]] + end[2] : end \in {end \in Ends(LinkSnap(l)) : end[1] \in DOMAIN reached}}
      direct(l) == {OnEdge(s, LinkSnap(l)) : s \in {s \in snaps : s.edge = net.links[l].edge}}
      walks == UNION {{<<net.links[l].stop, m>> : m \in byVertex(l) \cup direct(l)} : l \in candidates}
  IN  Seeded(walks, cutoff)

\* reachable_from_snaps: over the hierarchy when there is one.
Arrived(s) == [v \in s.touched |-> s.distance[v]]
ReachableFromSnaps(s, snaps, cutoff) ==
  IF hierarchy # <<>>
  THEN [state |-> s, walks |-> LinkJoin(snaps, cutoff, OneToMany(hierarchy, buckets, SeedsOf(snaps), cutoff))]
  ELSE LET after == BoundedDijkstra(s, SeedsOf(snaps), cutoff)
       IN  [state |-> after, walks |-> LinkJoin(snaps, cutoff, Arrived(after))]

\* access_stops: <<>> stands for a point that does not snap.
AccessStops(s, point, walk) ==
  LET snap == Snap(net.points[point], Edges, walk.allowance)
  IN  IF snap = Nothing THEN [state |-> s, walks |-> <<>>]
      ELSE ReachableFromSnaps(s, {snap}, Cutoff(walk))

WithLinks(done, one) == [state |-> one.state, linked |-> Append(done.linked, one.walks)]
\* link_many: the points one after another.
LinkMany(s, points, walk) ==
  FoldLeft(LAMBDA done, p : WithLinks(done, AccessStops(done.state, p, walk)), [state |-> s, linked |-> <<>>], points)

\* stop_transfers: one search per linked stop, from all its links at once.
TransfersWith(done, stop, one) ==
  [state |-> one.state,
   transfers |-> done.transfers \cup {<<stop, to, one.walks[to]>> : to \in DOMAIN one.walks \ {stop}}]
StopTransfers(s, walk) ==
  FoldLeft(LAMBDA done, stop : TransfersWith(done, stop, ReachableFromSnaps(done.state, StopSnaps(stop), Cutoff(walk))),
           [state |-> s, transfers |-> {}], InOrder(LinkedStops, <))

----------------------------------------------------------------------------
(* Points linked from the stops (search.rs:680-884).                      *)

\* pointset_join: the walks from a stop's search to each snapped point,
\* through the point's own vertices or along a shared edge.
PointsetJoin(reached, snaps, points, cutoff) ==
  LET through(p) == {reached[end[1]] + end[2] : end \in {end \in Ends(points[p]) : end[1] \in DOMAIN reached}}
      along(p) == {OnEdge(points[p], s) : s \in {s \in snaps : s.edge = points[p].edge}}
      snapped == {p \in DOMAIN points : points[p] # Nothing}
  IN  Seeded(UNION {{<<p, m>> : m \in through(p) \cup along(p)} : p \in snapped}, cutoff)

\* is_symmetric: every slot has its way back, as long.
IsSymmetric == \A v \in Vertices : \A x \in ToSet(net.slots[v]) :
                 \E y \in ToSet(net.slots[HeadOf(x)]) : HeadOf(y) = v /\ Length(y[1]) = Length(x[1])

\* link_pointsets: from the stops when there are no more of them than
\* points, else point by point; always over the graph, as the buckets
\* hold the stops' vertices and not the points'.
LinkPointsets(s, points, walk) ==
  IF ~IsSymmetric \/ Len(points) < Cardinality(LinkedStops) THEN LinkMany(s, points, walk)
  ELSE LET snaps == [i \in DOMAIN points |-> Snap(net.points[points[i]], Edges, walk.allowance)]
           done == FoldLeft(LAMBDA d, stop :
                              LET after == BoundedDijkstra(d.state, SeedsOf(StopSnaps(stop)), Cutoff(walk))
                              IN  [state |-> after,
                                   reached |-> (stop :> PointsetJoin(Arrived(after), StopSnaps(stop), snaps, Cutoff(walk)))
                                               @@ d.reached],
                            [state |-> s, reached |-> Empty], InOrder(LinkedStops, <))
       IN  [state |-> done.state,
            linked |-> [i \in DOMAIN points |->
              IF snaps[i] = Nothing THEN <<>>
              ELSE [stop \in {t \in LinkedStops : i \in DOMAIN done.reached[t]} |-> done.reached[stop][i]]]]

----------------------------------------------------------------------------
(* Direct walks and fields (search.rs:207-366, 540-630).                  *)

\* walk_to_snaps: the meters to each target, Far for none.
WalkToSnaps(s, from, targets, walk) ==
  LET after == BoundedDijkstra(s, Ends(from), Cutoff(walk))
      meters(to) == LeastOf({after.distance[end[1]] + end[2] : end \in Ends(to)}
                            \cup IF to.edge = from.edge THEN {OnEdge(from, to)} ELSE {})
  IN  [state |-> after,
       row |-> [i \in DOMAIN targets |->
                 IF targets[i] = Nothing \/ meters(targets[i]) > Cutoff(walk) THEN Far ELSE meters(targets[i])]]

\* walk_matrix: a row per origin; a point is no walk from itself.
WalkRow(s, origin, points, walk) ==
  LET from == Snap(net.points[origin], Edges, walk.allowance)
      targets == [i \in DOMAIN points |-> Snap(net.points[points[i]], Edges, walk.allowance)]
      walked == WalkToSnaps(s, from, targets, walk)
  IN  IF from = Nothing THEN [state |-> s, row |-> [i \in DOMAIN points |-> Far]]
      ELSE [walked EXCEPT !.row = [i \in DOMAIN points |-> IF points[i] = origin /\ targets[i] # Nothing THEN 0 ELSE @[i]]]

\* The vertices of the seeded stops' links, past each seed's head start.
Started(seeds, walk) ==
  UNION {{<<end[1], x.key * walk.speed + end[2], x>> : end \in SeedsOf(StopSnaps(x.stop))} :
           x \in {x \in seeds : x.key * walk.speed <= Cutoff(walk)}}
\* walk_field: meters per vertex, over the graph always.
WalkField(s, seeds, walk) ==
  LET weighted == {<<x[1], x[2]>> : x \in Started(seeds, walk)}
      after == BoundedDijkstra(s, weighted, Cutoff(walk))
  IN  IF weighted = {} THEN [state |-> s, field |-> Empty]
      ELSE [state |-> after, field |-> Arrived(after)]

\* The order of arrive-by labels <<key, rides, -slack>>: the least key,
\* then fewest rides, then the most slack.
WinsInFull(a, b) == Precedes(a, b)
Wins(a, b) == WinsInFull(a, b)
RECURSIVE Label(_, _, _)
Label(best, cutoff, heap) ==
  IF heap = {} THEN best
  ELSE LET top == First(heap)
           label == SubSeq(top, 1, 3)
           v == top[4]
           offer(x) == [label EXCEPT ![1] = @ + Length(x[1])]
           relaxed == FoldLeft(LAMBDA d, x :
                         IF offer(x)[1] <= cutoff /\ (HeadOf(x) \in DOMAIN d.best => Wins(offer(x), d.best[HeadOf(x)]))
                         THEN [best |-> (HeadOf(x) :> offer(x)) @@ d.best,
                               heap |-> d.heap \cup {Append(offer(x), HeadOf(x))}]
                         ELSE d,
                       [best |-> best, heap |-> heap \ {top}], net.slots[v])
       IN  IF best[v] # label THEN Label(best, cutoff, heap \ {top})
           ELSE Label(relaxed.best, cutoff, relaxed.heap)
\* arrive_by_walk_field: its own labels, not the thread's state.
ArriveByWalkField(seeds, walk) ==
  LET weighted == InOrder({<<x[1], x[2], x[3].rides, 0 - x[3].slack>> : x \in Started(seeds, walk)}, Precedes)
      begun == FoldLeft(LAMBDA d, w :
                 LET label == SubSeq(w, 2, 4)
                 IN  IF label[1] <= Cutoff(walk) /\ (w[1] \in DOMAIN d.best => Wins(label, d.best[w[1]]))
                     THEN [best |-> (w[1] :> label) @@ d.best, heap |-> d.heap \cup {Append(label, w[1])}]
                     ELSE d,
                 [best |-> Empty, heap |-> {}], weighted)
  IN  Label(begun.best, Cutoff(walk), begun.heap)

----------------------------------------------------------------------------
(* The queries a thread answers.                                          *)

Ready == stage = "ready" /\ queries < MaxQueries
Returns(query, result, s) ==
  /\ asked' = query /\ answer' = result /\ state' = s
  /\ queries' = queries + 1
  /\ UNCHANGED <<graphVars, chVars, buckets>>

\* install_hierarchy: the contraction, and buckets for the links' vertices.
Install ==
  /\ FinishContraction
  /\ buckets' = Buckets(hierarchy', {end[1] : end \in SeedsOf({LinkSnap(l) : l \in DOMAIN net.links})}, Far)
  /\ state' = Fresh
  /\ UNCHANGED <<asked, answer, queries>>

AllPoints == [i \in DOMAIN net.points |-> i]
AskAccess == Ready /\ \E p \in DOMAIN net.points, walk \in Walks : \E one \in {AccessStops(state, p, walk)} :
  Returns([kind |-> "access", points |-> <<p>>, walk |-> walk], <<one.walks>>, one.state)
AskTransfers == Ready /\ net.links # <<>> /\ \E walk \in Walks : \E all \in {StopTransfers(state, walk)} :
  Returns([kind |-> "transfers", walk |-> walk], all.transfers, all.state)
AskLinked == Ready /\ \E walk \in Walks, k \in DOMAIN net.points :
  \E points \in {[i \in 1 .. k |-> i]} : \E all \in {LinkPointsets(state, points, walk)} :
    Returns([kind |-> "linked", points |-> points, walk |-> walk], all.linked, all.state)
AskRow == Ready /\ \E p \in DOMAIN net.points, walk \in Walks : \E all \in {WalkRow(state, p, AllPoints, walk)} :
  Returns([kind |-> "row", origin |-> p, points |-> AllPoints, walk |-> walk], all.row, all.state)
AskField == Ready /\ \E seeds \in FieldSeeds, walk \in Walks : \E all \in {WalkField(state, seeds, walk)} :
  Returns([kind |-> "field", seeds |-> seeds, walk |-> walk], all.field, all.state)
AskArriveBy == Ready /\ \E seeds \in FieldSeeds, walk \in Walks :
  Returns([kind |-> "arrive by", seeds |-> seeds, walk |-> walk], ArriveByWalkField(seeds, walk), state)

\* The thread's state starts with the network: the build of one ends there.
BuildStreets ==
  /\ Build
  /\ state' = IF stage' \in {"ready", "rides"} THEN [distance |-> [v \in 1 .. net'.vertices |-> Far], touched |-> {}] ELSE state
  /\ UNCHANGED <<chVars, buckets, asked, answer, queries>>

WalkStep ==
  \/ BuildStreets
  \/ (StartContraction \/ Requeue \/ Contract) /\ UNCHANGED walkVars
  \/ Install
  \/ AskAccess \/ AskTransfers \/ AskLinked \/ AskRow \/ AskField \/ AskArriveBy

WalkInit ==
  /\ input \in Inputs /\ stage = "build" /\ net = <<>>
  /\ ContractionInit
  /\ buckets = Empty /\ state = <<>> /\ asked = <<>> /\ answer = <<>> /\ queries = 0

----------------------------------------------------------------------------
(* Properties.                                                            *)

Exact == Shortest(net.vertices, StreetMeters)
\* The walk between two snapped places.
WalkBetween(d, a, b) ==
  LeastOf({x[2] + d[<<x[1], y[1]>>] + y[2] : <<x, y>> \in Ends(a) \X Ends(b)}
          \cup IF a.edge = b.edge THEN {OnEdge(a, b)} ELSE {})
WalkToStop(d, snaps, stop) == LeastOf({WalkBetween(d, a, b) : <<a, b>> \in snaps \X StopSnaps(stop)})
StopsWithin(d, snaps, cutoff) ==
  LET near == {stop \in LinkedStops : WalkToStop(d, snaps, stop) <= cutoff}
  IN  [stop \in near |-> WalkToStop(d, snaps, stop)]
NearestEdge(p, allowance) ==
  LET near == {e \in Edges : net.points[p][e].connector <= allowance}
      key(e) == <<net.points[p][e].connector, e>>
      best == CHOOSE e \in near : \A f \in near \ {e} : Precedes(key(e), key(f))
  IN  IF near = {} THEN Nothing
      ELSE [edge |-> best, at |-> net.points[p][best].at, connector |-> net.points[p][best].connector]

(* Every walk a thread answers is the shortest one over the streets,       *)
(* whatever it answered before, over the graph or over a hierarchy, from   *)
(* the point's side or from the stops': the same stops in reach, the same  *)
(* meters, and a point that does not snap has none.                        *)
WalksShortest ==
  (asked # <<>> /\ asked.kind # "arrive by") =>
    LET d == Exact
        cutoff == Cutoff(asked.walk)
        snap(p) == NearestEdge(p, asked.walk.allowance)
        stopsOf(p) == IF snap(p) = Nothing THEN <<>> ELSE StopsWithin(d, {snap(p)}, cutoff)
        between(p, r) == IF snap(p) = Nothing \/ snap(r) = Nothing THEN Far
                         ELSE IF p = r THEN 0
                         ELSE LET m == WalkBetween(d, snap(p), snap(r)) IN IF m > cutoff THEN Far ELSE m
        fieldAt(v) == LeastOf({Far} \cup {x[2] + d[<<x[1], v>>] : x \in Started(asked.seeds, asked.walk)})
    IN  /\ asked.kind \in {"access", "linked"} => answer = [i \in DOMAIN asked.points |-> stopsOf(asked.points[i])]
        /\ asked.kind = "transfers" =>
             answer = UNION {LET near == StopsWithin(d, StopSnaps(s), cutoff)
                             IN  {<<s, t, near[t]>> : t \in DOMAIN near \ {s}} : s \in LinkedStops}
        /\ asked.kind = "row" => answer = [i \in DOMAIN asked.points |-> between(asked.origin, asked.points[i])]
        /\ asked.kind = "field" =>
             answer = [v \in {u \in Vertices : fieldAt(u) <= cutoff} |-> fieldAt(v)]

(* An arrive-by field gives each vertex in reach the best of all journeys  *)
(* that could end there: no seed that leaves later, or as late with fewer  *)
(* rides, or as late with as few and more slack, is lost to one that was   *)
(* nearer when the search met them.                                        *)
CatchmentWinners ==
  (asked # <<>> /\ asked.kind = "arrive by") =>
    LET d == Exact
        offers(v) == {<<x[2] + d[<<x[1], v>>], x[3].rides, 0 - x[3].slack>> : x \in Started(asked.seeds, asked.walk)}
        within(v) == {o \in offers(v) : o[1] <= Cutoff(asked.walk)}
    IN  answer = [v \in {u \in Vertices : within(u) # {}} |-> First(within(v))]

(* Every answer of a thread is the exact one, walks and catchments alike:  *)
(* the space it searches in carries nothing over from the ones before.     *)
WalksExact == WalksShortest /\ CatchmentWinners
=============================================================================
