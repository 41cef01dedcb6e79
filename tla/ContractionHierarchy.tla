------------------------ MODULE ContractionHierarchy ------------------------
(***************************************************************************)
(* The contraction hierarchy over the walking graph (cafein-core, ch.rs):  *)
(* vertices are contracted one after another, shortcuts keep the distances *)
(* among those that remain, and queries climb the kept upward edges only.  *)
(*                                                                         *)
(* An action is one pop of the build's queue: a vertex whose importance    *)
(* has grown goes back, any other is contracted.  A neighbour list is a    *)
(* function of the neighbours, as parallel edges collapse to the shortest. *)
(***************************************************************************)
EXTENDS StreetGraph

CONSTANT WitnessSettleLimit     \* a witness search gives up when it has settled so many

VARIABLES
  adjacency,    \* adjacency[v][u]: the live edge between v and u, [meters, middle]
  contracted,   \* the vertices contracted so far
  neighbours,   \* how many neighbours of a vertex have been contracted
  queue,        \* the <<priority, vertex>> that wait
  rank, up,     \* the order of contraction, and the edges a vertex had then
  hierarchy     \* the finished one, or <<>>

chVars == <<adjacency, contracted, neighbours, queue, rank, up, hierarchy>>

Original == net.vertices + 1     \* the middle of a street; past every vertex
Empty == [v \in {} |-> 0]

----------------------------------------------------------------------------
(* The contraction (ch.rs:94-246).                                        *)

\* insert_edge: the shorter of two edges, of equal ones the lower middle.
InsertEdge(list, v, meters, middle) ==
  IF v \in DOMAIN list /\ ~Precedes(<<meters, middle>>, <<list[v].meters, list[v].middle>>) THEN list
  ELSE (v :> [meters |-> meters, middle |-> middle]) @@ list

Streets == [v \in Vertices |->
  FoldLeft(LAMBDA list, s : InsertEdge(list, HeadOf(s), Length(s[1]), Original), Empty, net.slots[v])]

\* A search that has settled its limit says there is no witness.
\* Mutant: it takes the witness for granted.
GrantedUp == TRUE
GivenUp == FALSE
\* has_witness: a search from s for t, over what is not contracted.  Of a
\* pair it starts at the lower vertex here and at the one listed first in
\* the code, which only tells when a search is cut short.
RECURSIVE WitnessFrom(_, _, _, _, _, _, _)
WitnessFrom(adj, gone, t, limit, dist, heap, settled) ==
  IF heap = {} THEN FALSE
  ELSE LET top == First(heap)
           d == top[1]
           v == top[2]
           rest == heap \ {top}
           near == {u \in DOMAIN adj[v] \ gone :
                      /\ d + adj[v][u].meters <= limit
                      /\ u \in DOMAIN dist => d + adj[v][u].meters < dist[u]}
       IN  IF d > limit THEN FALSE
           ELSE IF d > dist[v] THEN WitnessFrom(adj, gone, t, limit, dist, rest, settled)
           ELSE IF v = t THEN TRUE
           ELSE IF settled + 1 >= WitnessSettleLimit THEN GivenUp
           ELSE WitnessFrom(adj, gone, t, limit, [u \in near |-> d + adj[v][u].meters] @@ dist,
                            rest \cup {<<d + adj[v][u].meters, u>> : u \in near}, settled + 1)
HasWitness(adj, gone, s, t, limit) == WitnessFrom(adj, gone, t, limit, s :> 0, {<<0, s>>}, 0)
\* shortcuts_for: the pairs of live neighbours that only v joins so well.
Shortcuts(adj, gone, v) ==
  LET live == DOMAIN adj[v] \ gone IN
  {<<u, w>> \in live \X live :
     u < w /\ ~HasWitness(adj, gone \cup {v}, u, w, adj[v][u].meters + adj[v][w].meters)}

Importance(v) ==
  Cardinality(Shortcuts(adjacency, contracted, v)) - Cardinality(DOMAIN adjacency[v] \ contracted) + neighbours[v]

StartContraction ==
  /\ stage = "contract"
  /\ adjacency = Empty
  /\ adjacency' = Streets
  /\ LET live(v) == DOMAIN adjacency'[v]
     IN  queue' = {<<Cardinality(Shortcuts(adjacency', {}, v)) - Cardinality(live(v)), v>> : v \in Vertices}
  /\ neighbours' = [v \in Vertices |-> 0]
  /\ rank' = [v \in Vertices |-> 0]
  /\ up' = [v \in Vertices |-> Empty]
  /\ UNCHANGED <<graphVars, contracted, hierarchy>>

\* The lazy update: an importance past the next in the queue waits again.
Requeue ==
  /\ stage = "contract"
  /\ queue # {}
  /\ LET top == First(queue)
         rest == queue \ {top}
         current == Importance(top[2])
     IN  /\ current > top[1]
         /\ rest # {} /\ current > First(rest)[1]
         /\ queue' = rest \cup {<<current, top[2]>>}
  /\ UNCHANGED <<graphVars, adjacency, contracted, neighbours, rank, up, hierarchy>>

Contract ==
  /\ stage = "contract"
  /\ queue # {}
  /\ LET top == First(queue)
         v == top[2]
         rest == queue \ {top}
         gone == contracted \cup {v}
         both == {<<x[1], x[2]>> : x \in Shortcuts(adjacency, gone, v)}
         meters(x) == adjacency[v][x[1]].meters + adjacency[v][x[2]].meters
     IN  /\ ~(Importance(v) > top[1] /\ rest # {} /\ Importance(v) > First(rest)[1])
         /\ queue' = rest
         /\ up' = [up EXCEPT ![v] = adjacency[v]]
         /\ rank' = [rank EXCEPT ![v] = Cardinality(contracted)]
         /\ contracted' = gone
         /\ adjacency' = [u \in Vertices |->
              FoldLeft(LAMBDA list, x : InsertEdge(list, IF x[1] = u THEN x[2] ELSE x[1], meters(x), v),
                       adjacency[u], InOrder({x \in both : u \in {x[1], x[2]}}, Precedes))]
         /\ neighbours' = [u \in Vertices |-> IF u \in DOMAIN adjacency[v] \ gone THEN neighbours[u] + 1
                                              ELSE neighbours[u]]
  /\ UNCHANGED <<graphVars, hierarchy>>

\* The upward arrays: of a vertex's edges those to vertices of higher rank.
Upward(r, edges) == [v \in Vertices |-> Restrict(edges[v], {u \in DOMAIN edges[v] : r[u] > r[v]})]

\* is_consistent: what a loaded hierarchy must be to be taken.
IsConsistent(h) ==
  /\ {h.rank[v] : v \in Vertices} = 0 .. net.vertices - 1
  /\ \A v \in Vertices : \A u \in DOMAIN h.up[v] : /\ h.rank[u] > h.rank[v]
                                                   /\ h.up[v][u].middle \in Vertices \cup {Original}
                                                   /\ h.up[v][u].meters >= 0

FinishContraction ==
  /\ stage = "contract"
  /\ adjacency # Empty
  /\ queue = {}
  /\ hierarchy' = [rank |-> rank, up |-> Upward(rank, up)]
  /\ stage' = "ready"
  /\ adjacency' = Empty /\ contracted' = {} /\ neighbours' = Empty /\ rank' = Empty /\ up' = Empty
  /\ UNCHANGED <<input, net, queue>>

----------------------------------------------------------------------------
(* Queries (ch.rs:318-553).                                               *)

\* up_search: the vertices reached by climbing from the seeds, with their
\* distances, none past the cutoff; settle is the one with no cutoff.
RECURSIVE Climb(_, _, _, _)
Climb(h, cutoff, dist, heap) ==
  IF heap = {} THEN dist
  ELSE LET top == First(heap)
           d == top[1]
           v == top[2]
           near == {u \in DOMAIN h.up[v] : /\ d + h.up[v][u].meters <= cutoff
                                           /\ u \in DOMAIN dist => d + h.up[v][u].meters < dist[u]}
       IN  IF d > dist[v] THEN Climb(h, cutoff, dist, heap \ {top})
           ELSE Climb(h, cutoff, [u \in near |-> d + h.up[v][u].meters] @@ dist,
                      (heap \ {top}) \cup {<<d + h.up[v][u].meters, u>> : u \in near})
\* Of the seeds at a vertex the nearest counts.
Seeded(seeds, cutoff) ==
  LET kept == {s \in seeds : s[2] <= cutoff}
  IN  [v \in {s[1] : s \in kept} |-> LeastOf({s[2] : s \in {t \in kept : t[1] = v}})]
UpSearch(h, seeds, cutoff) ==
  LET dist == Seeded(seeds, cutoff) IN Climb(h, cutoff, dist, {<<dist[v], v>> : v \in DOMAIN dist})
Settle(h, origin) == UpSearch(h, {<<origin, 0>>}, Far)

\* query: where the climbs from both ends meet best, of equals the first.
MeetingsOf(forward, backward) == {<<forward[v] + backward[v], v>> : v \in DOMAIN forward \cap DOMAIN backward}
Meetings(h, s, t) == MeetingsOf(Settle(h, s), Settle(h, t))

\* buckets: per vertex the targets whose climbs pass it.
Buckets(h, targets, cutoff) ==
  LET settled == [t \in targets |-> UpSearch(h, {<<t, 0>>}, cutoff)]
  IN  [v \in Vertices |-> {<<t, settled[t][v]>> : t \in {t \in targets : v \in DOMAIN settled[t]}}]
\* one_to_many: of each target the best meeting, none past the cutoff.
OneToMany(h, buckets, seeds, cutoff) ==
  LET dist == UpSearch(h, seeds, cutoff)
      met == UNION {{<<b[1], dist[v] + b[2]>> : b \in buckets[v]} : v \in DOMAIN dist}
  IN  Seeded(met, cutoff)

\* up_tree_path: back from the peak, by the lowest vertex that explains it.
RECURSIVE UpTreePath(_, _, _, _)
UpTreePath(h, dist, origin, peak) ==
  IF peak = origin THEN <<peak>>
  ELSE LET p == LeastOf({p \in DOMAIN dist : peak \in DOMAIN h.up[p]
                                             /\ dist[p] + h.up[p][peak].meters = dist[peak]})
       IN  Append(UpTreePath(h, dist, origin, p), peak)
\* edge_middle, in either direction.
EdgeMiddle(h, a, b) == IF b \in DOMAIN h.up[a] THEN h.up[a][b].middle
                       ELSE IF a \in DOMAIN h.up[b] THEN h.up[b][a].middle ELSE Original
\* unpack_edge: what follows the first vertex of a hop.
RECURSIVE UnpackEdge(_, _, _)
UnpackEdge(h, a, b) == LET m == EdgeMiddle(h, a, b)
                       IN  IF m = Original THEN <<b>> ELSE UnpackEdge(h, a, m) \o UnpackEdge(h, m, b)
Unpack(h, path) == <<path[1]>> \o FlattenSeq([i \in 1 .. Len(path) - 1 |-> UnpackEdge(h, path[i], path[i + 1])])
\* path: up to the meeting and down again, in streets.
PathOver(h, s, t, forward, backward, peak) ==
  Unpack(h, UpTreePath(h, forward, s, peak) \o Tail(Reverse(UpTreePath(h, backward, t, peak))))
Path(h, s, t) == PathOver(h, s, t, Settle(h, s), Settle(h, t), First(Meetings(h, s, t))[2])

----------------------------------------------------------------------------

ContractionInit ==
  /\ adjacency = Empty /\ contracted = {} /\ neighbours = Empty /\ queue = {}
  /\ rank = Empty /\ up = Empty /\ hierarchy = <<>>

(* A contraction never changes a distance among the vertices that remain,  *)
(* though a witness search cut short adds shortcuts that are not needed;   *)
(* and the finished hierarchy finds every distance of the street graph, in *)
(* a way that expands to streets of just that length.                      *)
HierarchyExact ==
  stage \in {"contract", "ready"} => \A street \in {Tabled(StreetMeters)} : \A exact \in {Shortest(net.vertices, street)} :
  LET live(p) == IF p[1] \in contracted \/ p[2] \notin DOMAIN adjacency[p[1]] \ contracted THEN Far
                 ELSE adjacency[p[1]][p[2]].meters
      core == Shortest(net.vertices, [p \in Vertices \X Vertices |-> live(p)])
      walked(path) == FoldLeft(LAMBDA sum, i : sum + street[<<path[i], path[i + 1]>>], 0,
                               [i \in 1 .. Len(path) - 1 |-> i])
  IN  /\ stage = "contract" /\ adjacency # Empty =>
           \A p \in (Vertices \ contracted) \X (Vertices \ contracted) : core[p] = exact[p]
      /\ stage = "ready" /\ hierarchy # <<>> =>
           /\ IsConsistent(hierarchy)
           /\ \A p \in Vertices \X Vertices :
                \A met \in {Meetings(hierarchy, p[1], p[2])} :
                  IF exact[p] >= Far THEN met = {}
                  ELSE /\ met # {} /\ First(met)[1] = exact[p]
                       /\ \A path \in {Path(hierarchy, p[1], p[2])} :
                            /\ path[1] = p[1] /\ Last(path) = p[2]
                            /\ walked(path) = exact[p]
=============================================================================
