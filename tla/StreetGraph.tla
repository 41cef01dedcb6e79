---------------------------- MODULE StreetGraph -----------------------------
(***************************************************************************)
(* The street graph (cafein-core, streets/graph.rs and streets/snap.rs):   *)
(* the stored layout of the edges, the two slots of the adjacency arrays   *)
(* each edge has, the stops linked to it and the snap of a coordinate.     *)
(*                                                                         *)
(* Lengths are whole meters.  A place on an edge is its distance from the  *)
(* edge's first vertex, so a fraction of 0 is the place 0 and one of 1 the *)
(* edge's length.  Vertices and edges count from 1.  A slot is an edge and *)
(* a direction, 0 from its first vertex to its second and 1 back.          *)
(***************************************************************************)
EXTENDS Integers, SequencesExt

CONSTANTS
  Inputs,     \* the networks to build: vertices, edges, links, points, use
  Kinds       \* Kinds[k]: the attributes of the edges of kind k

VARIABLES
  input,      \* what the build was given
  stage,      \* "build", "refused", "contract" (see ContractionHierarchy), "ready" or "rides"
  net         \* the stored network

graphVars == <<input, stage, net>>

\* The same function: TLC computes its values here, once, and not at each use.
Tabled(f) == f @@ <<>>
Far == 1000000     \* infinity: no distance of an instance reaches it
Nothing == [edge |-> 0]     \* None, where a snap is asked for
LowerOf(a, b) == IF a <= b THEN a ELSE b
Ceil(a, b) == (a + b - 1) \div b
\* Lexicographic order on sequences of one length.
Precedes(a, b) == \E i \in DOMAIN a : a[i] < b[i] /\ \A j \in 1 .. i - 1 : a[j] = b[j]
\* The first of a non-empty set under that order.
First(S) == CHOOSE x \in S : \A y \in S \ {x} : Precedes(x, y)
\* A set in an order that is total on it.
InOrder(S, before(_, _)) ==
  [i \in 1 .. Cardinality(S) |-> CHOOSE x \in S : Cardinality({y \in S \ {x} : before(y, x)}) = i - 1]

----------------------------------------------------------------------------
(* The build (graph.rs).                                                  *)

Refused(in) ==
  \/ \E e \in DOMAIN in.edges : \/ ~({in.edges[e].from, in.edges[e].to} \subseteq 1 .. in.vertices)
                                \/ in.edges[e].meters < 0
  \/ \E l \in DOMAIN in.links : \/ in.links[l].edge \notin DOMAIN in.edges
                                \/ in.links[l].at \notin 0 .. in.edges[in.links[l].edge].meters

\* Where an edge is stored: by its place on the Hilbert curve and its own
\* data, its attributes last, and by nothing of the order it came in.
EdgeKey(in, e) ==
  LET edge == in.edges[e] IN <<edge.place, edge.meters, edge.from, edge.to, edge.shape, edge.kind>>
\* Mutant: coincident edges keep the order they came in.
EdgeKeyUpToShape(in, e) ==
  LET edge == in.edges[e] IN <<edge.place, edge.meters, edge.from, edge.to, edge.shape, e>>
KeyOf(in, e) == EdgeKey(in, e)
Order(in) ==
  InOrder(DOMAIN in.edges, LAMBDA a, b : Precedes(Append(KeyOf(in, a), a), Append(KeyOf(in, b), b)))

\* The vertices in the order the stored edges meet them, the isolated last.
Met(in, order) ==
  LET ends == FlattenSeq([i \in DOMAIN order |-> <<in.edges[order[i]].from, in.edges[order[i]].to>>])
      met == FoldLeft(LAMBDA s, v : IF v \in ToSet(s) THEN s ELSE Append(s, v), <<>>, ends)
  IN  met \o SelectSeq([v \in 1 .. in.vertices |-> v], LAMBDA v : v \notin ToSet(met))

\* The slots of a vertex, in the order the edges fill them.
SlotsAt(edges, v) ==
  FlattenSeq([e \in DOMAIN edges |-> (IF edges[e].from = v THEN <<<<e, 0>>>> ELSE <<>>)
                                     \o (IF edges[e].to = v THEN <<<<e, 1>>>> ELSE <<>>)])

\* The arrays of the network: each link carries the vertices of its edge.
Arrays(in, order, met) ==
  LET vertex == [v \in 1 .. in.vertices |-> CHOOSE i \in DOMAIN met : met[i] = v]
      edges == [i \in DOMAIN order |->
                 LET old == in.edges[order[i]]
                 IN  [from |-> vertex[old.from], to |-> vertex[old.to], meters |-> old.meters, kind |-> old.kind]]
      stored(l) == CHOOSE i \in DOMAIN order : order[i] = in.links[l].edge
  IN  [vertices |-> in.vertices,
       edges |-> edges,
       slots |-> [v \in 1 .. in.vertices |-> SlotsAt(edges, v)],
       links |-> [l \in DOMAIN in.links |->
                   [stop |-> in.links[l].stop, edge |-> stored(l), at |-> in.links[l].at,
                    connector |-> in.links[l].connector]],
       points |-> [p \in DOMAIN in.points |-> [i \in DOMAIN order |-> in.points[p][order[i]]]],
       place |-> [i \in DOMAIN met |-> in.coordinates[met[i]]]]
Network(in) == LET order == Order(in) IN Arrays(in, order, Met(in, order))

Build ==
  /\ stage = "build"
  /\ IF Refused(input) THEN stage' = "refused" /\ UNCHANGED net
     ELSE stage' = input.use /\ net' = Network(input)
  /\ UNCHANGED input

----------------------------------------------------------------------------
(* Slots, and places on edges.                                            *)

Vertices == 1 .. net.vertices
Edges == DOMAIN net.edges
Length(e) == net.edges[e].meters
TailOf(slot) == IF slot[2] = 0 THEN net.edges[slot[1]].from ELSE net.edges[slot[1]].to
HeadOf(slot) == IF slot[2] = 0 THEN net.edges[slot[1]].to ELSE net.edges[slot[1]].from

\* The vertices a snap leads to on foot, each with the meters to it.
Ends(snap) ==
  {<<net.edges[snap.edge].from, snap.connector + snap.at>>,
   <<net.edges[snap.edge].to, snap.connector + Length(snap.edge) - snap.at>>}
SeedsOf(snaps) == UNION {Ends(s) : s \in snaps}
\* stop_snaps
StopSnaps(stop) ==
  {[edge |-> net.links[l].edge, at |-> net.links[l].at, connector |-> net.links[l].connector] :
     l \in {l \in DOMAIN net.links : net.links[l].stop = stop}}
LinkedStops == {net.links[l].stop : l \in DOMAIN net.links}

----------------------------------------------------------------------------
(* The snap of a coordinate (snap.rs).                                    *)

SnapKey(s) == <<s.connector, s.edge, s.at>>
NearestOf(snaps) ==
  IF snaps = {} THEN Nothing ELSE CHOOSE s \in snaps : \A t \in snaps \ {s} : Precedes(SnapKey(s), SnapKey(t))
\* The nearest of the usable edges whose box a ring of the given radius
\* meets: the index finds every edge as near as that, and others too.
NearestIn(point, usable, radius, allowance) ==
  NearestOf({[edge |-> e, at |-> point[e].at, connector |-> point[e].connector] :
               e \in {e \in usable : point[e].box <= radius /\ point[e].connector <= allowance}})

\* snap_filtered: rings from 32 m on, each four times as wide.
RECURSIVE SnapFrom(_, _, _, _, _)
SnapFrom(point, usable, radius, allowance, best) ==
  IF best # Nothing /\ (best.connector <= radius \/ radius >= allowance) THEN best
  ELSE IF radius >= allowance THEN Nothing
  ELSE LET wider == LowerOf(4 * radius, allowance)
       IN  SnapFrom(point, usable, wider, allowance, NearestIn(point, usable, wider, allowance))
Snap(point, usable, allowance) ==
  LET radius == LowerOf(32, allowance) IN SnapFrom(point, usable, radius, allowance, NearestIn(point, usable, radius, allowance))

----------------------------------------------------------------------------
(* The reference: shortest distances by relaxing through every vertex.    *)

Shortest(n, weight) ==
  FoldLeft(LAMBDA d, k : Tabled([p \in (1 .. n) \X (1 .. n) |-> LowerOf(d[p], d[<<p[1], k>>] + d[<<k, p[2]>>])]),
           Tabled([p \in (1 .. n) \X (1 .. n) |-> IF p[1] = p[2] THEN 0 ELSE weight[p]]),
           [k \in 1 .. n |-> k])
LeastOf(S) == CHOOSE x \in S : \A y \in S : x <= y
\* The least meters of a street between each two vertices.
StreetMeters ==
  [p \in Vertices \X Vertices |->
     LeastOf({Far} \cup {Length(e) : e \in {e \in Edges : {net.edges[e].from, net.edges[e].to} = {p[1], p[2]}}})]

(* The stored layout is a function of the set of edges given, whatever     *)
(* order they come in: the edges in the other order build the same         *)
(* network, up to which of two edges alike in every field a link is on.    *)
LayoutIgnoresOrder ==
  stage \in {"contract", "ready", "rides"} =>
    LET size == Len(input.edges)
        back(e) == size + 1 - e
        other == Network([input EXCEPT !.edges = Reverse(@),
                                       !.links = [l \in DOMAIN @ |-> [@[l] EXCEPT !.edge = back(@)]],
                                       !.points = [p \in DOMAIN @ |-> Reverse(@[p])]])
        linked(n) == [l \in DOMAIN n.links |-> <<n.links[l].stop, n.links[l].at, n.edges[n.links[l].edge]>>]
    IN  /\ other.edges = net.edges
        /\ other.slots = net.slots
        /\ linked(other) = linked(net)
=============================================================================
