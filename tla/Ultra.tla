-------------------------------- MODULE Ultra --------------------------------
(***************************************************************************)
(* The shortcuts between trips that journeys of unrestricted walking need  *)
(* (cafein-core, ultra.rs): per source stop a search of two rides, once    *)
(* for every instant worth leaving at, which keeps the walks between two   *)
(* rides that no other way, a witness, makes superfluous.                  *)
(*                                                                         *)
(* A step is one departure's start, one boarding of a first ride, one stop *)
(* settled by a Dijkstra search, or the second rides from one stop.  Of a  *)
(* heap only the live entries are kept: the stops that wait.  Sums at or   *)
(* past Unreached are the saturated ones.                                  *)
(***************************************************************************)
EXTENDS Itineraries

CONSTANT Queries       \* the instances: a timetable and a transfer graph

VARIABLES
  q,               \* the instance
  pc,              \* "sources", "departures", "first", "middle", "second", "final", "computed"
  source, walk,  \* the representative whose search runs, how far every stop is from it
  left,            \* its departures not searched yet, the last one first
  ready,           \* the departure searched: its instant, the routes left to
                   \* board, the stops the second rides reach
  one, two,        \* earliest arrivals with one and with two rides
  origin,          \* origin[s]: {the stop a candidate's first ride ended at} behind one[s]
  board,           \* board[s]: {the stop a candidate's second ride began at} behind two[s]
  waiting,         \* the stops of the Dijkstra search that runs
  settled,         \* the stops the middle one settled, in that order
  shortcuts        \* the shortcuts of all sources so far: from, to, duration

vars == <<q, pc, source, walk, left, ready, one, two, origin, board, waiting, settled, shortcuts>>

Earlier(a, b) == IF a < b THEN a ELSE b
Saturated(t) == Earlier(t, Unreached)
Positions(n) == UNION {DOMAIN n.pattern_stops[p] : p \in DOMAIN n.pattern_stops}
TripsOfPattern(n, p) == {t \in n.trips : n.trip_pattern[t] = p}

----------------------------------------------------------------------------
(* Stations, walks and departures.                                         *)

\* walk_from: how far every stop is over the transfer graph.
WalkFrom(n, s) ==
  LET relaxed(d) == Tabled([v \in Stops |-> Min({d[v]} \cup {Saturated(d[e.from] + e.duration) : e \in {e \in n.transfers : e.to = v}})])
  IN  FoldLeft(LAMBDA d, i : relaxed(d), [v \in Stops |-> IF v = s THEN 0 ELSE Unreached],
               [i \in 1 .. Cardinality(Stops) |-> i])

\* stations: stops reachable from each other in no time share the search of
\* the least of them.
Touching(n, a, b) == \A x \in {<<a, b>>, <<b, a>>} :
                       \E e \in n.transfers : e.from = x[1] /\ e.to = x[2] /\ e.duration = 0
Station(n, s) ==
  LET grown(S) == S \cup {v \in Stops : \E u \in S : Touching(n, u, v)}
  IN  Min(FoldLeft(LAMBDA S, i : grown(S), {s}, [i \in 1 .. Cardinality(Stops) |-> i]))

\* collect_departures: the route segments worth walking to, no stop earlier on
\* the line being nearer, and the instants they make worth leaving at.
Segments(n, direct, window) ==
  {x \in [time : window, pattern : DOMAIN n.pattern_stops, position : Positions(n)] :
     LET stops == n.pattern_stops[x.pattern] IN
     /\ x.position < Len(stops)
     /\ direct[stops[x.position]] # Unreached
     /\ \A j \in 1 .. x.position : direct[stops[x.position]] <= direct[stops[j]]
     /\ \E t \in TripsOfPattern(n, x.pattern) :
          n.departure[t][x.position] = x.time + direct[stops[x.position]]}
\* The instants a first ride can be boarded in the source's own station, each
\* with the segments from there up to the next of them.
Departures(n, s, segments) ==
  LET marks == {x.time : x \in {x \in segments : Station(n, n.pattern_stops[x.pattern][x.position]) = s}}
  IN  {[time |-> m, routes |-> {<<x.pattern, x.position>> :
          x \in {x \in segments : m <= x.time /\ \A k \in marks : k > m => x.time < k}}] : m \in marks}

----------------------------------------------------------------------------
(* A departure's search.                                                   *)

\* The rides of the earliest trip of a pattern that is boardable in time: the
\* stops it reaches, with the times, in order.
RideFrom(p, i, time) ==
  LET catchable == {t \in TripsOfPattern(q, p) : i < Len(q.pattern_stops[p]) /\ time <= q.departure[t][i]}
  IN  IF catchable = {} THEN <<>>
      ELSE [j \in 1 .. Len(q.pattern_stops[p]) - i |-> <<q.pattern_stops[p][i + j], q.arrival[Min(catchable)][i + j]>>]

\* Who waits longest: by time, then by stop.
First(times) == CHOOSE s \in waiting : \A v \in waiting : times[s] < times[v] \/ (times[s] = times[v] /\ s <= v)

UltraInit ==
  /\ q \in Queries
  /\ pc = "sources" /\ source = 0 /\ walk = <<>>
  /\ left = {} /\ ready = <<>>
  /\ one = <<>> /\ two = <<>> /\ origin = <<>> /\ board = <<>>
  /\ waiting = {} /\ settled = <<>> /\ shortcuts = {}

\* Only the representative of a station searches.
StartSource ==
  /\ pc = "sources"
  /\ LET searching == {s \in Stops : s > source /\ Station(q, s) = s} IN
     IF searching = {} THEN pc' = "computed" /\ UNCHANGED <<source, walk, left>>
     ELSE /\ pc' = "departures"
          /\ source' = Min(searching)
          /\ walk' = WalkFrom(q, source')
          /\ left' = Departures(q, source', Segments(q, walk', q.window))
  /\ UNCHANGED <<q, ready, one, two, origin, board, waiting, settled, shortcuts>>

\* clear_labels and relax_initial: walking is a witness in every round.
StartDeparture ==
  /\ pc = "departures" /\ left # {}
  /\ \E d \in {d \in left : \A e \in left : e.time <= d.time} :
       \E walked \in {[s \in Stops |-> Saturated(d.time + walk[s])]} :
         /\ left' = left \ {d}
         /\ ready' = [time |-> walked, routes |-> d.routes, reached |-> {}]
         /\ one' = walked /\ two' = walked
         /\ origin' = [s \in Stops |-> {}] /\ board' = [s \in Stops |-> {}]
  /\ waiting' = {} /\ settled' = <<>> /\ pc' = "first"
  /\ UNCHANGED <<q, source, walk, shortcuts>>
EndSource ==
  /\ pc = "departures" /\ left = {} /\ pc' = "sources"
  /\ UNCHANGED <<q, source, walk, left, ready, one, two, origin, board, waiting, settled, shortcuts>>

\* A journey is a candidate when its first ride is boarded in the source's
\* station.  Mutant: at the representative itself.
CandidateAtSource(s, stop) == IF s = source THEN {stop} ELSE {}
Candidate(s, stop) == IF Station(q, s) = source THEN {stop} ELSE {}
\* scan_initial_routes, one of the departure's routes, in order.
BoardFirst ==
  /\ pc = "first" /\ ready.routes # {}
  /\ \E r \in ready.routes :
       /\ \A o \in ready.routes : r[1] < o[1] \/ (r[1] = o[1] /\ r[2] <= o[2])
       /\ ready' = [ready EXCEPT !.routes = @ \ {r}]
       /\ \E from \in {q.pattern_stops[r[1]][r[2]]} :
          \E ride \in {RideFrom(r[1], r[2], ready.time[from])} :
          \E w \in {FoldLeft(LAMBDA w, x : IF x[2] >= w.one[x[1]] THEN w
                              ELSE [one |-> [w.one EXCEPT ![x[1]] = x[2]],
                                    two |-> [w.two EXCEPT ![x[1]] = Earlier(@, x[2])],
                                    origin |-> [w.origin EXCEPT ![x[1]] = Candidate(from, x[1])],
                                    waiting |-> w.waiting \cup {x[1]}],
                            [one |-> one, two |-> two, origin |-> origin, waiting |-> waiting], ride)} :
            one' = w.one /\ two' = w.two /\ origin' = w.origin /\ waiting' = w.waiting
  /\ UNCHANGED <<q, pc, source, walk, left, board, settled, shortcuts>>
EndFirst ==
  /\ pc = "first" /\ ready.routes = {} /\ pc' = "middle"
  /\ UNCHANGED <<q, source, walk, left, ready, one, two, origin, board, waiting, settled, shortcuts>>

\* intermediate_dijkstra: settle one stop; stop once no candidate waits.
SettleMiddle ==
  /\ pc = "middle" /\ waiting # {}
  /\ \E s \in {First(one)} :
     \E better \in {{e \in q.transfers : e.from = s /\ Saturated(one[s] + e.duration) < one[e.to]}} :
     \E reach \in {[v \in Stops |-> Min({one[v]} \cup {one[s] + e.duration : e \in {e \in better : e.to = v}})]} :
       /\ one' = reach
       /\ two' = [v \in Stops |-> Earlier(two[v], reach[v])]
       /\ origin' = [v \in Stops |-> IF reach[v] < one[v] THEN origin[s] ELSE origin[v]]
       /\ waiting' = (waiting \ {s}) \cup {e.to : e \in better}
       /\ settled' = Append(settled, s)
  /\ pc' = IF \E v \in waiting' : origin'[v] # {} THEN pc ELSE "second"
  /\ UNCHANGED <<q, source, walk, left, ready, board, shortcuts>>
NothingSettles ==
  /\ pc = "middle" /\ waiting = {} /\ pc' = "second"
  /\ UNCHANGED <<q, source, walk, left, ready, one, two, origin, board, waiting, settled, shortcuts>>

\* The second rides to be boarded at a stop, in the order it is served.
ServedFrom(n, s) ==
  SetToSortSeq({x \in [pattern : DOMAIN n.pattern_stops, position : Positions(n)] :
                  x.position <= Len(n.pattern_stops[x.pattern]) /\ n.pattern_stops[x.pattern][x.position] = s},
               LAMBDA x, y : x.pattern < y.pattern \/ (x.pattern = y.pattern /\ x.position < y.position))
Emitted(a, b) == \E x \in shortcuts : x.source = source /\ x.from = a /\ x.to = b
\* candidate_destination: reached by a walk of a candidate that is no shortcut yet.
Destination(b) == {b : a \in {a \in origin[b] : a # b /\ ~Emitted(a, b)}}
\* scan_routes, from one of the stops the middle search settled.
BoardSecond ==
  /\ pc = "second" /\ settled # <<>>
  /\ settled' = Tail(settled)
  /\ \E b \in {Head(settled)} :
     \E w \in {FoldLeft(LAMBDA w, served :
                          FoldLeft(LAMBDA u, x : IF x[2] >= u.two[x[1]] THEN u
                                     ELSE [two |-> [u.two EXCEPT ![x[1]] = x[2]],
                                           board |-> [u.board EXCEPT ![x[1]] = Destination(b)],
                                           reached |-> u.reached \cup {x[1]}],
                                   w, RideFrom(served.pattern, served.position, one[b])),
                        [two |-> two, board |-> board, reached |-> ready.reached], ServedFrom(q, b))} :
       two' = w.two /\ board' = w.board /\ ready' = [ready EXCEPT !.reached = w.reached]
  /\ UNCHANGED <<q, pc, source, walk, left, one, origin, waiting, shortcuts>>
EndSecond ==
  /\ pc = "second" /\ settled = <<>> /\ pc' = "final"
  /\ waiting' = ready.reached
  /\ UNCHANGED <<q, source, walk, left, ready, one, two, origin, board, settled, shortcuts>>

\* final_dijkstra: settle one stop; a candidate no witness beat to it is a
\* shortcut, and the others that end with the same walk need no search.
SettleFinal ==
  /\ pc = "final" /\ waiting # {} /\ \E v \in Stops : board[v] # {}
  /\ \E s \in {First(two)} :
     \E better \in {{e \in q.transfers : e.from = s /\ Saturated(two[s] + e.duration) < two[e.to]}} :
     \E reach \in {[v \in Stops |-> Min({two[v]} \cup {two[s] + e.duration : e \in {e \in better : e.to = v}})]} :
       /\ two' = reach
       /\ waiting' = (waiting \ {s}) \cup {e.to : e \in better}
       /\ board' = [v \in Stops |-> IF reach[v] < two[v] \/ board[v] = board[s] THEN {} ELSE board[v]]
       /\ shortcuts' = shortcuts \cup
            {[source |-> source, from |-> a, to |-> b, duration |-> one[b] - one[a]] : a \in UNION {origin[b] : b \in board[s]}, b \in board[s]}
  /\ UNCHANGED <<q, pc, source, walk, left, ready, one, origin, settled>>
EndFinal ==
  /\ pc = "final" /\ (waiting = {} \/ \A v \in Stops : board[v] = {})
  /\ pc' = "departures"
  /\ UNCHANGED <<q, source, walk, left, ready, one, two, origin, board, waiting, settled, shortcuts>>

UltraNext == \/ StartSource \/ StartDeparture \/ EndSource \/ BoardFirst \/ EndFirst \/ SettleMiddle
             \/ NothingSettles \/ BoardSecond \/ EndSecond \/ SettleFinal \/ EndFinal

----------------------------------------------------------------------------
(* Properties.                                                             *)

Shortcuts == {[from |-> x.from, to |-> x.to, duration |-> x.duration] : x \in shortcuts}
\* Door to door with unrestricted walking at both ends: the earliest arrivals
\* at the stops with at most k rides, when a set of walks may be made between
\* two of them.
DoorToDoor(n, far, s, time, walks, usable) ==
  LET doors == {[stop |-> v, duration |-> far[s][v]] : v \in {v \in Stops : far[s][v] < Unreached}} IN
  UNION {{<<k, v, Min({Saturated(reached[k][u] + far[u][v]) : u \in Stops})>> : k \in RidesOfRound(n), v \in Stops} :
           reached \in {Earliest([n EXCEPT !.transfers = walks, !.access = doors, !.excluded = {}, !.usable = usable], {time})}}
AllWalks(far) ==
  {w \in {[from |-> u, to |-> v, duration |-> far[u][v]] : u \in Stops, v \in Stops} : w.from # w.to /\ w.duration < Unreached}
\* The shortcuts alone, as footpaths that are not chained, lose nothing.
Suffice(n, usable) ==
  \A far \in {Tabled([s \in Stops |-> WalkFrom(n, s)])} :
    \A s \in Stops, time \in n.window :
      DoorToDoor(n, far, s, time, Shortcuts, usable) = DoorToDoor(n, far, s, time, AllWalks(far), usable)

\* "No shortcut is missed" (ultra.rs): relaxing the shortcuts alone between two
\* rides gives the earliest arrivals of unrestricted walking, with any number
\* of rides, from every stop and at any time.
UltraExact == pc = "computed" => Suffice(q, [d \in {0, 1} |-> IF d = 0 THEN q.trips ELSE {}])

\* The set is "date-independent" and relaxed by the queries of any date "in
\* place of the closure transfers" (ultra.rs, network.rs): also on the date an
\* instance asks about, whose trips are some of today's and of yesterday's.
UltraExactOnDate == pc = "computed" => Suffice(q, q.usable)
=============================================================================
