------------------------------- MODULE DayView ------------------------------
(***************************************************************************)
(* The trips one query date sees (cafein-core, routers/tbtr/view.rs): the  *)
(* timetable's patterns split into FIFO lines of one service day each,     *)
(* and what may be boarded from a stop, as the trip-based engines share    *)
(* it (set.rs).  Positions in a pattern count from 1.                      *)
(***************************************************************************)
EXTENDS Itineraries, SequencesExt

CONSTANT Queries    \* the instances: a timetable, a transfer set and a request each

VARIABLE q          \* the instance

StopsOf(v) == q.pattern_stops[q.trip_pattern[v.trip]]
Arrive(v, i) == q.arrival[v.trip][i] - DayOffset(v.stream)
Depart(v, i) == q.departure[v.trip][i] - DayOffset(v.stream)

\* The first position of v with a departure on the queried day's clock.
FirstBoardable(v) ==
  1 + Cardinality({i \in DOMAIN q.departure[v.trip] : Depart(v, i) < 0})

\* Today's active trips, and yesterday's that still have track to ride.
View ==
  {v \in [stream : {0, 1}, trip : q.trips] :
     v.trip \in q.usable[v.stream] /\ (v.stream = 1 => FirstBoardable(v) < Len(StopsOf(v)))}

\* A line: a pattern's trips of one service day, in FIFO order.
LineOf(v) == [pattern |-> q.trip_pattern[v.trip], stream |-> v.stream]
TripsOf(l) == {v \in View : LineOf(v) = l}
Lines == {LineOf(v) : v \in View}
LaterSiblings(v) == {u \in TripsOf(LineOf(v)) : u.trip >= v.trip}

\* The earliest trip of l boardable at position i from ready on, in a set;
\* none when none departs in time or nothing is left to ride.
EarliestBoardable(l, i, ready) ==
  LET catchable == {v \in TripsOf(l) : i < Len(StopsOf(v)) /\ ready <= Depart(v, i)}
  IN  {v \in catchable : \A u \in catchable : v.trip <= u.trip}

\* patterns_at_stop and lines_of_pattern: what may be boarded at s, in the
\* order of pattern, position and service day.
ServedAt(s) ==
  UNION {{[line |-> l, position |-> i] :
            i \in {i \in DOMAIN q.pattern_stops[l.pattern] : q.pattern_stops[l.pattern][i] = s}} : l \in Lines}
Boardings(s, ready) ==
  UNION {{[trip |-> v, position |-> x.position] : v \in EarliestBoardable(x.line, x.position, ready)} :
           x \in ServedAt(s)}
InServedOrder(transfers) ==
  LET rank(x) == <<q.trip_pattern[x.trip.trip], x.position, x.trip.stream>>
      before(x, y) == \E i \in 1 .. 3 : /\ rank(x)[i] < rank(y)[i]
                                        /\ \A h \in 1 .. i - 1 : rank(x)[h] = rank(y)[h]
  IN  SetToSortSeq(transfers, before)

FootpathsFrom(walks, s) == {e \in walks : e.from = s}

\* Riding back over the segment just ridden, on a trip that could have been
\* boarded one stop before.
UTurn(v, alight, x) ==
  LET j == x.position IN
  /\ j + 1 <= Len(StopsOf(x.trip))
  /\ StopsOf(x.trip)[j] = StopsOf(v)[alight - 1]
  /\ StopsOf(x.trip)[j + 1] = StopsOf(v)[alight]
  /\ Arrive(v, alight - 1) <= Depart(x.trip, j)

\* Staying on the line: on the trip, or on a later one from here on.
StaysOnLine(v, alight, x) ==
  /\ LineOf(x.trip) = LineOf(v) /\ x.trip.trip >= v.trip
  /\ x.position >= alight

\* Where a ride of v may end.
Alights(v) == FirstBoardable(v) + 1 .. Len(StopsOf(v))
=============================================================================
