------------------------------- MODULE Raptor -------------------------------
(***************************************************************************)
(* Range RAPTOR (cafein-core, routers/raptor/search.rs): Search::profile   *)
(* runs one pass per candidate departure, latest first, on arrival tables  *)
(* shared by the passes, and emits the journeys no later departure         *)
(* dominates.                                                              *)
(*                                                                         *)
(* A step is one iteration of one of the code's loops: an alighting, a     *)
(* boarding, the relaxation of one footpath, one round of collect.  The    *)
(* order in which a round scans its patterns and its footpaths is the      *)
(* order stops happened to be marked in; here any order may be taken, so   *)
(* a property of a run is one no scan order can break.  Stops, patterns    *)
(* and trips are the code's indices; positions in a pattern count from 1.  *)
(***************************************************************************)
EXTENDS Integers, Sequences, FiniteSets

CONSTANTS
  Stops,      \* the stop indices
  Queries,    \* the instances: a timetable, a transfer set and a request each
  Day,        \* DAY_SECONDS: how far back a previous-day trip is shifted
  Unreached   \* the u32::MAX sentinel: no time is at or above it

Streams == {0, 1}    \* the queried service day, and the one before it
Offset(stream) == IF stream = 0 THEN 0 ELSE Day

\* What TimetableBuilder::add_trip and finish leave behind: times move
\* forward along a trip, and no trip of a pattern overtakes an earlier one.
WellFormedTimetable(n) ==
  /\ n.pattern_stops \in [DOMAIN n.pattern_stops -> Seq(Stops)]
  /\ n.trips \subseteq Nat
  /\ n.trip_pattern \in [n.trips -> DOMAIN n.pattern_stops]
  /\ n.arrival \in [n.trips -> Seq(Nat)]
  /\ n.departure \in [n.trips -> Seq(Nat)]
  /\ \A t \in n.trips :
       LET stops == n.pattern_stops[n.trip_pattern[t]] IN
       /\ Len(n.arrival[t]) = Len(stops)
       /\ Len(n.departure[t]) = Len(stops)
       /\ \A i \in 1 .. Len(stops) :
            /\ n.arrival[t][i] <= n.departure[t][i]
            /\ n.departure[t][i] < Unreached
            /\ \A j \in 1 .. Len(stops) : i < j => n.departure[t][i] <= n.arrival[t][j]
  /\ \A t, u \in n.trips :
       t < u /\ n.trip_pattern[t] = n.trip_pattern[u] =>
         \A i \in 1 .. Len(n.arrival[t]) : /\ n.arrival[t][i] <= n.arrival[u][i]
                                           /\ n.departure[t][i] <= n.departure[u][i]

\* Transfers::from_edges keeps one footpath per pair of stops.  A set that
\* declares itself closed has a footpath for every two in a row, no slower.
WellFormedTransfers(n) ==
  /\ n.transfers \subseteq [from : Stops, to : Stops, duration : Nat]
  /\ \A e, f \in n.transfers : e.from = f.from /\ e.to = f.to => e = f
  /\ n.closed \in BOOLEAN
  /\ n.closed => \A e, f \in n.transfers :
       e.to = f.from /\ e.from # f.to =>
         \E g \in n.transfers : g.from = e.from /\ g.to = f.to /\ g.duration <= e.duration + f.duration

\* A request: what the active services and the exclusions leave usable on
\* either service day, and departures that strictly decrease.
WellFormedRequest(n) ==
  /\ n.usable \in [Streams -> SUBSET n.trips]
  /\ n.excluded \subseteq Stops
  /\ n.access \subseteq [stop : Stops, duration : Nat]
  /\ n.egress \subseteq [stop : Stops, duration : Nat]
  /\ n.rounds \in Nat \ {0}
  /\ n.departures \in Seq(0 .. Unreached - 1)
  /\ \A i, j \in 1 .. Len(n.departures) : i < j => n.departures[j] < n.departures[i]

ASSUME StopsAssumption == Stops \subseteq Nat
ASSUME TimeAssumption == Day \in Nat /\ Unreached \in Nat \ {0}
ASSUME QueriesAssumption ==
         \A n \in Queries : /\ WellFormedTimetable(n)
                            /\ WellFormedTransfers(n)
                            /\ WellFormedRequest(n)

VARIABLES
  q,               \* the instance asked about: chosen at first, never changed
  pc,              \* which loop the search is in
  pass,            \* index into q.departures of the pass at work
  round,           \* the number of rides the round at work gives
  tau,             \* tau[k][s]: earliest arrival at s found with exactly k rides
  labels,          \* labels[k][s]: how tau[k][s] was achieved
  best,            \* best[k][s]: earliest arrival at s with at most k rides
  marked,          \* the stops whose labels the round changed
  queue_position,  \* queued pattern -> the first of its positions to scan
  pattern,         \* the pattern being scanned
  position,        \* the position the scan is at
  currents,        \* currents[d]: the trip ridden of service day d
  transit,         \* the exact phase's sidecar: best ride to each stop this round
  pending,         \* the access links or footpaths the loop still has to relax
  thresholds,      \* thresholds[k]: best arrival emitted with at most k rides
  journeys         \* the journeys emitted

vars == <<q, pc, pass, round, tau, labels, best, marked, queue_position, pattern,
          position, currents, transit, pending, thresholds, journeys>>
tables == <<tau, labels, best, marked>>
scanning == <<queue_position, pattern, position, currents>>
emitted == <<thresholds, journeys>>

Rounds == 0 .. q.rounds
Now == q.departures[pass]
StopsOf(p) == q.pattern_stops[p]

NoRide == [trip |-> -1]    \* no trip is ridden, no ride was recorded
NoLabel == [kind |-> "unreached"]
AccessLabel(departure, duration) ==
  [kind |-> "access", departure |-> departure, duration |-> duration]
TransitLabel(r) ==
  [kind |-> "transit", trip |-> r.trip, board |-> r.board, alight |-> r.alight, offset |-> r.offset]
TransferLabel(from, duration) ==
  [kind |-> "transfer", from |-> from, duration |-> duration]
TransferFromRideLabel(from, duration, r) ==
  [kind |-> "walked ride", from |-> from, duration |-> duration,
   trip |-> r.trip, board |-> r.board, alight |-> r.alight, offset |-> r.offset]

BoardStop(l) == StopsOf(q.trip_pattern[l.trip])[l.board]
\* u32::saturating_sub: a stored time on the queried day's clock.
OnTheDay(time, offset) == IF time < offset THEN 0 ELSE time - offset
BoardTime(l) == OnTheDay(q.departure[l.trip][l.board], l.offset)
AlightTime(l) == OnTheDay(q.arrival[l.trip][l.alight], l.offset)

----------------------------------------------------------------------------
(* The canonical path key.                                                *)

\* The label a label's chain goes on with: at[1] rides, at stop at[2].
Behind(l, at) == IF l.kind = "transfer" THEN <<at[1], l.from>>
                                        ELSE <<at[1] - 1, BoardStop(l)>>

\* PathToken: the first number ranks a ride before a walk before an access,
\* so the order of token sequences is the order of sequences of numbers.
RideToken(l) == <<0, l.trip, l.offset, l.board, l.alight>>
WalkToken(l, to) == <<1, l.from, to, l.duration>>
Tokens(l, at) ==
  CASE l.kind = "access"      -> <<2, at[2], l.duration>>
    [] l.kind = "transit"     -> RideToken(l)
    [] l.kind = "transfer"    -> WalkToken(l, at[2])
    [] l.kind = "walked ride" -> WalkToken(l, at[2]) \o RideToken(l)
    [] OTHER                  -> <<>>

Ends(l) == l.kind \in {"access", "unreached"}

\* chain_tokens_into: the tokens from labels[at[1]][at[2]] back to the
\* origin, and the departure the chain starts at.
ChainTokens ==
  LET chain[at \in Rounds \X Stops] ==
        LET l == labels[at[1]][at[2]]
        IN  Tokens(l, at) \o IF Ends(l) THEN <<>> ELSE chain[Behind(l, at)]
  IN  chain
ChainRoot ==
  LET root[at \in Rounds \X Stops] ==
        LET l == labels[at[1]][at[2]]
        IN  IF l.kind = "access" THEN l.departure
            ELSE IF Ends(l) THEN -1 ELSE root[Behind(l, at)]
  IN  root

Before(a, b) ==
  \/ \E i \in 1 .. Len(a) : /\ i <= Len(b)
                            /\ a[i] < b[i]
                            /\ \A h \in 1 .. i - 1 : a[h] = b[h]
  \/ Len(a) < Len(b) /\ \A h \in 1 .. Len(a) : a[h] = b[h]

\* The later root departure wins outright, then the smaller token sequence.
ChallengerWins(root, tokens, incumbentRoot, incumbent) ==
  \/ root > incumbentRoot
  \/ root = incumbentRoot /\ Before(tokens, incumbent)

\* Does label l, were it written at at, beat the chain that stands there?
Challenges(l, at) ==
  ChallengerWins(IF Ends(l) THEN l.departure ELSE ChainRoot[Behind(l, at)],
                 Tokens(l, at) \o IF Ends(l) THEN <<>> ELSE ChainTokens[Behind(l, at)],
                 ChainRoot[at], ChainTokens[at])

----------------------------------------------------------------------------
(* The writes all three relaxations share.                                *)

\* Mutant: an exact tie keeps the chain found first.
TiesKeepIncumbent(k, s, arrival, l) == FALSE

\* A strictly better arrival than any with as few rides writes through to
\* every count of rides it serves; an exact tie keeps the canonical chain.
\* (With no ride the code compares with tau, which is what best[0] holds.)
Improves(k, s, arrival) == arrival < best[k][s]
Ties(k, s, arrival, l) == /\ arrival = tau[k][s]
                          /\ arrival # Unreached
                          /\ Challenges(l, <<k, s>>)

Lowered(k, s, arrival) ==
  [j \in Rounds |-> IF j >= k /\ arrival < best[j][s]
                      THEN [best[j] EXCEPT ![s] = arrival] ELSE best[j]]

Record(k, s, arrival, l, contested) ==
  IF Improves(k, s, arrival) THEN
    /\ tau' = [tau EXCEPT ![k][s] = arrival]
    /\ best' = Lowered(k, s, arrival)
    /\ labels' = [labels EXCEPT ![k][s] = l]
    /\ marked' = marked \cup {s}
  ELSE IF contested /\ Ties(k, s, arrival, l) THEN
    /\ labels' = [labels EXCEPT ![k][s] = l]
    /\ marked' = marked \cup {s}
    /\ UNCHANGED <<tau, best>>
  ELSE UNCHANGED tables

----------------------------------------------------------------------------
(* departure_candidates: the departures a range search is given.          *)

\* The instants of the window at which some trip of an access stop becomes
\* catchable, and the last instant of the window.
Catches(n, link) ==
  UNION {UNION {{n.departure[t][i] - Offset(d) - link.duration :
                   i \in {i \in 1 .. Len(n.departure[t]) - 1 :
                            n.pattern_stops[n.trip_pattern[t]][i] = link.stop}} :
                t \in n.usable[d]} : d \in Streams}
\* Mutant: the window's last instant is no candidate.
CandidatesCaught(n, from, window) ==
  {d \in UNION {Catches(n, link) : link \in n.access} : from <= d /\ d < from + window}
DepartureCandidates(n, from, window) ==
  {d \in UNION {Catches(n, link) : link \in n.access} : from <= d /\ d < from + window}
    \cup {from + window - 1 : w \in {window} \ {0}}

----------------------------------------------------------------------------
(* A pass.                                                                *)

AllUnreached == [k \in Rounds |-> [s \in Stops |-> Unreached]]

\* Search::new, and profile up to its loop.
Init ==
  /\ q \in Queries
  /\ pc = "next pass" /\ pass = 0 /\ round = 0
  /\ tau = AllUnreached /\ best = AllUnreached
  /\ labels = [k \in Rounds |-> [s \in Stops |-> NoLabel]]
  /\ marked = {}
  /\ queue_position = [p \in {} |-> 0] /\ pattern = -1 /\ position = 0
  /\ currents = [d \in Streams |-> NoRide]
  /\ transit = [s \in Stops |-> NoRide]
  /\ pending = {}
  /\ thresholds = [k \in Rounds |-> Unreached]
  /\ journeys = {}

\* The next departure's pass begins: the marks of the last one carry no work.
StartPass ==
  /\ pc = "next pass" /\ pass < Len(q.departures)
  /\ pass' = pass + 1
  /\ marked' = {}
  /\ pending' = {a \in q.access : a.stop \notin q.excluded}
  /\ pc' = "access"
  /\ UNCHANGED <<q, round, tau, labels, best, transit, scanning, emitted>>

\* Reach a stop straight from the origin, unless the arrival overflows.
SeedAccess(a) ==
  /\ pc = "access" /\ a \in pending
  /\ pending' = pending \ {a}
  /\ LET arrival == Now + a.duration IN
     IF arrival < Unreached
       THEN Record(0, a.stop, arrival, AccessLabel(Now, a.duration), TRUE)
       ELSE UNCHANGED tables
  /\ UNCHANGED <<q, pc, pass, round, transit, scanning, emitted>>

\* Queue the patterns of the marked stops, each from its first such stop.
MarkedPositions(p) == {i \in 1 .. Len(StopsOf(p)) : StopsOf(p)[i] \in marked}
\* Mutant: a pattern waits at the last of its marked stops.
LastMarked(p) ==
  CHOOSE i \in MarkedPositions(p) : \A j \in MarkedPositions(p) : j <= i
FirstMarked(p) ==
  CHOOSE i \in MarkedPositions(p) : \A j \in MarkedPositions(p) : i <= j

CollectPatterns ==
  /\ \/ pc = "access" /\ pending = {} /\ round' = 1
     \/ pc = "next round" /\ round' = round + 1
  /\ queue_position' =
       [p \in {p \in DOMAIN q.pattern_stops : MarkedPositions(p) # {}} |-> FirstMarked(p)]
  /\ marked' = {}
  /\ pc' = "queue"
  /\ UNCHANGED <<q, pass, tau, labels, best, pattern, position, currents, transit,
                 pending, emitted>>

DequeuePattern(p) ==
  /\ pc = "queue" /\ p \in DOMAIN queue_position
  /\ pattern' = p /\ position' = queue_position[p]
  /\ queue_position' = [o \in DOMAIN queue_position \ {p} |-> queue_position[o]]
  /\ currents' = [d \in Streams |-> NoRide]
  /\ pc' = "alight today"
  /\ UNCHANGED <<q, pass, round, tables, transit, pending, emitted>>

StopHere == StopsOf(pattern)[position]

Ride(stream) ==
  [trip |-> currents[stream].trip, board |-> currents[stream].board,
   alight |-> position, offset |-> Offset(stream)]

\* Mutant: the sidecar is written only where the label improves.
NoteTransitImproving(r) ==
  transit' = IF ~q.closed /\ Improves(round, StopHere, AlightTime(r))
               THEN [transit EXCEPT ![StopHere] = r] ELSE transit

\* The sidecar keeps the round's best ride to the stop, even one the
\* labels have no use for.
NoteTransit(r) ==
  transit' = IF /\ ~q.closed
                /\ \/ transit[StopHere] = NoRide
                   \/ AlightTime(r) < AlightTime(transit[StopHere])
               THEN [transit EXCEPT ![StopHere] = r] ELSE transit

\* alight_at, for the trip ridden of one service day.
Alight(stream) ==
  /\ pc = IF stream = 0 THEN "alight today" ELSE "alight yesterday"
  /\ pc' = IF stream = 0 THEN "alight yesterday" ELSE "board"
  /\ IF currents[stream] = NoRide \/ StopHere \in q.excluded
       THEN UNCHANGED <<tables, transit>>
       ELSE LET r == Ride(stream) IN
            /\ NoteTransit(r)
            /\ Record(round, StopHere, AlightTime(r), TransitLabel(r), TRUE)
  /\ UNCHANGED <<q, pass, round, scanning, pending, emitted>>

\* earliest_active_trip: the first in FIFO order that departs late enough.
Catchable(stream, threshold) ==
  {t \in q.usable[stream] : /\ q.trip_pattern[t] = pattern
                            /\ threshold <= q.departure[t][position]}
EarliestActiveTrip(stream, threshold) ==
  LET c == Catchable(stream, threshold)
  IN  CHOOSE t \in c : \A u \in c : t <= u

\* What a stream rides from here: the trip it rode, or one caught here that
\* departs strictly earlier.
Boarded(stream) ==
  LET threshold == tau[round - 1][StopHere] + Offset(stream)
      here(t) == q.departure[t][position]
      current == currents[stream]
      t == EarliestActiveTrip(stream, threshold)
  IN  IF /\ threshold <= Unreached
         /\ Catchable(stream, threshold) # {}
         /\ current # NoRide => /\ threshold <= here(current.trip)
                                /\ here(t) < here(current.trip)
        THEN [trip |-> t, board |-> position] ELSE current

Board ==
  /\ pc = "board"
  /\ IF position = Len(StopsOf(pattern))
       THEN /\ pc' = "queue"
            /\ UNCHANGED <<currents, position>>
       ELSE /\ pc' = "alight today"
            /\ position' = position + 1
            /\ currents' = IF tau[round - 1][StopHere] = Unreached THEN currents
                           ELSE [d \in Streams |-> Boarded(d)]
  /\ UNCHANGED <<q, pass, round, tables, queue_position, pattern, transit, pending, emitted>>

----------------------------------------------------------------------------
(* The footpaths of a round, and its end.                                 *)

\* Mutant: an unclosed set's footpaths forget the ride they follow.
WalkSourcesRideless ==
  IF q.closed
    THEN {[from |-> s, at |-> tau[round][s], ride |-> NoRide] : s \in marked}
    ELSE {[from |-> s, at |-> AlightTime(transit[s]), ride |-> NoRide] :
            s \in {s \in Stops : transit[s] # NoRide}}

\* Where the round's footpaths leave from, and when.  A closed set leaves
\* the stops whose labels the rides changed, at those labels' arrivals; an
\* unclosed one leaves every ride's arrival, and carries the ride along.
WalkSources ==
  IF q.closed
    THEN {[from |-> s, at |-> tau[round][s], ride |-> NoRide] : s \in marked}
    ELSE {[from |-> s, at |-> AlightTime(transit[s]), ride |-> transit[s]] :
            s \in {s \in Stops : transit[s] # NoRide}}

FootpathsFrom(s) == {e \in q.transfers : e.from = s /\ e.to \notin q.excluded}
Departing(w, e) ==
  [from |-> w.from, at |-> w.at, ride |-> w.ride, to |-> e.to, duration |-> e.duration]

\* The sources are read before the first footpath is relaxed, so one that
\* improves a stop does not chain into that stop's own footpaths.
StartWalking ==
  /\ pc = "queue" /\ queue_position = [p \in {} |-> 0]
  /\ pending' = UNION {{Departing(w, e) : e \in FootpathsFrom(w.from)} : w \in WalkSources}
  /\ transit' = [s \in Stops |-> NoRide]
  /\ pc' = "walk"
  /\ UNCHANGED <<q, pass, round, tables, scanning, emitted>>

Walk(w) ==
  /\ pc = "walk" /\ w \in pending
  /\ pending' = pending \ {w}
  /\ LET arrival == w.at + w.duration IN
     IF arrival < Unreached
       THEN Record(round, w.to, arrival,
                   IF w.ride = NoRide THEN TransferLabel(w.from, w.duration)
                                      ELSE TransferFromRideLabel(w.from, w.duration, w.ride),
                   w.ride = NoRide)
       ELSE UNCHANGED tables
  /\ UNCHANGED <<q, pc, pass, round, transit, scanning, emitted>>

\* The pass ends with the last round, or early when a round changed nothing.
EndRound ==
  /\ pc = "walk" /\ pending = {}
  /\ IF marked = {} \/ round = q.rounds
       THEN pc' = "collect" /\ round' = 1
       ELSE pc' = "next round" /\ UNCHANGED round
  /\ UNCHANGED <<q, pass, tables, transit, pending, scanning, emitted>>

----------------------------------------------------------------------------
(* What a pass emits.                                                     *)

\* reconstruct: the legs behind labels[at[1]][at[2]], from the origin on, of
\* a journey that leaves at the pass's departure.
TransitLeg(l, to) ==
  [mode |-> "transit", trip |-> l.trip, from |-> BoardStop(l), to |-> to,
   departure |-> BoardTime(l), arrival |-> AlightTime(l)]
WalkLeg(l, at) ==
  LET arrival == tau[at[1]][at[2]]
  IN  [mode |-> "transfer", from |-> l.from, to |-> at[2],
       departure |-> arrival - l.duration, arrival |-> arrival]
Leg(l, at) ==
  CASE l.kind = "access"      -> <<[mode |-> "access", to |-> at[2], departure |-> Now,
                                    arrival |-> tau[0][at[2]]]>>
    [] l.kind = "transit"     -> <<TransitLeg(l, at[2])>>
    [] l.kind = "transfer"    -> <<WalkLeg(l, at)>>
    [] l.kind = "walked ride" -> <<TransitLeg(l, l.from), WalkLeg(l, at)>>
    [] OTHER                  -> <<>>
Legs ==
  LET legs[at \in Rounds \X Stops] ==
        LET l == labels[at[1]][at[2]]
        IN  (IF Ends(l) THEN <<>> ELSE legs[Behind(l, at)]) \o Leg(l, at)
  IN  legs

Egresses(k) == {e \in q.egress : /\ e.stop \notin q.excluded
                                 /\ tau[k][e.stop] # Unreached
                                 /\ tau[k][e.stop] + e.duration < Unreached}
ArrivalBy(k, e) == tau[k][e.stop] + e.duration
BestEgresses(k) ==
  {e \in Egresses(k) : \A f \in Egresses(k) : ArrivalBy(k, e) <= ArrivalBy(k, f)}

\* The best arrival emitted with at most k rides, once this round emits.
Bar(k, arrival) == IF k >= round /\ arrival < thresholds[k] THEN arrival ELSE thresholds[k]

Beats(arrival) == arrival < thresholds[round]

\* collect, one number of rides per step: emit the best arrival if it beats
\* everything emitted with no more rides.
EmitNothing ==
  /\ \A e \in BestEgresses(round) : ~Beats(ArrivalBy(round, e))
  /\ UNCHANGED emitted

EmitJourney ==
  \E e \in BestEgresses(round) :
    LET arrival == ArrivalBy(round, e) IN
    /\ Beats(arrival)
    /\ thresholds' = [k \in Rounds |-> Bar(k, arrival)]
    /\ journeys' = journeys \cup {[departure |-> Now, arrival |-> arrival, rides |-> round,
                                   egress |-> e, legs |-> Legs[<<round, e.stop>>]]}

Collect ==
  /\ pc = "collect"
  /\ EmitNothing \/ EmitJourney
  /\ IF round = q.rounds
       THEN pc' = "next pass" /\ UNCHANGED round
       ELSE round' = round + 1 /\ UNCHANGED pc
  /\ UNCHANGED <<q, pass, tables, transit, pending, scanning>>

\* profile returns.
Finish ==
  /\ pc = "next pass" /\ pass = Len(q.departures)
  /\ pc' = "done"
  /\ UNCHANGED <<q, pass, round, tables, transit, pending, scanning, emitted>>
Done == pc = "done" /\ UNCHANGED vars

Next ==
  \/ StartPass
  \/ \E a \in pending : SeedAccess(a)
  \/ CollectPatterns
  \/ \E p \in DOMAIN queue_position : DequeuePattern(p)
  \/ \E stream \in Streams : Alight(stream)
  \/ Board
  \/ StartWalking
  \/ \E w \in pending : Walk(w)
  \/ EndRound
  \/ Collect
  \/ Finish
  \/ Done

Spec == Init /\ [][Next]_vars

----------------------------------------------------------------------------
(* Properties.                                                            *)

Times == 0 .. Unreached - 1
Rides == {r \in [trip : q.trips, board : Nat, alight : Nat, offset : {0, Day}] :
            /\ r.board < r.alight
            /\ r.board \in 1 .. Len(StopsOf(q.trip_pattern[r.trip]))
            /\ r.alight \in 1 .. Len(StopsOf(q.trip_pattern[r.trip]))}
Labels ==
  {NoLabel}
  \cup [kind : {"access"}, departure : Times, duration : Nat]
  \cup [kind : {"transit"}, trip : q.trips, board : Nat, alight : Nat, offset : {0, Day}]
  \cup [kind : {"transfer"}, from : Stops, duration : Nat]
  \cup [kind : {"walked ride"}, from : Stops, duration : Nat,
        trip : q.trips, board : Nat, alight : Nat, offset : {0, Day}]
Footpaths == [from : Stops, at : 0 .. Unreached, ride : {NoRide} \cup Rides, to : Stops, duration : Nat]

InScan == {"alight today", "alight yesterday", "board"}
InRound == InScan \cup {"queue", "walk", "next round", "collect"}

\* Every variable keeps its type; the round and the scan stay within the
\* tables they index.
TypeOK ==
  /\ q \in Queries
  /\ pc \in InRound \cup {"next pass", "access", "done"}
  /\ pass \in 0 .. Len(q.departures)
  /\ round \in Rounds
  /\ pc \in InRound => round > 0
  /\ pc = "next round" => round < q.rounds
  /\ pc \in InRound \cup {"access"} => pass > 0
  /\ tau \in [Rounds -> [Stops -> 0 .. Unreached]]
  /\ best \in [Rounds -> [Stops -> 0 .. Unreached]]
  /\ labels \in [Rounds -> [Stops -> Labels]]
  /\ marked \subseteq Stops
  /\ DOMAIN queue_position \subseteq DOMAIN q.pattern_stops
  /\ \A p \in DOMAIN queue_position : queue_position[p] \in 1 .. Len(StopsOf(p))
  /\ pc \in InScan => /\ pattern \in DOMAIN q.pattern_stops
                      /\ position \in 1 .. Len(StopsOf(pattern))
  /\ currents \in [Streams -> {NoRide} \cup [trip : q.trips, board : Nat]]
  /\ transit \in [Stops -> {NoRide} \cup Rides]
  /\ pending \subseteq IF pc = "access" THEN q.access
                       ELSE IF pc = "walk" THEN Footpaths ELSE {}
  /\ thresholds \in [Rounds -> 0 .. Unreached]
  /\ \A j \in journeys : /\ j.departure \in Times
                         /\ j.arrival \in Times
                         /\ j.rides \in 1 .. q.rounds

\* A ride that ends a chain of k rides at stop s: its trip runs that day, and
\* departs no earlier than k - 1 rides reach the stop it is boarded at.
Boardable(k, trip, board, offset) ==
  /\ \E d \in Streams : Offset(d) = offset /\ trip \in q.usable[d]
  /\ tau[k - 1][StopsOf(q.trip_pattern[trip])[board]] + offset <= q.departure[trip][board]
GoodRide(k, r, s) ==
  /\ r \in Rides
  /\ StopsOf(q.trip_pattern[r.trip])[r.alight] = s
  /\ Boardable(k, r.trip, r.board, r.offset)
RideOf(l) == [trip |-> l.trip, board |-> l.board, alight |-> l.alight, offset |-> l.offset]

\* Does label l explain an arrival at t?  A ride is alighted at its recorded
\* time, which the offset of the day before never clamps to zero; a footpath
\* starts no earlier than the stop it leaves is reached.
Explains(k, s, t, l) ==
  \/ /\ l.kind = "access" /\ k = 0
     /\ t = l.departure + l.duration
  \/ /\ l.kind = "transit" /\ k > 0
     /\ GoodRide(k, RideOf(l), s)
     /\ t + l.offset = q.arrival[l.trip][l.alight]
  \/ /\ l.kind = "transfer" /\ k > 0
     /\ [from |-> l.from, to |-> s, duration |-> l.duration] \in q.transfers
     /\ tau[k][l.from] + l.duration <= t
  \/ /\ l.kind = "walked ride" /\ k > 0
     /\ [from |-> l.from, to |-> s, duration |-> l.duration] \in q.transfers
     /\ GoodRide(k, RideOf(l), l.from)
     /\ t + l.offset = q.arrival[l.trip][l.alight] + l.duration

LabelConsistent(k, s) ==
  IF tau[k][s] = Unreached THEN labels[k][s] = NoLabel
                           ELSE Explains(k, s, tau[k][s], labels[k][s])

\* Every chain of labels is a journey that can be made, at every step of
\* every pass: the tables of earlier passes stay consistent while later ones
\* improve the arrivals they were built on (search.rs, reconstruct).
ChainsConsistent == \A k \in Rounds, s \in Stops : LabelConsistent(k, s)

\* best[k] is the prefix minimum of tau: pruning at k rides consults every
\* arrival with as few rides and never one with more.
BestIsPrefixMin ==
  \A k \in Rounds, s \in Stops :
    /\ \A j \in 0 .. k : best[k][s] <= tau[j][s]
    /\ \E j \in 0 .. k : best[k][s] = tau[j][s]

\* The trips that leave a stop together with t, on the same line and day.  A
\* scan that rides one of them does not change to another, so it may ride the
\* one that falls behind later on (Boarded compares departures only).
Twins(d, t, board) ==
  {u \in q.usable[d] : /\ q.trip_pattern[u] = q.trip_pattern[t]
                       /\ q.departure[u][board] = q.departure[t][board]}

\* Arriving at s at the instant at is nothing new to round k, nor is any
\* footpath on from there.  (Where a closed set's origin is as near to s, the
\* footpath is the access table's business.)
Served(k, s, at) ==
  /\ best[k][s] <= at
  /\ (q.closed => at < best[0][s])
     => \A e \in FootpathsFrom(s) : at + e.duration < Unreached => best[k][e.to] <= at + e.duration

AccessServed ==
  \A i \in 1 .. pass, a \in q.access :
    a.stop \notin q.excluded /\ q.departures[i] + a.duration < Unreached
    => best[0][a.stop] <= q.departures[i] + a.duration

RidesServed ==
  \A k \in 1 .. q.rounds, d \in Streams : \A t \in q.usable[d] :
    LET stops == StopsOf(q.trip_pattern[t]) IN
    \A board, alight \in 1 .. Len(stops) :
      /\ board < alight /\ stops[alight] \notin q.excluded
      /\ best[k - 1][stops[board]] + Offset(d) <= q.departure[t][board]
      => \E u \in Twins(d, t, board) : Served(k, stops[alight], q.arrival[u][alight] - Offset(d))

\* No way on is left out: when a pass has ended, no access link of a departure
\* so far, no ride that can be caught and no footpath behind it gets anywhere
\* sooner than the tables say, whatever the passes, marks, queued positions,
\* trips changed to, early exits and sidecars skipped.
PassClosed == pc \in {"collect", "next pass", "done"} => AccessServed /\ RidesServed

\* Across rounds and passes an arrival is only ever replaced by an earlier
\* one, and no arrival is touched in a round of another number of rides, until
\* the search is reset for another origin.
ArrivalsOnlyImprove ==
  [][q' = q =>
     \A k \in Rounds, s \in Stops :
       /\ tau'[k][s] <= tau[k][s]
       /\ best'[k][s] <= best[k][s]
       /\ labels'[k][s] # labels[k][s] => k = IF pc = "access" THEN 0 ELSE round]_vars
=============================================================================
