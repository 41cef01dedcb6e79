---------------------------- MODULE Raptor_proofs ---------------------------
(***************************************************************************)
(* Theorems about Raptor, for every timetable whose trips move forward in  *)
(* time, every transfer set, every request and any order of scans: its     *)
(* tables keep their types and explain their arrivals (RInv), it leaves no *)
(* way on out (PassClosed), its arrivals are exact (PassExact), and its    *)
(* journeys are the window's frontier (FrontierExact).                     *)
(*                                                                         *)
(* CInv says of every access link, ride and footpath that the arrivals     *)
(* found so far make possible either that the tables hold what it gives or *)
(* where the work on it waits: in the marks, in the queue, ahead of the    *)
(* scan, aboard the trip it rides, in the sidecar, or among the footpaths  *)
(* to relax.  Each action passes on the work it takes up (PassesOn) and    *)
(* marks what it lowers (MarksChanges).                                    *)
(*                                                                         *)
(* SInv says that every arrival is that of an access link, a ride, or one  *)
(* footpath behind a ride: no two footpaths in a row, though a label may   *)
(* name a stop that was walked to.  The two bound the arrivals of a pass   *)
(* from above and from below by the reference's, one round after the other.*)
(*                                                                         *)
(* EInv says what the thresholds remember of the journeys emitted, so that *)
(* none dominates another; FInv what the passes and rounds already         *)
(* collected answered, so that none is missing; and LInv what labels name, *)
(* so that following them back gives legs one can ride and walk.           *)
(***************************************************************************)
EXTENDS RaptorReference, FiniteSetsExt, WellFoundedInduction, FiniteSetTheorems,
        TLAPS

TablesOK ==
  /\ tau \in [Rounds -> [Stops -> 0 .. Unreached]]
  /\ best \in [Rounds -> [Stops -> 0 .. Unreached]]
  /\ labels \in [Rounds -> [Stops -> Labels]]
  /\ marked \subseteq Stops

LEMMA OffsetType == \A d \in Streams : Offset(d) \in {0, Day} /\ Offset(d) \in Nat
  BY TimeAssumption DEF Offset, Streams

LEMMA RoundsType == q \in Queries => q.rounds \in Nat \ {0} /\ Rounds \subseteq Nat /\ 0 \in Rounds
  BY QueriesAssumption DEF WellFormedRequest, Rounds

LEMMA ElementOfSeq == \A S : \A x \in Seq(S) : \A i \in 1 .. Len(x) : x[i] \in S
  OBVIOUS

\* A ride's stops are stops of its pattern, and its times are times of day.
LEMMA RideFacts ==
  ASSUME q \in Queries, NEW r \in Rides
  PROVE  /\ r.trip \in q.trips /\ r.board \in Nat /\ r.alight \in Nat /\ r.offset \in Nat
         /\ r.board < r.alight
         /\ q.trip_pattern[r.trip] \in DOMAIN q.pattern_stops
         /\ StopsOf(q.trip_pattern[r.trip])[r.board] \in Stops
         /\ StopsOf(q.trip_pattern[r.trip])[r.alight] \in Stops
         /\ q.arrival[r.trip][r.alight] \in Nat
         /\ q.departure[r.trip][r.board] \in Nat
         /\ q.departure[r.trip][r.board] <= q.arrival[r.trip][r.alight]
         /\ q.arrival[r.trip][r.alight] < Unreached
<1> DEFINE t == r.trip
           stops == StopsOf(q.trip_pattern[t])
<1>1. WellFormedTimetable(q)
  BY QueriesAssumption
<1>2. /\ t \in q.trips /\ r.board \in 1 .. Len(stops) /\ r.alight \in 1 .. Len(stops)
      /\ r.board < r.alight /\ r.offset \in Nat
  BY TimeAssumption DEF Rides
<1>3. q.trip_pattern[t] \in DOMAIN q.pattern_stops /\ stops \in Seq(Stops)
  BY <1>1, <1>2 DEF WellFormedTimetable, StopsOf
<1>4. q.arrival[t] \in Seq(Nat) /\ q.departure[t] \in Seq(Nat)
  BY <1>1, <1>2 DEF WellFormedTimetable
<1>5. Len(q.arrival[t]) = Len(stops) /\ Len(q.departure[t]) = Len(stops)
  BY <1>1, <1>2 DEF WellFormedTimetable, StopsOf
<1>6. /\ q.arrival[t][r.alight] \in Nat /\ q.departure[t][r.board] \in Nat
      /\ q.departure[t][r.alight] \in Nat
      /\ stops[r.board] \in Stops /\ stops[r.alight] \in Stops
  <2> HIDE DEF stops
  <2> QED BY ElementOfSeq, <1>2, <1>3, <1>4, <1>5
<1>7. /\ q.departure[t][r.board] <= q.arrival[t][r.alight]
      /\ q.arrival[t][r.alight] <= q.departure[t][r.alight]
      /\ q.departure[t][r.alight] < Unreached
  BY <1>1, <1>2 DEF WellFormedTimetable, StopsOf
<1>8. q.arrival[t][r.alight] < Unreached
  BY <1>6, <1>7, TimeAssumption
<1> QED BY <1>2, <1>3, <1>6, <1>7, <1>8

\* A boarded ride is alighted in the day: its shifted arrival is not clamped.
LEMMA RideTimes ==
  ASSUME q \in Queries, TablesOK, NEW k \in Rounds, k > 0, NEW s \in Stops, NEW r,
         GoodRide(k, r, s)
  PROVE  /\ AlightTime(r) \in Times
         /\ AlightTime(r) + r.offset = q.arrival[r.trip][r.alight]
<1> DEFINE b == StopsOf(q.trip_pattern[r.trip])[r.board]
<1>1. r \in Rides
  BY DEF GoodRide
<1>2. k - 1 \in Rounds
  BY RoundsType DEF Rounds
<1>3. tau[k - 1][b] \in 0 .. Unreached
  BY <1>1, <1>2, RideFacts DEF TablesOK
<1>4. tau[k - 1][b] + r.offset <= q.departure[r.trip][r.board]
  BY DEF GoodRide, Boardable
<1>5. r.offset <= q.arrival[r.trip][r.alight]
  <2> HIDE DEF b
  <2> QED BY <1>1, <1>3, <1>4, RideFacts
<1> QED BY <1>1, <1>5, RideFacts, TimeAssumption DEF AlightTime, OnTheDay, Times

\* What a label of each kind holds.
LEMMA LabelFields ==
  ASSUME NEW l \in Labels
  PROVE  /\ l.kind = "access" => l.departure \in Times /\ l.duration \in Nat
         /\ l.kind = "transfer" => l.from \in Stops /\ l.duration \in Nat
         /\ l.kind = "walked ride" => l.from \in Stops /\ l.duration \in Nat
         /\ l.kind = "unreached" => l = NoLabel
<1>1. CASE l = NoLabel
  BY <1>1 DEF NoLabel
<1>2. CASE l \in [kind : {"access"}, departure : Times, duration : Nat]
  BY <1>2
<1>3. CASE l \in [kind : {"transit"}, trip : q.trips, board : Nat, alight : Nat, offset : {0, Day}]
  BY <1>3
<1>4. CASE l \in [kind : {"transfer"}, from : Stops, duration : Nat]
  BY <1>4
<1>5. CASE l \in [kind : {"walked ride"}, from : Stops, duration : Nat,
                  trip : q.trips, board : Nat, alight : Nat, offset : {0, Day}]
  BY <1>5, ZenonT(60)
<1> QED BY <1>1, <1>2, <1>3, <1>4, <1>5 DEF Labels

----------------------------------------------------------------------------
(* The tables only fall, and what explains an arrival keeps explaining it. *)

Falls == /\ q' = q
         /\ TablesOK'
         /\ \A k \in Rounds, s \in Stops : tau'[k][s] <= tau[k][s] /\ best'[k][s] <= best[k][s]

LEMMA BoardableStays ==
  ASSUME q \in Queries, TablesOK, Falls, NEW k \in Rounds, k > 0,
         NEW r, NEW s, GoodRide(k, r, s)
  PROVE  GoodRide(k, r, s)'
<1> DEFINE b == StopsOf(q.trip_pattern[r.trip])[r.board]
<1>1. r \in Rides /\ Rides' = Rides
  BY DEF GoodRide, Rides, Falls, StopsOf
<1>2. k - 1 \in Rounds
  BY RoundsType DEF Rounds
<1>3. b \in Stops /\ r.offset \in Nat /\ q.departure[r.trip][r.board] \in Nat
  BY <1>1, RideFacts
<1>4. /\ tau[k - 1][b] \in 0 .. Unreached /\ tau'[k - 1][b] \in 0 .. Unreached
      /\ tau'[k - 1][b] <= tau[k - 1][b]
  <2> HIDE DEF b
  <2> QED BY <1>2, <1>3 DEF Falls, TablesOK, Rounds
<1>5. tau[k - 1][b] + r.offset <= q.departure[r.trip][r.board]
  BY DEF GoodRide, Boardable
<1>6. tau'[k - 1][b] + r.offset <= q.departure[r.trip][r.board]
  <2> HIDE DEF b
  <2> QED BY <1>3, <1>4, <1>5
<1> QED BY <1>1, <1>6 DEF GoodRide, Boardable, Falls, StopsOf

LEMMA ExplainsStays ==
  ASSUME q \in Queries, TablesOK, Falls, NEW k \in Rounds, NEW s \in Stops, NEW t, NEW l \in Labels,
         t \in Int, Explains(k, s, t, l)
  PROVE  Explains(k, s, t, l)'
<1>1. CASE l.kind = "access"
  BY <1>1 DEF Explains
<1>2. CASE l.kind = "transit"
  <2>1. k > 0 /\ GoodRide(k, RideOf(l), s)
    BY <1>2 DEF Explains
  <2>2. GoodRide(k, RideOf(l), s)'
    BY <2>1, BoardableStays
  <2> QED BY <1>2, <2>1, <2>2 DEF Explains, Falls
<1>3. CASE l.kind = "transfer"
  <2>1. l.from \in Stops /\ l.duration \in Nat
    BY <1>3, LabelFields
  <2>2. tau'[k][l.from] <= tau[k][l.from] /\ tau'[k][l.from] \in Int /\ tau[k][l.from] \in Int
    BY <2>1 DEF Falls, TablesOK, Rounds
  <2> QED BY <1>3, <2>1, <2>2 DEF Explains, Falls
<1>4. CASE l.kind = "walked ride"
  <2>1. k > 0 /\ GoodRide(k, RideOf(l), l.from)
    BY <1>4 DEF Explains
  <2>2. GoodRide(k, RideOf(l), l.from)'
    BY <2>1, BoardableStays
  <2> QED BY <1>4, <2>1, <2>2 DEF Explains, Falls
<1> QED BY <1>1, <1>2, <1>3, <1>4 DEF Explains

----------------------------------------------------------------------------
(* One write of the relaxations.                                          *)

Consistent == ChainsConsistent /\ BestIsPrefixMin

LEMMA RecordFalls ==
  ASSUME q \in Queries, q' = q, TablesOK, NEW k \in Rounds, NEW s \in Stops, NEW arrival \in Times,
         NEW l \in Labels, NEW contested \in BOOLEAN, BestIsPrefixMin,
         Record(k, s, arrival, l, contested)
  PROVE  /\ Falls
         /\ \A j \in Rounds : j # k => tau'[j] = tau[j] /\ labels'[j] = labels[j]
<1>1. Rounds' = Rounds /\ Labels' = Labels /\ arrival \in 0 .. Unreached
  <2>1. Rounds' = Rounds
    BY DEF Rounds
  <2>2. Labels' = Labels
    BY DEF Labels
  <2>3. arrival \in 0 .. Unreached
    BY TimeAssumption DEF Times
  <2> QED BY <2>1, <2>2, <2>3
<1>2. CASE Improves(k, s, arrival)
  <2>1. /\ tau' = [tau EXCEPT ![k][s] = arrival]
        /\ best' = Lowered(k, s, arrival)
        /\ labels' = [labels EXCEPT ![k][s] = l]
        /\ marked' = marked \cup {s}
    BY <1>2 DEF Record
  <2>2. \A j \in Rounds : \A u \in Stops :
          best'[j][u] = IF j >= k /\ u = s /\ arrival < best[j][s] THEN arrival ELSE best[j][u]
    BY <2>1 DEF Lowered, TablesOK
  <2>3. best' \in [Rounds -> [Stops -> 0 .. Unreached]]
    BY <1>1, <2>1 DEF Lowered, TablesOK
  <2>4. TablesOK'
    BY <1>1, <2>1, <2>3 DEF TablesOK
  <2>5. k \in Nat /\ best[k][s] <= tau[k][s] /\ arrival < best[k][s]
    BY <1>2, RoundsType DEF BestIsPrefixMin, Improves
  <2>6. \A j \in Rounds, u \in Stops : tau'[j][u] <= tau[j][u]
    <3> SUFFICES ASSUME NEW j \in Rounds, NEW u \in Stops PROVE tau'[j][u] <= tau[j][u]
      OBVIOUS
    <3>1. tau[j][u] \in Int /\ tau[k][s] \in Int /\ best[k][s] \in Int
      BY DEF TablesOK
    <3>2. tau'[j][u] = IF j = k /\ u = s THEN arrival ELSE tau[j][u]
      BY <2>1 DEF TablesOK
    <3> QED BY <3>1, <3>2, <2>5 DEF Times
  <2>7. \A j \in Rounds, u \in Stops : best'[j][u] <= best[j][u]
    <3> SUFFICES ASSUME NEW j \in Rounds, NEW u \in Stops PROVE best'[j][u] <= best[j][u]
      OBVIOUS
    <3>1. best[j][u] \in Int /\ best[j][s] \in Int
      BY DEF TablesOK
    <3> QED BY <2>2, <3>1 DEF Times
  <2>8. \A j \in Rounds : j # k => tau'[j] = tau[j] /\ labels'[j] = labels[j]
    BY <2>1 DEF TablesOK
  <2> QED BY <2>4, <2>6, <2>7, <2>8 DEF Falls
<1>3. CASE ~Improves(k, s, arrival)
  <2>1. /\ tau' = tau /\ best' = best
        /\ \/ labels' = [labels EXCEPT ![k][s] = l] /\ marked' = marked \cup {s}
           \/ labels' = labels /\ marked' = marked
    BY <1>3 DEF Record, tables
  <2>2. TablesOK'
    <3>1. [labels EXCEPT ![k][s] = l] \in [Rounds -> [Stops -> Labels]]
      BY DEF TablesOK
    <3> QED BY <1>1, <2>1, <3>1 DEF TablesOK
  <2>3. \A j \in Rounds, u \in Stops : tau[j][u] \in Int /\ best[j][u] \in Int
    BY DEF TablesOK
  <2> QED BY <2>1, <2>2, <2>3 DEF Falls, TablesOK
<1> QED BY <1>2, <1>3

\* A write keeps best the prefix minimum of tau.
LEMMA RecordPrefixMin ==
  ASSUME q \in Queries, q' = q, TablesOK, NEW k \in Rounds, NEW s \in Stops, NEW arrival \in Times,
         NEW l \in Labels, NEW contested \in BOOLEAN, BestIsPrefixMin,
         Record(k, s, arrival, l, contested)
  PROVE  BestIsPrefixMin'
<1>1. CASE Improves(k, s, arrival)
  <2> SUFFICES ASSUME NEW j \in Rounds, NEW u \in Stops
               PROVE  /\ \A i \in 0 .. j : best'[j][u] <= tau'[i][u]
                      /\ \E i \in 0 .. j : best'[j][u] = tau'[i][u]
    BY DEF BestIsPrefixMin, Rounds
  <2>1. /\ \A i \in Rounds : \A v \in Stops :
             tau'[i][v] = IF i = k /\ v = s THEN arrival ELSE tau[i][v]
        /\ best'[j][u] = IF j >= k /\ u = s /\ arrival < best[j][s] THEN arrival ELSE best[j][u]
    BY <1>1 DEF Record, Lowered, TablesOK
  <2>2. j \in Nat /\ k \in Nat /\ \A i \in 0 .. j : i \in Rounds
    BY RoundsType DEF Rounds
  <2>3. /\ \A i \in 0 .. j : best[j][u] <= tau[i][u] /\ tau[i][u] \in Int
        /\ best[j][u] \in Int /\ arrival \in Int
    BY <2>2 DEF BestIsPrefixMin, TablesOK, Times
  <2>4. PICK i \in 0 .. j : best[j][u] = tau[i][u]
    BY DEF BestIsPrefixMin
  <2>5. arrival < best[k][s] /\ best[k][s] <= tau[k][s] /\ best[k][s] \in Int /\ tau[k][s] \in Int
    BY <1>1, <2>2 DEF BestIsPrefixMin, Improves, TablesOK
  <2>6. CASE u # s
    BY <2>1, <2>2, <2>3, <2>4, <2>6
  <2>7. CASE u = s /\ j < k
    BY <2>1, <2>2, <2>3, <2>4, <2>7
  <2>8. CASE u = s /\ j >= k
    <3>1. \A h \in 0 .. j : best'[j][u] <= tau'[h][u]
      BY <2>1, <2>2, <2>3, <2>8
    <3>2. CASE arrival < best[j][s]
      <4>1. k \in 0 .. j /\ best'[j][u] = tau'[k][u]
        BY <2>1, <2>2, <2>8, <3>2
      <4> QED BY <3>1, <4>1
    <3>3. CASE ~(arrival < best[j][s])
      <4>1. i # k
        BY <2>3, <2>4, <2>5, <2>8, <3>3
      <4>2. best'[j][u] = tau'[i][u]
        BY <2>1, <2>2, <2>4, <4>1, <3>3
      <4> QED BY <3>1, <4>2
    <3> QED BY <3>2, <3>3
  <2> QED BY <2>2, <2>6, <2>7, <2>8
<1>2. CASE ~Improves(k, s, arrival)
  BY <1>2 DEF Record, tables, BestIsPrefixMin, Rounds
<1> QED BY <1>1, <1>2

\* A write of a label that explains its arrival keeps every chain consistent.
LEMMA RecordConsistent ==
  ASSUME q \in Queries, q' = q, TablesOK, NEW k \in Rounds, NEW s \in Stops, NEW arrival \in Times,
         NEW l \in Labels, NEW contested \in BOOLEAN, BestIsPrefixMin, ChainsConsistent,
         Record(k, s, arrival, l, contested), Explains(k, s, arrival, l)
  PROVE  ChainsConsistent'
<1>1. Falls
  BY RecordFalls
<1>2. Explains(k, s, arrival, l)'
  BY <1>1, ExplainsStays DEF Times
<1> SUFFICES ASSUME NEW j \in Rounds, NEW u \in Stops PROVE LabelConsistent(j, u)'
  BY DEF ChainsConsistent, Rounds
<1>3. LabelConsistent(j, u) /\ labels[j][u] \in Labels /\ tau[j][u] \in Int
  BY DEF ChainsConsistent, TablesOK
<1>4. \/ tau'[j][u] = tau[j][u] /\ labels'[j][u] = labels[j][u]
      \/ j = k /\ u = s /\ labels'[j][u] = l /\ tau'[j][u] = arrival
  BY DEF Record, Ties, tables, TablesOK
<1>5. CASE tau'[j][u] = tau[j][u] /\ labels'[j][u] = labels[j][u]
  <2>1. \A t \in Int, m \in Labels : Explains(j, u, t, m) => Explains(j, u, t, m)'
    BY <1>1, ExplainsStays
  <2> QED BY <1>3, <1>5, <2>1 DEF LabelConsistent
<1>6. CASE j = k /\ u = s /\ labels'[j][u] = l /\ tau'[j][u] = arrival
  BY <1>2, <1>6, TimeAssumption DEF LabelConsistent, Times
<1> QED BY <1>4, <1>5, <1>6

----------------------------------------------------------------------------
(* The inductive invariant.                                               *)

\* The trips ridden in a scan were caught on its pattern, behind the position
\* it is at, no earlier than the last round reached the stop.
BoardedGood ==
  pc \in InScan =>
    \A d \in Streams : currents[d] # NoRide =>
      /\ currents[d].trip \in q.usable[d]
      /\ q.trip_pattern[currents[d].trip] = pattern
      /\ currents[d].board \in 1 .. position - 1
      /\ tau[round - 1][StopsOf(pattern)[currents[d].board]] + Offset(d)
           <= q.departure[currents[d].trip][currents[d].board]

\* The sidecar holds rides of the round at work, while it scans.
TransitGood ==
  \A s \in Stops : transit[s] # NoRide =>
    /\ pc \in InScan \cup {"queue"}
    /\ GoodRide(round, transit[s], s)

\* A footpath to relax leaves where and when a label or a ride arrived.
PendingGood ==
  pc = "walk" =>
    \A w \in pending :
      /\ [from |-> w.from, to |-> w.to, duration |-> w.duration] \in q.transfers
      /\ w.ride = NoRide => tau[round][w.from] <= w.at
      /\ w.ride # NoRide => GoodRide(round, w.ride, w.from) /\ w.at = AlightTime(w.ride)

RInv == TypeOK /\ ChainsConsistent /\ BestIsPrefixMin /\ BoardedGood /\ TransitGood /\ PendingGood

\* A set of numbers that is not empty has a smallest one.
LEMMA SmallestElement ==
  ASSUME NEW S \in SUBSET Nat, S # {}
  PROVE  \E i \in S : \A j \in S : i <= j
<1>1. IsWellFoundedOn(OpToRel(<, Nat), Nat)
  BY NatLessThanWellFounded
<1>2. PICK i \in S : \A j \in S : ~(<<j, i>> \in OpToRel(<, Nat))
  BY <1>1, WFMin
<1>3. \A j \in S : ~(j < i)
  BY <1>2 DEF OpToRel
<1> QED BY <1>3

LEMMA TablesTyped == TypeOK => TablesOK /\ q \in Queries
  BY DEF TypeOK, TablesOK

\* What holds of the tables holds as long as nothing writes them.
LEMMA TablesSame ==
  ASSUME q \in Queries, q' = q, UNCHANGED <<tau, labels, best>>, marked' \subseteq Stops, TablesOK, ChainsConsistent, BestIsPrefixMin
  PROVE  TablesOK' /\ ChainsConsistent' /\ BestIsPrefixMin'
<1>1. Rounds' = Rounds /\ Labels' = Labels
  BY DEF Rounds, Labels
<1>2. TablesOK'
  BY <1>1 DEF TablesOK
<1>3. BestIsPrefixMin'
  BY <1>1 DEF BestIsPrefixMin
<1>4. ChainsConsistent'
  <2>1. Falls
    BY <1>2 DEF Falls, TablesOK
  <2> SUFFICES ASSUME NEW j \in Rounds, NEW u \in Stops PROVE LabelConsistent(j, u)'
    BY <1>1 DEF ChainsConsistent
  <2>2. LabelConsistent(j, u) /\ labels[j][u] \in Labels /\ tau[j][u] \in Int
    BY DEF ChainsConsistent, TablesOK
  <2>3. \A t \in Int, m \in Labels : Explains(j, u, t, m) => Explains(j, u, t, m)'
    BY <2>1, ExplainsStays, SMTT(30)
  <2> QED BY <2>2, <2>3 DEF LabelConsistent
<1> QED BY <1>2, <1>3, <1>4

LEMMA RideStays ==
  ASSUME q' = q, tau' = tau, NEW k, NEW r, NEW s, GoodRide(k, r, s)
  PROVE  GoodRide(k, r, s)'
  BY DEF GoodRide, Boardable, Rides, StopsOf

\* A search about to begin, fresh or reset: no arrival, no mark and no ride.
Blank ==
  /\ q \in Queries
  /\ pc = "next pass" /\ pass = 0 /\ round \in Rounds
  /\ tau = AllUnreached /\ best = AllUnreached
  /\ labels = [k \in Rounds |-> [s \in Stops |-> NoLabel]]
  /\ marked = {} /\ pending = {}
  /\ transit = [s \in Stops |-> NoRide]
  /\ DOMAIN queue_position \subseteq DOMAIN q.pattern_stops
  /\ \A p \in DOMAIN queue_position : queue_position[p] \in 1 .. Len(StopsOf(p))
  /\ currents \in [Streams -> {NoRide} \cup [trip : q.trips, board : Nat]]
  /\ thresholds \in [Rounds -> 0 .. Unreached]
  /\ \A j \in journeys : j.departure \in Times /\ j.arrival \in Times /\ j.rides \in 1 .. q.rounds

LEMMA InitBlank == Init => Blank
<1> SUFFICES ASSUME Init PROVE Blank
  OBVIOUS
<1>1. Unreached \in 0 .. Unreached
  BY TimeAssumption
<1>2. 0 \in Rounds
  BY RoundsType DEF Init
<1>3. currents \in [Streams -> {NoRide} \cup [trip : q.trips, board : Nat]]
  BY DEF Init
<1>4. thresholds \in [Rounds -> 0 .. Unreached]
  BY <1>1 DEF Init
<1> QED BY <1>2, <1>3, <1>4 DEF Init, Blank

LEMMA InvBlank == Blank => RInv
<1> SUFFICES ASSUME Blank PROVE RInv
  OBVIOUS
<1>1. q \in Queries /\ WellFormedRequest(q) /\ q.departures \in Seq(0 .. Unreached - 1)
  BY QueriesAssumption DEF Blank, WellFormedRequest
<1>2. TablesOK
  <2>1. Unreached \in 0 .. Unreached /\ NoLabel \in Labels
    BY TimeAssumption DEF Labels
  <2>2. AllUnreached \in [Rounds -> [Stops -> 0 .. Unreached]]
    BY <2>1 DEF AllUnreached
  <2>3. [k \in Rounds |-> [s \in Stops |-> NoLabel]] \in [Rounds -> [Stops -> Labels]]
    BY <2>1
  <2> QED BY <2>2, <2>3 DEF Blank, TablesOK
<1>3. NoRide \in {NoRide} \cup [trip : q.trips, board : Nat] /\ NoRide \in {NoRide} \cup Rides
  OBVIOUS
<1>4. TypeOK
  <2>1. pass \in 0 .. Len(q.departures) /\ round \in Rounds
    <3>1. Len(q.departures) \in Nat
      BY <1>1
    <3>2. pass = 0 /\ round \in Rounds
      BY DEF Blank
    <3> QED BY <3>1, <3>2
  <2>2. currents \in [Streams -> {NoRide} \cup [trip : q.trips, board : Nat]]
    BY DEF Blank
  <2>3. transit \in [Stops -> {NoRide} \cup Rides]
    BY <1>3 DEF Blank
  <2>4. thresholds \in [Rounds -> 0 .. Unreached]
    BY DEF Blank
  <2> QED BY <1>1, <1>2, <2>1, <2>2, <2>3, <2>4 DEF Blank, TypeOK, TablesOK, InRound, InScan
<1>5. ChainsConsistent
  BY DEF Blank, AllUnreached, ChainsConsistent, LabelConsistent
<1>6. BestIsPrefixMin
  <2> SUFFICES ASSUME NEW k \in Rounds, NEW s \in Stops
               PROVE  /\ \A j \in 0 .. k : best[k][s] <= tau[j][s]
                      /\ \E j \in 0 .. k : best[k][s] = tau[j][s]
    BY DEF BestIsPrefixMin
  <2>1. k \in 0 .. k /\ \A j \in 0 .. k : j \in Rounds
    BY <1>1, RoundsType DEF Rounds
  <2>2. \A j \in Rounds : tau[j][s] = Unreached /\ best[j][s] = Unreached
    BY DEF Blank, AllUnreached
  <2> QED BY <2>1, <2>2, TimeAssumption
<1>7. BoardedGood /\ TransitGood /\ PendingGood
  BY DEF Blank, BoardedGood, TransitGood, PendingGood, InScan
<1> QED BY <1>4, <1>5, <1>6, <1>7 DEF RInv

LEMMA InvInit == Init => RInv
BY InitBlank, InvBlank

----------------------------------------------------------------------------
(* The steps that write no table.                                         *)

LEMMA DeparturesSeq == q \in Queries => q.departures \in Seq(Times) /\ Len(q.departures) \in Nat
<1> SUFFICES ASSUME q \in Queries PROVE q.departures \in Seq(Times) /\ Len(q.departures) \in Nat
  OBVIOUS
<1>1. q.departures \in Seq(Times)
  BY QueriesAssumption DEF WellFormedRequest, Times
<1> QED BY <1>1

LEMMA InvStartPass == RInv /\ StartPass => RInv'
<1> SUFFICES ASSUME RInv, StartPass PROVE RInv'
  OBVIOUS
<1>1. /\ q' = q /\ UNCHANGED <<tau, labels, best>> /\ marked' = {}
      /\ q \in Queries /\ TablesOK /\ pc = "next pass" /\ pc' = "access"
  BY TablesTyped DEF RInv, StartPass
<1>2. TablesOK' /\ ChainsConsistent' /\ BestIsPrefixMin'
  BY <1>1, TablesSame DEF RInv
<1>3. TypeOK'
  <2>1. pass' \in 0 .. Len(q.departures) /\ pass' > 0
    <3>1. pass \in 0 .. Len(q.departures)
      BY DEF RInv, TypeOK
    <3>2. pass < Len(q.departures) /\ pass' = pass + 1
      BY DEF StartPass
    <3>3. Len(q.departures) \in Nat
      BY <1>1, DeparturesSeq
    <3> HIDE <1>1
    <3> QED BY <3>1, <3>2, <3>3
  <2>2. pending' \subseteq q.access
    BY DEF StartPass
  <2> QED BY <1>1, <1>2, <2>1, <2>2 DEF RInv, TypeOK, TablesOK, StartPass, scanning, emitted, InRound, InScan,
                                        StopsOf, Rides, Rounds
<1>4. BoardedGood' /\ TransitGood' /\ PendingGood'
  BY <1>1 DEF RInv, TransitGood, StartPass, BoardedGood, PendingGood, InScan
<1> QED BY <1>2, <1>3, <1>4 DEF RInv

LEMMA InvCollectPatterns == RInv /\ CollectPatterns => RInv'
<1> SUFFICES ASSUME RInv, CollectPatterns PROVE RInv'
  OBVIOUS
<1>1. /\ q' = q /\ UNCHANGED <<tau, labels, best>> /\ marked' = {}
      /\ q \in Queries /\ TablesOK /\ pc \in {"access", "next round"} /\ pc' = "queue"
  BY TablesTyped DEF RInv, CollectPatterns
<1>2. TablesOK' /\ ChainsConsistent' /\ BestIsPrefixMin'
  BY <1>1, TablesSame DEF RInv
<1>3. round' \in Rounds /\ round' > 0 /\ pass > 0 /\ pending' = {}
  <2>1. q.rounds \in Nat \ {0}
    BY <1>1, RoundsType
  <2>2. /\ round \in 0 .. q.rounds /\ pass > 0
        /\ pc = "next round" => round < q.rounds
        /\ pc = "next round" => pending = {}
    BY <1>1 DEF RInv, TypeOK, Rounds, InRound
  <2>3. round' = 1 \/ (pc = "next round" /\ round' = round + 1)
    BY DEF CollectPatterns
  <2>4. pending' = {}
    BY <2>2 DEF CollectPatterns
  <2>5. round' \in 0 .. q.rounds /\ round' > 0
    <3>1. CASE round' = 1
      BY <2>1, <3>1
    <3>2. CASE pc = "next round" /\ round' = round + 1
      <4>1. \A n \in Nat : \A r \in 0 .. n : r < n => r + 1 \in 0 .. n /\ r + 1 > 0
        OBVIOUS
      <4>2. q.rounds \in Nat /\ round \in 0 .. q.rounds /\ round < q.rounds
        BY <2>1, <2>2, <3>2
      <4> QED BY <4>1, <4>2, <3>2
    <3> QED BY <2>3, <3>1, <3>2
  <2> QED BY <2>2, <2>4, <2>5 DEF Rounds
<1>4. /\ DOMAIN queue_position' \subseteq DOMAIN q.pattern_stops
      /\ \A p \in DOMAIN queue_position' : queue_position'[p] \in 1 .. Len(StopsOf(p))
  <2>1. queue_position' =
          [p \in {p \in DOMAIN q.pattern_stops : MarkedPositions(p) # {}} |-> FirstMarked(p)]
    BY DEF CollectPatterns
  <2>2. ASSUME NEW p \in DOMAIN q.pattern_stops, MarkedPositions(p) # {}
        PROVE  FirstMarked(p) \in 1 .. Len(StopsOf(p))
    <3>1. MarkedPositions(p) \subseteq Nat /\ MarkedPositions(p) \subseteq 1 .. Len(StopsOf(p))
      BY DEF MarkedPositions
    <3>2. \E i \in MarkedPositions(p) : \A j \in MarkedPositions(p) : i <= j
      BY <2>2, <3>1, SmallestElement
    <3> QED BY <3>1, <3>2 DEF FirstMarked
  <2> QED BY <2>1, <2>2
<1>5. TypeOK'
  BY <1>1, <1>2, <1>3, <1>4 DEF RInv, TypeOK, TablesOK, CollectPatterns, emitted, InRound, InScan,
                                StopsOf, Rides, Rounds
<1>6. BoardedGood' /\ TransitGood' /\ PendingGood'
  BY <1>1 DEF RInv, TransitGood, CollectPatterns, BoardedGood, PendingGood, InScan
<1> QED BY <1>2, <1>5, <1>6 DEF RInv

LEMMA InvDequeuePattern ==
  ASSUME RInv, NEW p \in DOMAIN queue_position, DequeuePattern(p)
  PROVE  RInv'
<1>1. /\ q' = q /\ UNCHANGED <<tau, labels, best, marked>>
      /\ q \in Queries /\ TablesOK /\ marked \subseteq Stops
      /\ pc = "queue" /\ pc' = "alight today" /\ round' = round
  BY TablesTyped DEF RInv, DequeuePattern, tables, TablesOK
<1>2. TablesOK' /\ ChainsConsistent' /\ BestIsPrefixMin'
  BY <1>1, TablesSame DEF RInv
<1>3. currents' \in [Streams -> {NoRide} \cup [trip : q.trips, board : Nat]]
  BY DEF DequeuePattern
<1>4. TypeOK'
  BY <1>1, <1>2, <1>3 DEF RInv, TypeOK, TablesOK, DequeuePattern, emitted, InRound, InScan,
                          StopsOf, Rides, Rounds
<1>5. TransitGood'
  BY <1>1, RideStays DEF RInv, TransitGood, DequeuePattern, InScan
<1>6. BoardedGood' /\ PendingGood'
  BY <1>1 DEF DequeuePattern, BoardedGood, PendingGood
<1> QED BY <1>2, <1>4, <1>5, <1>6 DEF RInv

LEMMA InvEndRound == RInv /\ EndRound => RInv'
<1> SUFFICES ASSUME RInv, EndRound PROVE RInv'
  OBVIOUS
<1>1. /\ q' = q /\ UNCHANGED <<tau, labels, best, marked>>
      /\ q \in Queries /\ TablesOK /\ marked \subseteq Stops
      /\ pc = "walk" /\ pc' \in {"collect", "next round"} /\ pending' = {}
  BY TablesTyped DEF RInv, EndRound, tables, TablesOK
<1>2. TablesOK' /\ ChainsConsistent' /\ BestIsPrefixMin'
  BY <1>1, TablesSame DEF RInv
<1>3. round' \in Rounds /\ round' > 0 /\ (pc' = "next round" => round' < q.rounds)
  <2>1. q.rounds \in Nat \ {0} /\ round \in 0 .. q.rounds /\ round > 0
    BY <1>1, RoundsType DEF RInv, TypeOK, Rounds, InRound
  <2>2. CASE pc' = "collect" /\ round' = 1
    BY <2>1, <2>2 DEF Rounds
  <2>3. CASE round # q.rounds /\ round' = round
    <3>1. \A n \in Nat : \A r \in 0 .. n : r # n => r < n
      OBVIOUS
    <3> QED BY <2>1, <2>3, <3>1 DEF Rounds
  <2> QED BY <2>2, <2>3 DEF EndRound
<1>4. TypeOK'
  BY <1>1, <1>2, <1>3 DEF RInv, TypeOK, TablesOK, EndRound, scanning, emitted, InRound, InScan,
                          StopsOf, Rides, Rounds
<1>5. BoardedGood' /\ TransitGood' /\ PendingGood'
  BY <1>1 DEF RInv, TransitGood, EndRound, BoardedGood, PendingGood, InScan
<1> QED BY <1>2, <1>4, <1>5 DEF RInv

LEMMA InvFinish == RInv /\ Finish => RInv'
<1> SUFFICES ASSUME RInv, Finish PROVE RInv'
  OBVIOUS
<1>1. /\ q' = q /\ UNCHANGED <<tau, labels, best, marked>>
      /\ q \in Queries /\ TablesOK /\ marked \subseteq Stops
      /\ pc = "next pass" /\ pc' = "done"
  BY TablesTyped DEF RInv, Finish, tables, TablesOK
<1>2. TablesOK' /\ ChainsConsistent' /\ BestIsPrefixMin'
  BY <1>1, TablesSame DEF RInv
<1>3. TypeOK'
  BY <1>1, <1>2 DEF RInv, TypeOK, TablesOK, Finish, scanning, emitted, InRound, InScan,
                    StopsOf, Rides, Rounds
<1>4. BoardedGood' /\ TransitGood' /\ PendingGood'
  BY <1>1 DEF RInv, TransitGood, Finish, BoardedGood, PendingGood, InScan
<1> QED BY <1>2, <1>3, <1>4 DEF RInv

LEMMA InvStutter == RInv /\ UNCHANGED vars => RInv'
<1> SUFFICES ASSUME RInv, UNCHANGED vars PROVE RInv'
  OBVIOUS
<1>1. UNCHANGED vars /\ q \in Queries /\ TablesOK
  BY TablesTyped DEF RInv
<1>2. TablesOK' /\ ChainsConsistent' /\ BestIsPrefixMin'
  BY <1>1, TablesSame DEF RInv, vars, TablesOK
<1>3. TypeOK'
  BY <1>1, ZenonT(60) DEF RInv, TypeOK, vars, StopsOf, Rides, Rounds, Labels, Footpaths
<1>4. BoardedGood' /\ TransitGood' /\ PendingGood'
  BY <1>1, RideStays DEF RInv, TransitGood, BoardedGood, PendingGood, vars, StopsOf, AlightTime, OnTheDay
<1> QED BY <1>2, <1>3, <1>4 DEF RInv

\* What a pass emits: arrivals of the day, by as many rides as the tables count.
LEMMA InvCollect == RInv /\ Collect => RInv'
<1> SUFFICES ASSUME RInv, Collect PROVE RInv'
  OBVIOUS
<1>1. /\ q' = q /\ UNCHANGED <<tau, labels, best, marked>>
      /\ q \in Queries /\ TablesOK /\ marked \subseteq Stops
      /\ pc = "collect" /\ pc' \in {"collect", "next pass"} /\ pending' = pending
  BY TablesTyped DEF RInv, Collect, tables, TablesOK
<1>2. TablesOK' /\ ChainsConsistent' /\ BestIsPrefixMin'
  BY <1>1, TablesSame DEF RInv
<1>3. q.rounds \in Nat \ {0} /\ round \in 0 .. q.rounds /\ round > 0 /\ pass \in 1 .. Len(q.departures)
  <2>1. q.rounds \in Nat \ {0} /\ round \in 0 .. q.rounds /\ round > 0
    BY <1>1, RoundsType DEF RInv, TypeOK, Rounds, InRound
  <2>2. pass \in 0 .. Len(q.departures) /\ pass > 0
    BY <1>1 DEF RInv, TypeOK, InRound
  <2>3. Len(q.departures) \in Nat
    BY <1>1, DeparturesSeq
  <2> QED BY <2>1, <2>2, <2>3
<1>4. round' \in Rounds /\ round' > 0
  <2>1. CASE round = q.rounds /\ round' = round
    BY <1>3, <2>1 DEF Rounds
  <2>2. CASE round # q.rounds /\ round' = round + 1
    BY <1>3, <2>2 DEF Rounds
  <2> QED BY <2>1, <2>2 DEF Collect
<1>5. Now \in Times
  BY <1>1, <1>3, DeparturesSeq, ElementOfSeq DEF Now
<1>6. /\ thresholds' \in [Rounds -> 0 .. Unreached]
      /\ \A j \in journeys' : j.departure \in Times /\ j.arrival \in Times /\ j.rides \in 1 .. q.rounds
  <2>1. CASE EmitNothing
    BY <2>1 DEF EmitNothing, emitted, RInv, TypeOK
  <2>2. CASE EmitJourney
    <3>1. PICK e \in BestEgresses(round) :
            /\ Beats(ArrivalBy(round, e))
            /\ thresholds' = [k \in Rounds |-> Bar(k, ArrivalBy(round, e))]
            /\ journeys' = journeys \cup {[departure |-> Now, arrival |-> ArrivalBy(round, e), rides |-> round,
                                           egress |-> e, legs |-> Legs[<<round, e.stop>>]]}
      BY <2>2 DEF EmitJourney
    <3>2. e \in q.egress /\ e.stop \in Stops /\ e.duration \in Nat
      BY <1>1, <3>1, QueriesAssumption DEF BestEgresses, Egresses, WellFormedRequest
    <3>3. ArrivalBy(round, e) \in Times
      <4>1. tau[round][e.stop] \in 0 .. Unreached
        BY <1>1, <1>3, <3>2 DEF TablesOK, Rounds
      <4>2. tau[round][e.stop] + e.duration < Unreached
        BY <3>1 DEF BestEgresses, Egresses
      <4> QED BY <3>2, <4>1, <4>2, TimeAssumption DEF ArrivalBy, Times
    <3>4. \A k \in Rounds : Bar(k, ArrivalBy(round, e)) \in 0 .. Unreached
      <4>1. \A k \in Rounds : thresholds[k] \in 0 .. Unreached
        BY DEF RInv, TypeOK
      <4>2. ArrivalBy(round, e) \in 0 .. Unreached
        BY <3>3, TimeAssumption DEF Times
      <4> QED BY <4>1, <4>2 DEF Bar
    <3>5. \A j \in journeys : j.departure \in Times /\ j.arrival \in Times /\ j.rides \in 1 .. q.rounds
      BY DEF RInv, TypeOK
    <3>6. round \in 1 .. q.rounds
      BY <1>3
    <3> QED BY <3>1, <3>3, <3>4, <3>5, <3>6, <1>5
  <2> QED BY <2>1, <2>2 DEF Collect
<1>7. TypeOK'
  BY <1>1, <1>2, <1>3, <1>4, <1>6 DEF RInv, TypeOK, TablesOK, Collect, scanning, InRound, InScan,
                                StopsOf, Rides, Rounds
<1>8. BoardedGood' /\ TransitGood' /\ PendingGood'
  BY <1>1 DEF RInv, TransitGood, Collect, BoardedGood, PendingGood, InScan
<1> QED BY <1>2, <1>7, <1>8 DEF RInv

----------------------------------------------------------------------------
(* The steps that write the tables, and those that prepare the writes.    *)

\* A relaxation, whether or not its arrival is a time of day, keeps the
\* tables consistent if its label explains the arrival.
LEMMA RelaxTables ==
  ASSUME RInv, q' = q, NEW k \in Rounds, NEW s \in Stops, NEW arrival, NEW l \in Labels,
         NEW contested \in BOOLEAN,
         \/ UNCHANGED tables
         \/ arrival \in Times /\ Explains(k, s, arrival, l) /\ Record(k, s, arrival, l, contested)
  PROVE  /\ TablesOK' /\ ChainsConsistent' /\ BestIsPrefixMin' /\ Falls
         /\ \A j \in Rounds : j # k => tau'[j] = tau[j] /\ labels'[j] = labels[j]
<1>1. TablesOK /\ q \in Queries /\ ChainsConsistent /\ BestIsPrefixMin
  BY TablesTyped DEF RInv
<1>2. CASE UNCHANGED tables
  <2>1. TablesOK' /\ ChainsConsistent' /\ BestIsPrefixMin'
    BY <1>1, <1>2, TablesSame DEF tables, TablesOK
  <2>2. Falls
    BY <1>1, <1>2, <2>1 DEF Falls, tables, TablesOK
  <2> QED BY <1>2, <2>1, <2>2 DEF tables
<1>3. CASE arrival \in Times /\ Explains(k, s, arrival, l) /\ Record(k, s, arrival, l, contested)
  <2>1. /\ Falls
        /\ \A j \in Rounds : j # k => tau'[j] = tau[j] /\ labels'[j] = labels[j]
    BY <1>1, <1>3, RecordFalls
  <2>2. BestIsPrefixMin'
    BY <1>1, <1>3, RecordPrefixMin
  <2>3. ChainsConsistent'
    BY <1>1, <1>3, RecordConsistent
  <2> QED BY <2>1, <2>2, <2>3 DEF Falls
<1> QED BY <1>2, <1>3

LEMMA SeedRelaxes ==
  ASSUME RInv, NEW a \in pending, SeedAccess(a)
  PROVE  /\ a.stop \in Stops
         /\ 0 \in Rounds
         /\ AccessLabel(Now, a.duration) \in Labels
         /\ \/ UNCHANGED tables
            \/ /\ Now + a.duration \in Times
               /\ Explains(0, a.stop, Now + a.duration, AccessLabel(Now, a.duration))
               /\ Record(0, a.stop, Now + a.duration, AccessLabel(Now, a.duration), TRUE)
<1>1. q \in Queries /\ pc = "access" /\ 0 \in Rounds
  BY RoundsType DEF RInv, TypeOK, SeedAccess
<1>2. a.stop \in Stops /\ a.duration \in Nat
  <2>1. a \in q.access
    BY <1>1 DEF RInv, TypeOK
  <2> QED BY <1>1, <2>1, QueriesAssumption DEF WellFormedRequest
<1>3. Now \in Times
  <2>1. pass \in 0 .. Len(q.departures) /\ pass > 0
    BY <1>1 DEF RInv, TypeOK
  <2>2. pass \in 1 .. Len(q.departures)
    BY <1>1, <2>1, DeparturesSeq
  <2> QED BY <1>1, <2>2, DeparturesSeq, ElementOfSeq DEF Now
<1>4. AccessLabel(Now, a.duration) \in Labels
  <2>1. AccessLabel(Now, a.duration) \in [kind : {"access"}, departure : Times, duration : Nat]
    BY <1>2, <1>3 DEF AccessLabel
  <2> QED BY <2>1 DEF Labels
<1>5. Now + a.duration < Unreached => Now + a.duration \in Times
  BY <1>2, <1>3, TimeAssumption DEF Times
<1>6. Explains(0, a.stop, Now + a.duration, AccessLabel(Now, a.duration))
  BY DEF Explains, AccessLabel
<1>7. \/ UNCHANGED tables
      \/ /\ Now + a.duration < Unreached
         /\ Record(0, a.stop, Now + a.duration, AccessLabel(Now, a.duration), TRUE)
  BY DEF SeedAccess
<1> QED BY <1>1, <1>2, <1>4, <1>5, <1>6, <1>7

LEMMA InvSeedAccess ==
  ASSUME RInv, NEW a \in pending, SeedAccess(a)
  PROVE  RInv'
<1>1. q' = q /\ q \in Queries /\ pc = "access" /\ pc' = "access"
  BY DEF RInv, TypeOK, SeedAccess
<1>2. TablesOK' /\ ChainsConsistent' /\ BestIsPrefixMin'
  BY <1>1, SeedRelaxes, RelaxTables
<1>3. TypeOK'
  BY <1>1, <1>2 DEF RInv, TypeOK, TablesOK, SeedAccess, scanning, emitted, InRound, InScan,
                    StopsOf, Rides, Rounds
<1>4. BoardedGood' /\ TransitGood' /\ PendingGood'
  BY <1>1 DEF RInv, TransitGood, SeedAccess, BoardedGood, PendingGood, InScan
<1> QED BY <1>2, <1>3, <1>4 DEF RInv

\* A footpath's arrival is explained by the label it is recorded with.
LEMMA WalkRelaxes ==
  ASSUME RInv, NEW w \in pending, Walk(w)
  PROVE  \E l \in Labels, arrival \in Nat, contested \in BOOLEAN :
           /\ round \in Rounds /\ w.to \in Stops
           /\ \/ UNCHANGED tables
              \/ /\ arrival \in Times
                 /\ Explains(round, w.to, arrival, l)
                 /\ Record(round, w.to, arrival, l, contested)
<1> DEFINE arrival == w.at + w.duration
           l == IF w.ride = NoRide THEN TransferLabel(w.from, w.duration)
                                   ELSE TransferFromRideLabel(w.from, w.duration, w.ride)
<1>1. /\ q \in Queries /\ TablesOK /\ pc = "walk" /\ round \in Rounds /\ round > 0
      /\ w \in Footpaths
  BY TablesTyped DEF RInv, TypeOK, Walk, InRound
<1>2. /\ w.from \in Stops /\ w.to \in Stops /\ w.at \in 0 .. Unreached /\ w.duration \in Nat
      /\ w.ride \in {NoRide} \cup Rides
  BY <1>1 DEF Footpaths
<1>3. /\ [from |-> w.from, to |-> w.to, duration |-> w.duration] \in q.transfers
      /\ w.ride = NoRide => tau[round][w.from] <= w.at
      /\ w.ride # NoRide => GoodRide(round, w.ride, w.from) /\ w.at = AlightTime(w.ride)
  BY <1>1 DEF RInv, PendingGood
<1>4. arrival \in Nat /\ (arrival < Unreached => arrival \in Times)
  BY <1>2, TimeAssumption DEF Times
<1>5. l \in Labels /\ Explains(round, w.to, arrival, l)
  <2>1. CASE w.ride = NoRide
    <3>1. l = [kind |-> "transfer", from |-> w.from, duration |-> w.duration]
      BY <2>1 DEF TransferLabel
    <3>2. l \in [kind : {"transfer"}, from : Stops, duration : Nat]
      BY <1>2, <3>1
    <3>3. tau[round][w.from] \in 0 .. Unreached
      BY <1>1, <1>2 DEF TablesOK
    <3>4. tau[round][w.from] + w.duration <= arrival
      BY <1>2, <1>3, <2>1, <3>3 DEF Times
    <3> HIDE DEF l, arrival
    <3> QED BY <1>1, <1>3, <3>1, <3>2, <3>4 DEF Labels, Explains
  <2>2. CASE w.ride # NoRide
    <3> DEFINE r == w.ride
    <3>1. l = [kind |-> "walked ride", from |-> w.from, duration |-> w.duration,
               trip |-> r.trip, board |-> r.board, alight |-> r.alight, offset |-> r.offset]
      BY <2>2 DEF TransferFromRideLabel
    <3>2. r \in Rides /\ r \in [trip : q.trips, board : Nat, alight : Nat, offset : {0, Day}]
      BY <1>2, <2>2 DEF Rides
    <3> HIDE DEF r, l
    <3>3. l \in [kind : {"walked ride"}, from : Stops, duration : Nat,
                 trip : q.trips, board : Nat, alight : Nat, offset : {0, Day}]
      <4>1. r.trip \in q.trips /\ r.board \in Nat /\ r.alight \in Nat /\ r.offset \in {0, Day}
        BY <3>2
      <4> QED BY <1>2, <3>1, <4>1
    <3>4. RideOf(l) = r
      <4>1. r = [trip |-> r.trip, board |-> r.board, alight |-> r.alight, offset |-> r.offset]
        BY <3>2
      <4>2. /\ l.trip = r.trip /\ l.board = r.board /\ l.alight = r.alight /\ l.offset = r.offset
        BY <3>1
      <4> QED BY <4>1, <4>2 DEF RideOf
    <3> USE DEF r
    <3>5. GoodRide(round, r, w.from) /\ w.at = AlightTime(r)
      BY <1>3, <2>2
    <3>6. w.at + r.offset = q.arrival[r.trip][r.alight]
      BY <1>1, <1>2, <3>5, RideTimes
    <3>7. arrival + r.offset = q.arrival[r.trip][r.alight] + w.duration
      <4>1. w.at \in Int /\ w.duration \in Int /\ r.offset \in Int
        BY <1>1, <1>2, <3>2, RideFacts DEF Times
      <4> QED BY <3>6, <4>1
    <3> HIDE DEF arrival, r
    <3> QED BY <1>1, <1>3, <3>1, <3>3, <3>4, <3>5, <3>7 DEF Labels, Explains
  <2> QED BY <2>1, <2>2
<1>6. \/ UNCHANGED tables
      \/ arrival < Unreached /\ Record(round, w.to, arrival, l, w.ride = NoRide)
  BY DEF Walk
<1> HIDE DEF l, arrival
<1>7. (w.ride = NoRide) \in BOOLEAN
  OBVIOUS
<1> QED BY <1>1, <1>2, <1>4, <1>5, <1>6, <1>7

LEMMA InvWalk ==
  ASSUME RInv, NEW w \in pending, Walk(w)
  PROVE  RInv'
<1>1. /\ q' = q /\ q \in Queries /\ TablesOK /\ pc = "walk" /\ pc' = "walk"
      /\ round \in Rounds /\ round > 0 /\ round' = round /\ pending' \subseteq pending
  BY TablesTyped DEF RInv, TypeOK, Walk, InRound
<1>2. TablesOK' /\ ChainsConsistent' /\ BestIsPrefixMin' /\ Falls
  <2>1. PICK l \in Labels, arrival \in Nat, contested \in BOOLEAN :
           /\ round \in Rounds /\ w.to \in Stops
           /\ \/ UNCHANGED tables
              \/ /\ arrival \in Times
                 /\ Explains(round, w.to, arrival, l)
                 /\ Record(round, w.to, arrival, l, contested)
    BY WalkRelaxes
  <2> QED BY <1>1, <2>1, RelaxTables
<1>3. TypeOK'
  BY <1>1, <1>2, SMTT(30) DEF RInv, TypeOK, TablesOK, Walk, scanning, emitted, InRound, InScan,
                    StopsOf, Rides, Rounds, Footpaths
<1>4. BoardedGood' /\ TransitGood'
  BY <1>1 DEF RInv, TransitGood, Walk, BoardedGood, InScan
<1>5. PendingGood'
  <2> SUFFICES ASSUME NEW u \in pending
               PROVE  /\ [from |-> u.from, to |-> u.to, duration |-> u.duration] \in q.transfers
                      /\ u.ride = NoRide => tau'[round][u.from] <= u.at
                      /\ u.ride # NoRide => GoodRide(round, u.ride, u.from)' /\ u.at = AlightTime(u.ride)
    BY <1>1 DEF PendingGood, AlightTime, OnTheDay
  <2>1. /\ [from |-> u.from, to |-> u.to, duration |-> u.duration] \in q.transfers
        /\ u.ride = NoRide => tau[round][u.from] <= u.at
        /\ u.ride # NoRide => GoodRide(round, u.ride, u.from) /\ u.at = AlightTime(u.ride)
    BY <1>1 DEF RInv, PendingGood
  <2>2. u.from \in Stops /\ u.at \in Int
    BY <1>1, SMTT(30) DEF RInv, TypeOK, Footpaths, Times
  <2>3. tau'[round][u.from] <= tau[round][u.from] /\ tau'[round][u.from] \in Int /\ tau[round][u.from] \in Int
    BY <1>1, <1>2, <2>2 DEF Falls, TablesOK, Rounds
  <2>4. GoodRide(round, u.ride, u.from) => GoodRide(round, u.ride, u.from)'
    BY <1>1, <1>2, BoardableStays
  <2> QED BY <2>1, <2>2, <2>3, <2>4
<1> QED BY <1>2, <1>3, <1>4, <1>5 DEF RInv

\* The footpaths a round sets out on leave where and when it arrived.
LEMMA SourcesGood ==
  ASSUME RInv, pc = "queue", NEW v \in WalkSources
  PROVE  /\ v.from \in Stops /\ v.at \in 0 .. Unreached /\ v.ride \in {NoRide} \cup Rides
         /\ v.ride = NoRide => tau[round][v.from] <= v.at
         /\ v.ride # NoRide => GoodRide(round, v.ride, v.from) /\ v.at = AlightTime(v.ride)
<1>1. q \in Queries /\ TablesOK /\ round \in Rounds /\ round > 0
  BY TablesTyped DEF RInv, TypeOK, InRound
<1>2. CASE q.closed
  <2>1. PICK s \in marked : v = [from |-> s, at |-> tau[round][s], ride |-> NoRide]
    BY <1>2 DEF WalkSources
  <2>2. s \in Stops /\ tau[round][s] \in 0 .. Unreached
    BY <1>1 DEF TablesOK
  <2> QED BY <2>1, <2>2
<1>3. CASE ~q.closed
  <2>1. PICK s \in Stops : /\ transit[s] # NoRide
                           /\ v = [from |-> s, at |-> AlightTime(transit[s]), ride |-> transit[s]]
    BY <1>3 DEF WalkSources
  <2>2. GoodRide(round, transit[s], s) /\ transit[s] \in Rides
    BY <2>1 DEF RInv, TransitGood, GoodRide
  <2>3. AlightTime(transit[s]) \in 0 .. Unreached
    BY <1>1, <2>2, RideTimes, TimeAssumption DEF Times
  <2> QED BY <2>1, <2>2, <2>3
<1> QED BY <1>2, <1>3

LEMMA InvStartWalking == RInv /\ StartWalking => RInv'
<1> SUFFICES ASSUME RInv, StartWalking PROVE RInv'
  OBVIOUS
<1>1. /\ q' = q /\ UNCHANGED <<tau, labels, best, marked>>
      /\ q \in Queries /\ TablesOK /\ marked \subseteq Stops
      /\ pc = "queue" /\ pc' = "walk" /\ round' = round
      /\ transit' = [s \in Stops |-> NoRide]
  BY TablesTyped DEF RInv, StartWalking, tables, TablesOK
<1>2. TablesOK' /\ ChainsConsistent' /\ BestIsPrefixMin'
  BY <1>1, TablesSame DEF RInv
<1>3. ASSUME NEW w \in pending'
      PROVE  /\ w \in Footpaths
             /\ [from |-> w.from, to |-> w.to, duration |-> w.duration] \in q.transfers
             /\ w.ride = NoRide => tau[round][w.from] <= w.at
             /\ w.ride # NoRide => GoodRide(round, w.ride, w.from) /\ w.at = AlightTime(w.ride)
  <2>1. PICK v \in WalkSources : \E e \in FootpathsFrom(v.from) : w = Departing(v, e)
    BY <1>3 DEF StartWalking
  <2>2. PICK e \in FootpathsFrom(v.from) : w = Departing(v, e)
    BY <2>1
  <2>3. e \in q.transfers /\ e.from = v.from
    BY <2>2 DEF FootpathsFrom
  <2>4. e \in [from : Stops, to : Stops, duration : Nat]
    BY <1>1, <2>3, QueriesAssumption DEF WellFormedTransfers
  <2>5. w = [from |-> v.from, at |-> v.at, ride |-> v.ride, to |-> e.to, duration |-> e.duration]
    BY <2>2 DEF Departing
  <2>6. /\ v.from \in Stops /\ v.at \in 0 .. Unreached /\ v.ride \in {NoRide} \cup Rides
        /\ v.ride = NoRide => tau[round][v.from] <= v.at
        /\ v.ride # NoRide => GoodRide(round, v.ride, v.from) /\ v.at = AlightTime(v.ride)
    BY <1>1, SourcesGood
  <2>7. /\ w.from = v.from /\ w.at = v.at /\ w.ride = v.ride /\ w.to = e.to /\ w.duration = e.duration
    BY <2>5
  <2>8. w \in Footpaths
    BY <2>4, <2>5, <2>6 DEF Footpaths
  <2>9. [from |-> w.from, to |-> w.to, duration |-> w.duration] = e
    <3>1. e = [from |-> e.from, to |-> e.to, duration |-> e.duration]
      BY <2>4
    <3> QED BY <3>1, <2>3, <2>7
  <2> QED BY <2>3, <2>6, <2>7, <2>8, <2>9
<1>4. transit' \in [Stops -> {NoRide} \cup Rides]
  BY <1>1
<1>5. pending' \subseteq Footpaths
  BY <1>3
<1>6. TypeOK'
  BY <1>1, <1>2, <1>4, <1>5 DEF RInv, TypeOK, TablesOK, StartWalking, scanning, emitted, InRound, InScan,
                    StopsOf, Rides, Rounds, Footpaths
<1>7. PendingGood'
  <2>1. \A k, r, s : GoodRide(k, r, s) => GoodRide(k, r, s)'
    BY <1>1, RideStays
  <2> QED BY <1>1, <1>3, <2>1 DEF PendingGood, AlightTime, OnTheDay
<1>8. BoardedGood' /\ TransitGood'
  BY <1>1 DEF BoardedGood, TransitGood, InScan
<1> QED BY <1>2, <1>6, <1>7, <1>8 DEF RInv

\* Where a scan stands.
LEMMA ScanHere ==
  ASSUME RInv, pc \in InScan
  PROVE  /\ q \in Queries /\ TablesOK /\ round \in Rounds /\ round > 0 /\ round - 1 \in Rounds
         /\ pattern \in DOMAIN q.pattern_stops
         /\ StopsOf(pattern) \in Seq(Stops) /\ Len(StopsOf(pattern)) \in Nat
         /\ position \in 1 .. Len(StopsOf(pattern))
         /\ StopHere \in Stops
<1>1. /\ q \in Queries /\ TablesOK /\ round \in Rounds /\ round > 0
      /\ pattern \in DOMAIN q.pattern_stops
      /\ position \in 1 .. Len(StopsOf(pattern))
  BY TablesTyped DEF RInv, TypeOK, InRound
<1>2. StopsOf(pattern) \in Seq(Stops)
  BY <1>1, QueriesAssumption DEF WellFormedTimetable, StopsOf
<1>3. StopHere \in Stops /\ Len(StopsOf(pattern)) \in Nat
  BY <1>1, <1>2, ElementOfSeq DEF StopHere
<1>4. round - 1 \in Rounds
  BY <1>1, RoundsType DEF Rounds
<1> QED BY <1>1, <1>2, <1>3, <1>4

\* The ride alighted from is one the round may record.
LEMMA RideHere ==
  ASSUME RInv, pc \in InScan, NEW d \in Streams, currents[d] # NoRide
  PROVE  GoodRide(round, Ride(d), StopHere)
<1> DEFINE t == currents[d].trip
           b == currents[d].board
<1>1. /\ t \in q.usable[d] /\ q.trip_pattern[t] = pattern /\ b \in 1 .. position - 1
      /\ tau[round - 1][StopsOf(pattern)[b]] + Offset(d) <= q.departure[t][b]
  BY DEF RInv, BoardedGood
<1>2. t \in q.trips
  BY <1>1, ScanHere, QueriesAssumption DEF WellFormedRequest
<1>3. /\ position \in 1 .. Len(StopsOf(pattern)) /\ Len(StopsOf(pattern)) \in Nat
  BY ScanHere
<1>4. b \in Nat /\ b < position /\ b \in 1 .. Len(StopsOf(pattern)) /\ position \in Nat
  BY <1>1, <1>3
<1>5. Ride(d) = [trip |-> t, board |-> b, alight |-> position, offset |-> Offset(d)]
  BY DEF Ride
<1> HIDE DEF t, b
<1>6. Ride(d) \in [trip : q.trips, board : Nat, alight : Nat, offset : {0, Day}]
  BY <1>2, <1>4, <1>5, OffsetType
<1>7. /\ Ride(d).trip = t /\ Ride(d).board = b /\ Ride(d).alight = position /\ Ride(d).offset = Offset(d)
  BY <1>5
<1>8. Ride(d) \in Rides
  BY <1>1, <1>3, <1>4, <1>6, <1>7 DEF Rides
<1> QED BY <1>1, <1>7, <1>8 DEF GoodRide, Boardable, StopHere

\* An alighting is recorded with a label that explains it.
LEMMA AlightRelaxes ==
  ASSUME RInv, NEW d \in Streams, Alight(d)
  PROVE  \E l \in Labels, arrival \in Nat, contested \in BOOLEAN :
           \/ UNCHANGED tables
           \/ /\ arrival \in Times
              /\ Explains(round, StopHere, arrival, l)
              /\ Record(round, StopHere, arrival, l, contested)
<1>1. pc \in InScan
  BY DEF Alight, InScan
<1>2. CASE UNCHANGED tables
  BY <1>2 DEF Labels
<1>3. CASE ~(UNCHANGED tables)
  <2> DEFINE r == Ride(d)
             l == TransitLabel(r)
  <2>1. currents[d] # NoRide /\ Record(round, StopHere, AlightTime(r), l, TRUE)
    BY <1>3 DEF Alight
  <2>2. GoodRide(round, r, StopHere)
    BY <1>1, <2>1, RideHere
  <2>3. r \in Rides /\ r \in [trip : q.trips, board : Nat, alight : Nat, offset : {0, Day}]
    BY <2>2 DEF GoodRide, Rides
  <2>4. AlightTime(r) \in Times /\ AlightTime(r) + r.offset = q.arrival[r.trip][r.alight]
    BY <1>1, <2>2, ScanHere, RideTimes
  <2>5. l = [kind |-> "transit", trip |-> r.trip, board |-> r.board, alight |-> r.alight, offset |-> r.offset]
    BY DEF TransitLabel
  <2> HIDE DEF r, l
  <2>6. l \in [kind : {"transit"}, trip : q.trips, board : Nat, alight : Nat, offset : {0, Day}]
    <3>1. r.trip \in q.trips /\ r.board \in Nat /\ r.alight \in Nat /\ r.offset \in {0, Day}
      BY <2>3
    <3> QED BY <2>5, <3>1
  <2>7. RideOf(l) = r
    <3>1. r = [trip |-> r.trip, board |-> r.board, alight |-> r.alight, offset |-> r.offset]
      BY <2>3
    <3>2. /\ l.trip = r.trip /\ l.board = r.board /\ l.alight = r.alight /\ l.offset = r.offset
      BY <2>5
    <3> QED BY <3>1, <3>2 DEF RideOf
  <2>8. Explains(round, StopHere, AlightTime(r), l)
    BY <1>1, <2>2, <2>4, <2>5, <2>7, ScanHere DEF Explains
  <2>9. l \in Labels
    BY <2>6 DEF Labels
  <2>10. AlightTime(r) \in Nat
    BY <2>4, TimeAssumption DEF Times
  <2> QED BY <2>1, <2>4, <2>8, <2>9, <2>10
<1> QED BY <1>2, <1>3

LEMMA InvAlight ==
  ASSUME RInv, NEW d \in Streams, Alight(d)
  PROVE  RInv'
<1>1. /\ q' = q /\ pc \in InScan /\ pc' \in InScan /\ round' = round /\ currents' = currents
      /\ position' = position /\ pattern' = pattern
  BY DEF Alight, InScan, scanning
<1>2. /\ q \in Queries /\ TablesOK /\ round \in Rounds /\ round > 0 /\ round - 1 \in Rounds
      /\ StopHere \in Stops
  BY <1>1, ScanHere
<1>3. /\ TablesOK' /\ ChainsConsistent' /\ BestIsPrefixMin' /\ Falls
      /\ \A j \in Rounds : j # round => tau'[j] = tau[j]
  <2>1. PICK l \in Labels, arrival \in Nat, contested \in BOOLEAN :
           \/ UNCHANGED tables
           \/ /\ arrival \in Times
              /\ Explains(round, StopHere, arrival, l)
              /\ Record(round, StopHere, arrival, l, contested)
    BY AlightRelaxes
  <2> QED BY <1>1, <1>2, <2>1, RelaxTables
<1>4. transit' = transit \/ (currents[d] # NoRide /\ transit' = [transit EXCEPT ![StopHere] = Ride(d)])
  BY DEF Alight, NoteTransit
<1>5. currents[d] # NoRide => GoodRide(round, Ride(d), StopHere) /\ Ride(d) \in Rides
  BY <1>1, RideHere DEF GoodRide
<1>6. transit' \in [Stops -> {NoRide} \cup Rides]
  <2>1. transit \in [Stops -> {NoRide} \cup Rides]
    BY DEF RInv, TypeOK
  <2> QED BY <1>4, <1>5, <2>1
<1>7. TypeOK'
  BY <1>1, <1>2, <1>3, <1>6 DEF RInv, TypeOK, TablesOK, Alight, scanning, emitted, InRound, InScan,
                    StopsOf, Rides, Rounds, Footpaths
<1>8. TransitGood'
  <2> SUFFICES ASSUME NEW s \in Stops, transit'[s] # NoRide, NEW r, r = transit'[s], NEW k, k = round
               PROVE  GoodRide(k, r, s)'
    BY <1>1 DEF TransitGood
  <2>1. GoodRide(k, r, s)
    <3>1. transit[s] # NoRide => GoodRide(round, transit[s], s)
      BY DEF RInv, TransitGood
    <3>2. transit \in [Stops -> {NoRide} \cup Rides]
      BY DEF RInv, TypeOK
    <3> QED BY <1>4, <1>5, <3>1, <3>2
  <2> QED BY <1>2, <1>3, <2>1, BoardableStays
<1>9. BoardedGood'
  <2>1. tau'[round - 1] = tau[round - 1]
    <3>1. round - 1 # round
      BY <1>2, RoundsType
    <3> QED BY <1>2, <1>3, <3>1
  <2> QED BY <1>1, <2>1 DEF RInv, BoardedGood, StopsOf
<1>10. PendingGood'
  BY <1>1 DEF PendingGood, InScan
<1> QED BY <1>3, <1>7, <1>8, <1>9, <1>10 DEF RInv

\* A trip caught at the scan's position runs, and leaves late enough.
LEMMA CatchesTrip ==
  ASSUME RInv, pc \in InScan, NEW d \in Streams, Boarded(d) # currents[d]
  PROVE  LET t == EarliestActiveTrip(d, tau[round - 1][StopHere] + Offset(d)) IN
         /\ Boarded(d) = [trip |-> t, board |-> position]
         /\ t \in q.trips /\ t \in q.usable[d] /\ q.trip_pattern[t] = pattern
         /\ tau[round - 1][StopHere] + Offset(d) <= q.departure[t][position]
<1> DEFINE threshold == tau[round - 1][StopHere] + Offset(d)
           c == Catchable(d, threshold)
           t == EarliestActiveTrip(d, threshold)
<1>1. Boarded(d) = [trip |-> t, board |-> position] /\ c # {}
  BY DEF Boarded
<1>2. c \subseteq q.trips /\ q.trips \subseteq Nat
  BY ScanHere, QueriesAssumption DEF Catchable, WellFormedRequest, WellFormedTimetable
<1>3. t \in c
  <2> HIDE DEF c
  <2>1. \E i \in c : \A j \in c : i <= j
    BY <1>1, <1>2, SmallestElement
  <2> QED BY <2>1 DEF EarliestActiveTrip, c
<1>4. t \in q.trips
  BY <1>2, <1>3
<1>5. t \in q.usable[d] /\ q.trip_pattern[t] = pattern /\ threshold <= q.departure[t][position]
  BY <1>3 DEF Catchable
<1> QED BY <1>1, <1>4, <1>5

LEMMA InvBoard == RInv /\ Board => RInv'
<1> SUFFICES ASSUME RInv, Board PROVE RInv'
  OBVIOUS
<1>1. /\ q' = q /\ UNCHANGED <<tau, labels, best, marked, pattern, transit, round, queue_position, pending>>
      /\ pc = "board" /\ pc \in InScan /\ pc' \in {"queue", "alight today"}
      /\ pass' = pass /\ thresholds' = thresholds /\ journeys' = journeys
  BY DEF Board, tables, emitted, InScan
<1>2. /\ q \in Queries /\ TablesOK /\ round \in Rounds /\ round > 0 /\ marked \subseteq Stops
      /\ position \in 1 .. Len(StopsOf(pattern)) /\ Len(StopsOf(pattern)) \in Nat
  BY <1>1, ScanHere DEF TablesOK
<1>3. TablesOK' /\ ChainsConsistent' /\ BestIsPrefixMin'
  BY <1>1, <1>2, TablesSame DEF RInv
<1>4. CASE pc' = "queue"
  <2>1. currents' = currents /\ position' = position
    BY <1>4 DEF Board
  <2>2. TypeOK'
    BY <1>1, <1>2, <1>3, <1>4, <2>1 DEF RInv, TypeOK, TablesOK, InRound, InScan, StopsOf, Rides, Rounds
  <2>3. TransitGood'
    BY <1>1, <1>4, RideStays DEF RInv, TransitGood
  <2>4. BoardedGood' /\ PendingGood'
    BY <1>4 DEF BoardedGood, PendingGood, InScan
  <2> QED BY <1>3, <2>2, <2>3, <2>4 DEF RInv
<1>5. CASE pc' = "alight today"
  <2>1. position # Len(StopsOf(pattern)) /\ position' = position + 1
    BY <1>5 DEF Board
  <2>2. position' \in 1 .. Len(StopsOf(pattern)) /\ position \in 1 .. position' - 1
    BY <1>2, <2>1
  <2>3. \A d \in Streams : currents'[d] = currents[d] \/ currents'[d] = Boarded(d)
    BY <1>5 DEF Board
  <2>4. ASSUME NEW d \in Streams
        PROVE  /\ currents'[d] \in {NoRide} \cup [trip : q.trips, board : Nat]
               /\ currents'[d] # NoRide =>
                    /\ currents'[d].trip \in q.usable[d]
                    /\ q.trip_pattern[currents'[d].trip] = pattern
                    /\ currents'[d].board \in 1 .. position' - 1
                    /\ tau[round - 1][StopsOf(pattern)[currents'[d].board]] + Offset(d)
                         <= q.departure[currents'[d].trip][currents'[d].board]
    <3>1. CASE currents'[d] = currents[d]
      <4>1. /\ currents[d] \in {NoRide} \cup [trip : q.trips, board : Nat]
            /\ currents[d] # NoRide =>
                 /\ currents[d].trip \in q.usable[d]
                 /\ q.trip_pattern[currents[d].trip] = pattern
                 /\ currents[d].board \in 1 .. position - 1
                 /\ tau[round - 1][StopsOf(pattern)[currents[d].board]] + Offset(d)
                      <= q.departure[currents[d].trip][currents[d].board]
        BY <1>1 DEF RInv, TypeOK, BoardedGood
      <4>2. \A b : b \in 1 .. position - 1 => b \in 1 .. position' - 1
        BY <1>2, <2>1
      <4> QED BY <3>1, <4>1, <4>2
    <3>2. CASE currents'[d] # currents[d]
      <4> DEFINE t == EarliestActiveTrip(d, tau[round - 1][StopHere] + Offset(d))
      <4>1. /\ currents'[d] = [trip |-> t, board |-> position]
            /\ t \in q.trips /\ t \in q.usable[d] /\ q.trip_pattern[t] = pattern
            /\ tau[round - 1][StopsOf(pattern)[position]] + Offset(d) <= q.departure[t][position]
        BY <1>1, <2>3, <3>2, CatchesTrip DEF StopHere
      <4> HIDE DEF t
      <4> QED BY <1>2, <2>2, <4>1
    <3> QED BY <3>1, <3>2
  <2>5. DOMAIN currents' = Streams /\ currents' = [d \in Streams |-> currents'[d]]
    BY <1>5 DEF Board, RInv, TypeOK
  <2>6. currents' \in [Streams -> {NoRide} \cup [trip : q.trips, board : Nat]]
    BY <2>4, <2>5
  <2>7. TypeOK'
    BY <1>1, <1>2, <1>3, <1>5, <2>2, <2>6 DEF RInv, TypeOK, TablesOK, InRound, InScan, StopsOf, Rides, Rounds
  <2>8. TransitGood'
    BY <1>1, <1>5, RideStays DEF RInv, TransitGood, InScan
  <2>9. BoardedGood'
    BY <1>1, <2>4 DEF BoardedGood, StopsOf
  <2>10. PendingGood'
    BY <1>5 DEF PendingGood
  <2> QED BY <1>3, <2>7, <2>8, <2>9, <2>10 DEF RInv
<1> QED BY <1>1, <1>4, <1>5

----------------------------------------------------------------------------
(* The theorems.                                                          *)

LEMMA InvNext == RInv /\ [Next]_vars => RInv'
<1> SUFFICES ASSUME RInv, [Next]_vars PROVE RInv'
  OBVIOUS
<1>1. CASE StartPass
  BY <1>1, InvStartPass
<1>2. CASE \E a \in pending : SeedAccess(a)
  BY <1>2, InvSeedAccess
<1>3. CASE CollectPatterns
  BY <1>3, InvCollectPatterns
<1>4. CASE \E p \in DOMAIN queue_position : DequeuePattern(p)
  BY <1>4, InvDequeuePattern
<1>5. CASE \E stream \in Streams : Alight(stream)
  BY <1>5, InvAlight
<1>6. CASE Board
  BY <1>6, InvBoard
<1>7. CASE StartWalking
  BY <1>7, InvStartWalking
<1>8. CASE \E w \in pending : Walk(w)
  BY <1>8, InvWalk
<1>9. CASE EndRound
  BY <1>9, InvEndRound
<1>10. CASE Collect
  BY <1>10, InvCollect
<1>11. CASE Finish
  BY <1>11, InvFinish
<1>12. CASE UNCHANGED vars
  BY <1>12, InvStutter
<1>13. CASE Done
  BY <1>13, InvStutter DEF Done
<1> QED BY <1>1, <1>2, <1>3, <1>4, <1>5, <1>6, <1>7, <1>8, <1>9, <1>10, <1>11, <1>12, <1>13 DEF Next

LEMMA InvAlways == Spec => []RInv
BY InvInit, InvNext, PTL DEF Spec

\* Every state the search reaches keeps its types, and indexes its tables,
\* its patterns and its departures within bounds (search.rs, Search::run).
THEOREM RaptorTypeCorrect == Spec => []TypeOK
<1>1. RInv => TypeOK
  BY DEF RInv
<1> QED BY <1>1, InvAlways, PTL

\* Every label the search holds, after any pass, explains the arrival it
\* stands beside: what reconstruct follows is a journey that can be made.
THEOREM RaptorChainsConsistent == Spec => []ChainsConsistent
<1>1. RInv => ChainsConsistent
  BY DEF RInv
<1> QED BY <1>1, InvAlways, PTL

\* The arrivals the relaxations prune against are those of as few rides, and
\* no others (search.rs, the write-through to the higher rounds).
THEOREM RaptorBestIsPrefixMin == Spec => []BestIsPrefixMin
<1>1. RInv => BestIsPrefixMin
  BY DEF RInv
<1> QED BY <1>1, InvAlways, PTL

\* The three kinds of relaxation lower the tables of one number of rides.
LEMMA RelaxationsImprove ==
  ASSUME RInv, NEW k \in Rounds,
         \/ (\E a \in pending : SeedAccess(a)) /\ k = 0
         \/ (\E d \in Streams : Alight(d)) /\ k = round
         \/ (\E w \in pending : Walk(w)) /\ k = round
  PROVE  Falls /\ \A j \in Rounds : j # k => labels'[j] = labels[j]
<1>1. CASE (\E a \in pending : SeedAccess(a)) /\ k = 0
  <2>1. PICK a \in pending : SeedAccess(a)
    BY <1>1
  <2>2. q' = q
    BY <2>1 DEF SeedAccess
  <2> QED BY <1>1, <2>1, <2>2, SeedRelaxes, RelaxTables
<1>2. CASE (\E d \in Streams : Alight(d)) /\ k = round
  <2>1. PICK d \in Streams : Alight(d)
    BY <1>2
  <2>2. q' = q /\ StopHere \in Stops
    BY <2>1, ScanHere DEF Alight, InScan
  <2>3. PICK l \in Labels, arrival \in Nat, contested \in BOOLEAN :
           \/ UNCHANGED tables
           \/ /\ arrival \in Times
              /\ Explains(round, StopHere, arrival, l)
              /\ Record(round, StopHere, arrival, l, contested)
    BY <2>1, AlightRelaxes
  <2> QED BY <1>2, <2>2, <2>3, RelaxTables
<1>3. CASE (\E w \in pending : Walk(w)) /\ k = round
  <2>1. PICK w \in pending : Walk(w)
    BY <1>3
  <2>2. q' = q
    BY <2>1 DEF Walk
  <2>3. PICK l \in Labels, arrival \in Nat, contested \in BOOLEAN :
           /\ round \in Rounds /\ w.to \in Stops
           /\ \/ UNCHANGED tables
              \/ /\ arrival \in Times
                 /\ Explains(round, w.to, arrival, l)
                 /\ Record(round, w.to, arrival, l, contested)
    BY <2>1, WalkRelaxes
  <2> QED BY <1>3, <2>2, <2>3, RelaxTables
<1> QED BY <1>1, <1>2, <1>3

Improve ==
  \A k \in Rounds, s \in Stops :
    /\ tau'[k][s] <= tau[k][s]
    /\ best'[k][s] <= best[k][s]
    /\ labels'[k][s] # labels[k][s] => k = IF pc = "access" THEN 0 ELSE round

LEMMA StepsImprove == RInv /\ [Next]_vars => Improve
<1> SUFFICES ASSUME RInv, [Next]_vars PROVE Improve
  OBVIOUS
<1>1. q \in Queries /\ TablesOK /\ round \in Rounds /\ 0 \in Rounds
  BY TablesTyped, RoundsType DEF RInv, TypeOK
<1>2. CASE \E a \in pending : SeedAccess(a)
  <2>1. Falls /\ \A j \in Rounds : j # 0 => labels'[j] = labels[j]
    BY <1>1, <1>2, RelaxationsImprove
  <2>2. pc = "access"
    BY <1>2 DEF SeedAccess
  <2> QED BY <2>1, <2>2 DEF Falls, Improve
<1>3. CASE (\E d \in Streams : Alight(d)) \/ (\E w \in pending : Walk(w))
  <2>1. Falls /\ \A j \in Rounds : j # round => labels'[j] = labels[j]
    BY <1>1, <1>3, RelaxationsImprove
  <2>2. pc # "access"
    BY <1>3 DEF Alight, Walk
  <2> QED BY <2>1, <2>2 DEF Falls, Improve
<1>4. CASE UNCHANGED <<tau, labels, best>>
  <2>1. \A k \in Rounds, s \in Stops : tau[k][s] \in Int /\ best[k][s] \in Int
    BY <1>1 DEF TablesOK
  <2> QED BY <1>4, <2>1 DEF Improve
<1> QED BY <1>2, <1>3, <1>4
  DEF Next, StartPass, CollectPatterns, DequeuePattern, Board, StartWalking, EndRound, Collect,
      Finish, Done, vars, tables

\* Within a pass and from one pass to the next, an arrival only ever gives
\* way to an earlier one, and a round relabels no other round's arrivals:
\* the tables of the later departures stay bounds for the earlier ones.
THEOREM RaptorArrivalsOnlyImprove == Spec => ArrivalsOnlyImprove
<1>1. RInv /\ [Next]_vars => [Improve]_vars
  BY StepsImprove
<1>2. [Improve]_vars => [q' = q => Improve]_vars
  OBVIOUS
<1> QED BY <1>1, <1>2, InvAlways, PTL DEF Spec, ArrivalsOnlyImprove, Improve

----------------------------------------------------------------------------
(* What every ride, footpath and access link waits for, at every step.     *)

StopAt(t, i) == StopsOf(q.trip_pattern[t])[i]
ArrivesAt(d, t, i) == q.arrival[t][i] - Offset(d)

\* A ride of the request, and whether k - 1 rides are in time for it.
Ridable(d, t, board, alight) ==
  /\ d \in Streams /\ t \in q.usable[d]
  /\ board \in 1 .. Len(StopsOf(q.trip_pattern[t])) /\ alight \in 1 .. Len(StopsOf(q.trip_pattern[t]))
  /\ board < alight
  /\ StopAt(t, alight) \notin q.excluded
Caught(k, d, t, board) == tau[k - 1][StopAt(t, board)] + Offset(d) <= q.departure[t][board]

Scanning == InScan \cup {"queue"}
Level == IF pc = "access" THEN 0 ELSE round

\* Round k reaches s by at, or will once its footpaths are relaxed.
Reached(k, s, at) ==
  \/ at >= Unreached
  \/ best[k][s] <= at
  \/ pc = "walk" /\ k = round /\ \E w \in pending : w.to = s /\ w.at + w.duration <= at
Left(k, s, at) == \A e \in FootpathsFrom(s) : Reached(k, e.to, at + e.duration)

\* The ride is in the tables, and so are the footpaths that carry it along.
Rode(k, d, u, alight) ==
  /\ best[k][StopAt(u, alight)] <= ArrivesAt(d, u, alight)
  /\ q.closed \/ Left(k, StopAt(u, alight), ArrivesAt(d, u, alight))

\* The ride is in the tables, its footpaths wait for the sidecar.
Noted(d, u, alight) ==
  /\ best[round][StopAt(u, alight)] <= ArrivesAt(d, u, alight)
  /\ transit[StopAt(u, alight)] # NoRide
  /\ AlightTime(transit[StopAt(u, alight)]) <= ArrivesAt(d, u, alight)

\* The pattern waits to be scanned, the scan is still to come to the stop
\* boarded at, or it rides a trip no later than one as good.
Queued(t, board) == /\ q.trip_pattern[t] \in DOMAIN queue_position
                    /\ queue_position[q.trip_pattern[t]] <= board
Ahead(t, board) == pc \in InScan /\ q.trip_pattern[t] = pattern /\ position <= board
Aboard(d, t, board, alight) ==
  /\ pc \in InScan /\ q.trip_pattern[t] = pattern /\ board < position
  /\ \/ position < alight
     \/ position = alight /\ (pc = "alight today" \/ (pc = "alight yesterday" /\ d = 1))
  /\ currents[d] # NoRide
  /\ \E u \in Twins(d, t, board) : currents[d].trip <= u

\* The tables hold the ride, or that of a trip that leaves together with it;
\* or its stop is marked for the next round, or it is the scan's work.
Found(k, d, t, board, alight) == \E u \in Twins(d, t, board) : Rode(k, d, u, alight)
Marked(k, t, board) ==
  /\ pc \in Scanning \cup {"access", "walk", "next round"}
  /\ k = Level + 1
  /\ StopAt(t, board) \in marked
InWork(k, d, t, board, alight) ==
  /\ pc \in Scanning /\ k = round
  /\ \/ Queued(t, board)
     \/ Ahead(t, board)
     \/ Aboard(d, t, board, alight)
     \/ \E u \in Twins(d, t, board) : Noted(d, u, alight)
RidesAccounted ==
  \A k \in 1 .. q.rounds : \A d, t, board, alight :
     Ridable(d, t, board, alight) /\ Caught(k, d, t, board)
     => Found(k, d, t, board, alight) \/ Marked(k, t, board) \/ InWork(k, d, t, board, alight)

\* What a closed set's arrivals walk on to is in the tables, or waits for the
\* scan to end.
WalksAccounted ==
  q.closed => \A k \in 1 .. q.rounds, s \in Stops :
    tau[k][s] < Unreached => Left(k, s, tau[k][s]) \/ (pc \in Scanning /\ k = round /\ s \in marked)

\* Every access link of the passes so far is in the tables, or waits.
AccessAccounted ==
  \A i \in 1 .. pass, a \in q.access : a.stop \notin q.excluded =>
    \/ q.departures[i] + a.duration >= Unreached
    \/ best[0][a.stop] <= q.departures[i] + a.duration
    \/ pc = "access" /\ i = pass /\ a \in pending

\* A closed set's footpaths leave from a label, not from a ride.
Rideless == pc = "walk" /\ q.closed => \A w \in pending : w.ride = NoRide

CInv == RidesAccounted /\ WalksAccounted /\ AccessAccounted /\ Rideless

----------------------------------------------------------------------------
(* What the instance says of a ride and of a footpath.                     *)

LEMMA RidableFacts ==
  ASSUME q \in Queries, NEW d, NEW t, NEW board, NEW alight, Ridable(d, t, board, alight)
  PROVE  /\ d \in Streams /\ t \in q.usable[d] /\ t \in q.trips /\ Offset(d) \in Nat
         /\ board \in Nat /\ alight \in Nat /\ board < alight
         /\ q.trip_pattern[t] \in DOMAIN q.pattern_stops
         /\ StopAt(t, board) \in Stops /\ StopAt(t, alight) \in Stops
         /\ t \in Twins(d, t, board)
         /\ \A u \in Twins(d, t, board) :
              /\ u \in q.trips /\ u \in Nat /\ u \in q.usable[d]
              /\ q.trip_pattern[u] = q.trip_pattern[t]
              /\ StopAt(u, alight) = StopAt(t, alight)
              /\ q.arrival[u][alight] \in Nat /\ ArrivesAt(d, u, alight) \in Int
              /\ q.departure[u][board] \in Nat
<1> DEFINE stops == StopsOf(q.trip_pattern[t])
<1>1. /\ WellFormedTimetable(q) /\ q.usable \in [Streams -> SUBSET q.trips]
  BY QueriesAssumption DEF WellFormedRequest
<1>2. /\ d \in Streams /\ t \in q.usable[d] /\ t \in q.trips /\ Offset(d) \in Nat
      /\ board \in 1 .. Len(stops) /\ alight \in 1 .. Len(stops) /\ board < alight
  BY <1>1, OffsetType DEF Ridable
<1>3. q.trip_pattern[t] \in DOMAIN q.pattern_stops /\ stops \in Seq(Stops)
  BY <1>1, <1>2 DEF WellFormedTimetable, StopsOf
<1>4. stops[board] \in Stops /\ stops[alight] \in Stops
  <2> HIDE DEF stops
  <2> QED BY <1>2, <1>3, ElementOfSeq
<1>5. ASSUME NEW u \in Twins(d, t, board)
      PROVE  /\ u \in q.trips /\ u \in Nat /\ u \in q.usable[d]
             /\ q.trip_pattern[u] = q.trip_pattern[t]
             /\ StopAt(u, alight) = StopAt(t, alight)
             /\ q.arrival[u][alight] \in Nat /\ ArrivesAt(d, u, alight) \in Int
             /\ q.departure[u][board] \in Nat
  <2>1. u \in q.usable[d] /\ u \in q.trips /\ u \in Nat /\ q.trip_pattern[u] = q.trip_pattern[t]
    BY <1>1, <1>2 DEF Twins, WellFormedTimetable
  <2>2. q.arrival[u] \in Seq(Nat) /\ q.departure[u] \in Seq(Nat)
    BY <1>1, <2>1 DEF WellFormedTimetable
  <2>3. Len(q.arrival[u]) = Len(stops) /\ Len(q.departure[u]) = Len(stops)
    BY <1>1, <2>1 DEF WellFormedTimetable, StopsOf
  <2>4. q.arrival[u][alight] \in Nat /\ q.departure[u][board] \in Nat
    <3> HIDE DEF stops
    <3> QED BY <1>2, <2>2, <2>3, ElementOfSeq
  <2> QED BY <1>2, <2>1, <2>4 DEF StopAt, ArrivesAt
<1>6. t \in Twins(d, t, board)
  BY <1>2 DEF Twins
<1>7. board \in Nat /\ alight \in Nat
  BY <1>2
<1> QED BY <1>2, <1>3, <1>4, <1>5, <1>6, <1>7 DEF StopAt

\* No trip of a pattern overtakes another.
LEMMA FirstInFirstOut ==
  ASSUME q \in Queries, NEW d \in Streams, NEW c \in q.usable[d], NEW u \in q.usable[d],
         q.trip_pattern[c] = q.trip_pattern[u], NEW i \in 1 .. Len(StopsOf(q.trip_pattern[u]))
  PROVE  /\ q.arrival[c][i] \in Nat /\ q.arrival[u][i] \in Nat
         /\ q.departure[c][i] \in Nat /\ q.departure[u][i] \in Nat
         /\ c \in Nat /\ u \in Nat
         /\ c <= u => q.arrival[c][i] <= q.arrival[u][i] /\ q.departure[c][i] <= q.departure[u][i]
<1> DEFINE stops == StopsOf(q.trip_pattern[u])
<1>1. WellFormedTimetable(q) /\ c \in q.trips /\ u \in q.trips
  BY QueriesAssumption DEF WellFormedRequest
<1>2. c \in Nat /\ u \in Nat
  BY <1>1 DEF WellFormedTimetable
<1>3. /\ q.arrival[c] \in Seq(Nat) /\ q.departure[c] \in Seq(Nat)
      /\ q.arrival[u] \in Seq(Nat) /\ q.departure[u] \in Seq(Nat)
  BY <1>1 DEF WellFormedTimetable
<1>4. /\ Len(q.arrival[c]) = Len(stops) /\ Len(q.departure[c]) = Len(stops)
      /\ Len(q.arrival[u]) = Len(stops) /\ Len(q.departure[u]) = Len(stops)
  BY <1>1 DEF WellFormedTimetable, StopsOf
<1>5. /\ q.arrival[c][i] \in Nat /\ q.arrival[u][i] \in Nat
      /\ q.departure[c][i] \in Nat /\ q.departure[u][i] \in Nat
  <2> HIDE DEF stops
  <2>1. i \in 1 .. Len(stops)
    BY DEF stops
  <2> QED BY <1>3, <1>4, <2>1, ElementOfSeq
<1>6. ASSUME c <= u PROVE q.arrival[c][i] <= q.arrival[u][i] /\ q.departure[c][i] <= q.departure[u][i]
  <2>1. CASE c = u
    BY <1>5, <2>1
  <2>2. CASE c < u
    <3>1. i \in 1 .. Len(q.arrival[c])
      BY <1>4
    <3> QED BY <1>1, <2>2, <3>1 DEF WellFormedTimetable
  <2> QED BY <1>2, <1>6, <2>1, <2>2
<1> QED BY <1>2, <1>5, <1>6

\* The instance does not change, nor does what is read off it.
LEMMA InstanceSame ==
  ASSUME q' = q
  PROVE  /\ \A d, t, b : Twins(d, t, b)' = Twins(d, t, b)
         /\ \A t, i : StopAt(t, i)' = StopAt(t, i)
         /\ \A d, t, i : ArrivesAt(d, t, i)' = ArrivesAt(d, t, i)
         /\ \A s : FootpathsFrom(s)' = FootpathsFrom(s)
         /\ \A d, t, b, a : Ridable(d, t, b, a)' <=> Ridable(d, t, b, a)
         /\ q.rounds' = q.rounds /\ q.closed' = q.closed /\ Rounds' = Rounds
         /\ \A r : AlightTime(r)' = AlightTime(r)
<1>1. \A d, t, b : Twins(d, t, b)' = Twins(d, t, b)
  BY DEF Twins
<1>2. \A t, i : StopAt(t, i)' = StopAt(t, i)
  BY DEF StopAt, StopsOf
<1>3. \A d, t, i : ArrivesAt(d, t, i)' = ArrivesAt(d, t, i)
  BY DEF ArrivesAt
<1>4. \A s : FootpathsFrom(s)' = FootpathsFrom(s)
  BY DEF FootpathsFrom
<1>5. \A d, t, b, a : Ridable(d, t, b, a)' <=> Ridable(d, t, b, a)
  BY DEF Ridable, StopsOf, StopAt
<1>6. Rounds' = Rounds
  BY DEF Rounds
<1>7. \A r : AlightTime(r)' = AlightTime(r)
  BY DEF AlightTime, OnTheDay
<1> QED BY <1>1, <1>2, <1>3, <1>4, <1>5, <1>6, <1>7

----------------------------------------------------------------------------
(* What stays accounted for as the tables fall.                            *)

\* What is reached stays reached, as long as no footpath that waits is lost.
ReachStays == \A k, s, at : k \in Rounds /\ s \in Stops /\ at \in Int /\ Reached(k, s, at) => Reached(k, s, at)'

LEMMA FootpathFacts ==
  ASSUME q \in Queries, NEW s, NEW e \in FootpathsFrom(s)
  PROVE  e \in q.transfers /\ e.from = s /\ e.to \in Stops /\ e.duration \in Nat /\ s \in Stops
  BY QueriesAssumption DEF FootpathsFrom, WellFormedTransfers

LEMMA LeftStays ==
  ASSUME q \in Queries, q' = q, ReachStays, NEW k \in Rounds, NEW s, NEW at \in Int, Left(k, s, at)
  PROVE  Left(k, s, at)'
<1> SUFFICES ASSUME NEW e \in FootpathsFrom(s) PROVE Reached(k, e.to, at + e.duration)'
  BY InstanceSame DEF Left
<1>1. e.to \in Stops /\ at + e.duration \in Int
  BY FootpathFacts
<1> DEFINE then == at + e.duration
           to == e.to
<1>2. Reached(k, to, then)
  BY DEF Left
<1> HIDE DEF then, to
<1>3. Reached(k, to, then)'
  BY <1>1, <1>2 DEF ReachStays, then, to
<1> QED BY <1>3 DEF then, to

LEMMA FoundStays ==
  ASSUME q \in Queries, TablesOK, Falls, ReachStays, NEW k \in Rounds, NEW d, NEW t, NEW board, NEW alight,
         Ridable(d, t, board, alight), Found(k, d, t, board, alight)
  PROVE  Found(k, d, t, board, alight)'
<1>1. PICK u \in Twins(d, t, board) : Rode(k, d, u, alight)
  BY DEF Found
<1>2. q' = q
  BY DEF Falls
<1>3. PICK s \in Stops, at \in Int : s = StopAt(u, alight) /\ at = ArrivesAt(d, u, alight)
  BY RidableFacts
<1>4. StopAt(u, alight)' = s /\ ArrivesAt(d, u, alight)' = at
  BY <1>2, <1>3, InstanceSame
<1>5. best'[k][s] \in Int /\ best[k][s] \in Int /\ best'[k][s] <= best[k][s]
  BY <1>2, InstanceSame DEF Falls, TablesOK
<1>6. best[k][s] <= at /\ (q.closed \/ Left(k, s, at))
  BY <1>1, <1>3 DEF Rode
<1>7. Left(k, s, at) => Left(k, s, at)'
  BY <1>2, LeftStays
<1>8. Rode(k, d, u, alight)'
  BY <1>2, <1>4, <1>5, <1>6, <1>7 DEF Rode
<1> QED BY <1>2, <1>8, InstanceSame DEF Found

\* A step keeps every ride accounted for if it marks the stops it reaches
\* sooner, and passes on the work it takes up.
Unchanged(k, t, board) == tau'[k - 1][StopAt(t, board)] = tau[k - 1][StopAt(t, board)]
Accounted(k, d, t, board, alight) ==
  Found(k, d, t, board, alight) \/ Marked(k, t, board) \/ InWork(k, d, t, board, alight)
MarksChanges ==
  \A k \in 1 .. q.rounds : \A d, t, board, alight :
    Ridable(d, t, board, alight) => Unchanged(k, t, board) \/ Marked(k, t, board)'
PassesOn ==
  \A k \in 1 .. q.rounds : \A d, t, board, alight :
    /\ Ridable(d, t, board, alight) /\ Caught(k, d, t, board)
    /\ Unchanged(k, t, board)
    /\ Marked(k, t, board) \/ InWork(k, d, t, board, alight)
    => Accounted(k, d, t, board, alight)'

LEMMA RidesStay ==
  ASSUME RInv, Falls, ReachStays, RidesAccounted, MarksChanges, PassesOn
  PROVE  RidesAccounted'
<1>1. q' = q /\ q \in Queries /\ TablesOK
  BY TablesTyped DEF RInv, Falls
<1> SUFFICES ASSUME NEW k \in 1 .. q.rounds, NEW d, NEW t, NEW board, NEW alight,
                    Ridable(d, t, board, alight), Caught(k, d, t, board)'
             PROVE  Accounted(k, d, t, board, alight)'
  BY <1>1, InstanceSame DEF RidesAccounted, Accounted
<1>2. CASE ~Unchanged(k, t, board)
  BY <1>2 DEF MarksChanges, Accounted
<1>3. CASE Unchanged(k, t, board)
  <2>1. Caught(k, d, t, board)
    BY <1>1, <1>3, InstanceSame DEF Caught, Unchanged, Offset
  <2>2. Accounted(k, d, t, board, alight)
    BY <2>1 DEF RidesAccounted, Accounted
  <2>3. CASE Found(k, d, t, board, alight)
    <3>1. k \in Rounds
      BY <1>1, RoundsType DEF Rounds
    <3> QED BY <1>1, <2>3, <3>1, FoundStays DEF Accounted
  <2>4. CASE Marked(k, t, board) \/ InWork(k, d, t, board, alight)
    BY <1>3, <2>1, <2>4 DEF PassesOn
  <2> QED BY <2>2, <2>3, <2>4 DEF Accounted
<1> QED BY <1>2, <1>3

\* Footpaths of a closed set, and access links, stay accounted for likewise.
LEMMA WalksStay ==
  ASSUME RInv, Falls, ReachStays, WalksAccounted,
         \A k \in 1 .. q.rounds, s \in Stops :
           \/ tau'[k][s] = tau[k][s] /\ ((pc \in Scanning /\ k = round /\ s \in marked)
                                         => (Left(k, s, tau[k][s]) \/ (pc \in Scanning /\ k = round /\ s \in marked))')
           \/ (pc \in Scanning /\ k = round /\ s \in marked)'
           \/ q.closed => Left(k, s, tau[k][s])'
  PROVE  WalksAccounted'
<1>1. q' = q /\ q \in Queries /\ TablesOK
  BY TablesTyped DEF RInv, Falls
<1> SUFFICES ASSUME q.closed, NEW k \in 1 .. q.rounds, NEW s \in Stops, tau'[k][s] < Unreached
             PROVE  (Left(k, s, tau[k][s]) \/ (pc \in Scanning /\ k = round /\ s \in marked))'
  BY <1>1, InstanceSame DEF WalksAccounted
<1>2. k \in Rounds /\ tau[k][s] \in Int
  BY <1>1, RoundsType DEF Rounds, TablesOK
<1>3. CASE tau'[k][s] = tau[k][s] /\ ((pc \in Scanning /\ k = round /\ s \in marked)
                                       => (Left(k, s, tau[k][s]) \/ (pc \in Scanning /\ k = round /\ s \in marked))')
  <2>1. CASE Left(k, s, tau[k][s])
    <3>1. PICK at \in Int : at = tau[k][s]
      BY <1>2
    <3>2. Left(k, s, at)'
      BY <1>1, <1>2, <2>1, <3>1, LeftStays
    <3> QED BY <1>3, <3>1, <3>2
  <2>2. CASE pc \in Scanning /\ k = round /\ s \in marked
    BY <1>3, <2>2
  <2> QED BY <1>3, <2>1, <2>2 DEF WalksAccounted
<1> QED BY <1>3

LEMMA AccessStays ==
  ASSUME RInv, Falls, AccessAccounted, pass' = pass,
         \A a \in q.access : pc = "access" /\ a \in pending =>
           \/ (pc = "access" /\ a \in pending)'
           \/ Now + a.duration >= Unreached
           \/ best'[0][a.stop] <= Now + a.duration
  PROVE  AccessAccounted'
<1>1. q' = q /\ q \in Queries /\ TablesOK /\ 0 \in Rounds
  BY TablesTyped, RoundsType DEF RInv, Falls
<1> SUFFICES ASSUME NEW i \in 1 .. pass, NEW a \in q.access, a.stop \notin q.excluded
             PROVE  \/ q.departures[i] + a.duration >= Unreached
                    \/ best'[0][a.stop] <= q.departures[i] + a.duration
                    \/ (pc = "access" /\ i = pass /\ a \in pending)'
  BY <1>1 DEF AccessAccounted
<1>2. a.stop \in Stops /\ a.duration \in Nat
  BY <1>1, QueriesAssumption DEF WellFormedRequest
<1>3. q.departures[i] \in Int
  <2>1. i \in 1 .. Len(q.departures)
    <3>1. pass \in 0 .. Len(q.departures) /\ Len(q.departures) \in Nat
      BY <1>1, DeparturesSeq DEF RInv, TypeOK
    <3> QED BY <3>1
  <2>2. q.departures[i] \in Times
    BY <1>1, <2>1, DeparturesSeq, ElementOfSeq
  <2> QED BY <2>2 DEF Times
<1>4. best'[0][a.stop] <= best[0][a.stop] /\ best[0][a.stop] \in Int /\ best'[0][a.stop] \in Int
  BY <1>1, <1>2 DEF Falls, TablesOK, Rounds
<1>5. \/ q.departures[i] + a.duration >= Unreached
      \/ best[0][a.stop] <= q.departures[i] + a.duration
      \/ pc = "access" /\ i = pass /\ a \in pending
  BY DEF AccessAccounted
<1>6. CASE q.departures[i] + a.duration >= Unreached
  BY <1>6
<1>7. CASE best[0][a.stop] <= q.departures[i] + a.duration
  <2>1. q.departures[i] + a.duration \in Int
    BY <1>2, <1>3
  <2> QED BY <1>4, <1>7, <2>1
<1>8. CASE pc = "access" /\ i = pass /\ a \in pending
  BY <1>8 DEF Now
<1> QED BY <1>5, <1>6, <1>7, <1>8

----------------------------------------------------------------------------
(* The steps that write no table.                                         *)

LEMMA FallsReach ==
  ASSUME RInv, Falls, pc # "walk" \/ pending = {}
  PROVE  ReachStays
<1> SUFFICES ASSUME NEW k \in Rounds, NEW s \in Stops, NEW at \in Int, Reached(k, s, at)
             PROVE  Reached(k, s, at)'
  BY DEF ReachStays
<1>1. TablesOK /\ Rounds' = Rounds
  BY TablesTyped, InstanceSame DEF RInv, Falls
<1>2. best'[k][s] <= best[k][s] /\ best'[k][s] \in Int /\ best[k][s] \in Int
  BY <1>1 DEF Falls, TablesOK
<1>3. at >= Unreached \/ best[k][s] <= at
  BY DEF Reached
<1> QED BY <1>2, <1>3 DEF Reached

LEMMA QuietFalls ==
  ASSUME RInv, RInv', q' = q, UNCHANGED <<tau, best>>
  PROVE  Falls /\ MarksChanges
<1>1. TablesOK /\ TablesOK' /\ Rounds' = Rounds
  <2>1. TypeOK /\ TypeOK'
    BY DEF RInv
  <2>2. TablesOK'
    BY <2>1 DEF TypeOK, TablesOK
  <2> QED BY <2>1, <2>2, TablesTyped, InstanceSame
<1>2. Falls
  <2>1. \A k \in Rounds, s \in Stops : tau[k][s] \in Int /\ best[k][s] \in Int
    BY <1>1 DEF TablesOK
  <2> QED BY <1>1, <2>1 DEF Falls
<1>3. MarksChanges
  BY DEF MarksChanges, Unchanged
<1> QED BY <1>2, <1>3

LEMMA ClosedStartPass == RInv /\ CInv /\ StartPass => CInv'
<1> SUFFICES ASSUME RInv, CInv, StartPass PROVE CInv'
  OBVIOUS
<1>1. /\ RInv' /\ q' = q /\ UNCHANGED <<tau, best>> /\ pc = "next pass" /\ pc' = "access"
      /\ pass' = pass + 1 /\ pending' = {a \in q.access : a.stop \notin q.excluded}
      /\ pass \in Nat /\ q \in Queries
  <2>1. pass \in 0 .. Len(q.departures) /\ Len(q.departures) \in Nat /\ q \in Queries
    BY DeparturesSeq DEF RInv, TypeOK
  <2>2. pass \in Nat
    BY <2>1
  <2>3. RInv'
    BY InvStartPass
  <2> QED BY <2>1, <2>2, <2>3 DEF StartPass
<1>2. Falls /\ MarksChanges /\ ReachStays
  BY <1>1, QuietFalls, FallsReach
<1>3. RidesAccounted'
  <2>1. PassesOn
    <3>1. pc \notin Scanning \cup {"access", "walk", "next round"}
      BY <1>1 DEF Scanning, InScan
    <3>2. \A k, t, board : ~Marked(k, t, board)
      BY <3>1 DEF Marked
    <3>3. \A k, d, t, board, alight : ~InWork(k, d, t, board, alight)
      BY <3>1 DEF InWork
    <3> QED BY <3>2, <3>3 DEF PassesOn
  <2> QED BY <1>2, <2>1, RidesStay DEF CInv
<1>4. WalksAccounted'
  BY <1>1, <1>2, WalksStay DEF CInv, Scanning, InScan
<1>5. AccessAccounted'
  <2> SUFFICES ASSUME NEW i \in 1 .. pass + 1, NEW a \in q.access, a.stop \notin q.excluded
               PROVE  \/ q.departures[i] + a.duration >= Unreached
                      \/ best[0][a.stop] <= q.departures[i] + a.duration
                      \/ i = pass' /\ a \in pending'
    BY <1>1 DEF AccessAccounted
  <2>1. CASE i = pass + 1
    BY <1>1, <2>1
  <2>2. CASE i \in 1 .. pass
    BY <1>1, <2>2 DEF CInv, AccessAccounted
  <2>3. i = pass + 1 \/ i \in 1 .. pass
    <3>1. \A n \in Nat : \A j \in 1 .. n + 1 : j = n + 1 \/ j \in 1 .. n
      OBVIOUS
    <3> QED BY <1>1, <3>1
  <2> QED BY <2>1, <2>2, <2>3
<1>6. Rideless'
  BY <1>1 DEF Rideless
<1> QED BY <1>3, <1>4, <1>5, <1>6 DEF CInv

\* Once a pass has ended nothing waits, and nothing comes to wait.
LEMMA ClosedAtRest ==
  ASSUME RInv, CInv, RInv', q' = q, UNCHANGED <<tau, best, pass>>,
         pc \in {"collect", "next pass", "done"}, pc' # "walk"
  PROVE  CInv'
<1>1. Falls /\ MarksChanges /\ ReachStays
  BY QuietFalls, FallsReach
<1>2. RidesAccounted'
  <2>1. PassesOn
    <3>1. pc \notin Scanning \cup {"access", "walk", "next round"}
      BY DEF Scanning, InScan
    <3>2. \A k, t, board : ~Marked(k, t, board)
      BY <3>1 DEF Marked
    <3>3. \A k, d, t, board, alight : ~InWork(k, d, t, board, alight)
      BY <3>1 DEF InWork
    <3> QED BY <3>2, <3>3 DEF PassesOn
  <2> QED BY <1>1, <2>1, RidesStay DEF CInv
<1>3. WalksAccounted'
  BY <1>1, WalksStay DEF CInv, Scanning, InScan
<1>4. AccessAccounted'
  BY <1>1, AccessStays DEF CInv
<1>5. Rideless'
  BY DEF Rideless
<1> QED BY <1>2, <1>3, <1>4, <1>5 DEF CInv

LEMMA ClosedEndRound == RInv /\ CInv /\ EndRound => CInv'
<1> SUFFICES ASSUME RInv, CInv, EndRound PROVE CInv'
  OBVIOUS
<1>1. /\ RInv' /\ q' = q /\ UNCHANGED <<tau, best, pass, marked>> /\ pc = "walk" /\ pending = {}
      /\ \/ pc' = "collect" /\ (marked = {} \/ round = q.rounds)
         \/ pc' = "next round" /\ round' = round
  BY InvEndRound DEF EndRound, tables
<1>2. Falls /\ MarksChanges /\ ReachStays
  BY <1>1, QuietFalls, FallsReach
<1>3. RidesAccounted'
  <2>1. PassesOn
    <3> SUFFICES ASSUME NEW k \in 1 .. q.rounds, NEW d, NEW t, NEW board, NEW alight,
                        Marked(k, t, board) \/ InWork(k, d, t, board, alight)
                 PROVE  Accounted(k, d, t, board, alight)'
      BY DEF PassesOn
    <3>1. k = round + 1 /\ StopAt(t, board) \in marked
      BY <1>1 DEF Marked, InWork, Level, Scanning, InScan
    <3>2. k # q.rounds + 1
      <4>1. q.rounds \in Nat
        BY RoundsType DEF RInv, TypeOK
      <4> QED BY <4>1
    <3>3. pc' = "next round" /\ round' = round
      BY <1>1, <3>1, <3>2
    <3>4. Marked(k, t, board)'
      BY <1>1, <3>1, <3>3, InstanceSame DEF Marked, Level
    <3> QED BY <3>4 DEF Accounted
  <2> QED BY <1>2, <2>1, RidesStay DEF CInv
<1>4. WalksAccounted'
  BY <1>1, <1>2, WalksStay DEF CInv, Scanning, InScan
<1>5. AccessAccounted'
  BY <1>1, <1>2, AccessStays DEF CInv
<1>6. Rideless'
  BY <1>1 DEF Rideless
<1> QED BY <1>3, <1>4, <1>5, <1>6 DEF CInv

LEMMA ClosedCollectPatterns == RInv /\ CInv /\ CollectPatterns => CInv'
<1> SUFFICES ASSUME RInv, CInv, CollectPatterns PROVE CInv'
  OBVIOUS
<1>1. /\ RInv' /\ q' = q /\ UNCHANGED <<tau, best, pass>> /\ pc' = "queue"
      /\ \/ pc = "access" /\ pending = {} /\ round' = 1
         \/ pc = "next round" /\ round' = round + 1
      /\ queue_position' =
           [p \in {p \in DOMAIN q.pattern_stops : MarkedPositions(p) # {}} |-> FirstMarked(p)]
  BY InvCollectPatterns DEF CollectPatterns, tables
<1>2. Falls /\ MarksChanges /\ ReachStays /\ q \in Queries
  BY <1>1, QuietFalls, FallsReach DEF RInv, TypeOK
<1>3. RidesAccounted'
  <2>1. PassesOn
    <3> SUFFICES ASSUME NEW k \in 1 .. q.rounds, NEW d, NEW t, NEW board, NEW alight,
                        Ridable(d, t, board, alight),
                        Marked(k, t, board) \/ InWork(k, d, t, board, alight)
                 PROVE  Accounted(k, d, t, board, alight)'
      BY DEF PassesOn
    <3> DEFINE p == q.trip_pattern[t]
    <3>1. k = round' /\ StopAt(t, board) \in marked
      <4>1. ~InWork(k, d, t, board, alight)
        BY <1>1 DEF InWork, Scanning, InScan
      <4>2. k = Level + 1 /\ StopAt(t, board) \in marked
        BY <4>1 DEF Marked
      <4>3. Level + 1 = round'
        <5>1. (pc = "access" /\ round' = 1) \/ (pc = "next round" /\ round' = round + 1)
          BY <1>1
        <5>2. CASE pc = "access" /\ round' = 1
          BY <5>2 DEF Level
        <5>3. CASE pc = "next round" /\ round' = round + 1
          BY <5>3 DEF Level
        <5> QED BY <5>1, <5>2, <5>3
      <4> QED BY <4>2, <4>3
    <3>2. board \in MarkedPositions(p) /\ MarkedPositions(p) \subseteq Nat
      BY <3>1 DEF MarkedPositions, StopAt, Ridable
    <3>3. FirstMarked(p) <= board
      <4> HIDE DEF p
      <4>1. \E i \in MarkedPositions(p) : \A j \in MarkedPositions(p) : i <= j
        BY <3>2, SmallestElement
      <4> QED BY <3>2, <4>1 DEF FirstMarked
    <3>4. p \in DOMAIN queue_position' /\ queue_position'[p] <= board
      <4>1. p \in DOMAIN q.pattern_stops
        BY <1>2, RidableFacts
      <4> HIDE DEF p
      <4> QED BY <1>1, <3>2, <3>3, <4>1
    <3>5. InWork(k, d, t, board, alight)'
      BY <1>1, <3>1, <3>4 DEF InWork, Queued, Scanning, InScan
    <3> QED BY <3>5 DEF Accounted
  <2> QED BY <1>2, <2>1, RidesStay DEF CInv
<1>4. WalksAccounted'
  BY <1>1, <1>2, WalksStay DEF CInv, Scanning, InScan
<1>5. AccessAccounted'
  BY <1>1, <1>2, AccessStays DEF CInv
<1>6. Rideless'
  BY <1>1 DEF Rideless
<1> QED BY <1>3, <1>4, <1>5, <1>6 DEF CInv

LEMMA ClosedDequeuePattern ==
  ASSUME RInv, CInv, NEW p \in DOMAIN queue_position, DequeuePattern(p)
  PROVE  CInv'
<1>1. /\ RInv' /\ q' = q /\ UNCHANGED <<tau, best, pass, marked, round, transit>>
      /\ pc = "queue" /\ pc' = "alight today"
      /\ pattern' = p /\ position' = queue_position[p]
      /\ queue_position' = [o \in DOMAIN queue_position \ {p} |-> queue_position[o]]
  BY InvDequeuePattern DEF DequeuePattern, tables
<1>2. Falls /\ MarksChanges /\ ReachStays
  BY <1>1, QuietFalls, FallsReach
<1>3. RidesAccounted'
  <2>1. PassesOn
    <3> SUFFICES ASSUME NEW k \in 1 .. q.rounds, NEW d, NEW t, NEW board, NEW alight,
                        Marked(k, t, board) \/ InWork(k, d, t, board, alight)
                 PROVE  Marked(k, t, board)' \/ InWork(k, d, t, board, alight)'
      BY DEF PassesOn, Accounted
    <3>1. CASE Marked(k, t, board)
      BY <1>1, <3>1, InstanceSame DEF Marked, Level, Scanning, InScan
    <3>2. CASE InWork(k, d, t, board, alight)
      <4>1. k = round' /\ (Queued(t, board) \/ \E u \in Twins(d, t, board) : Noted(d, u, alight))
        BY <1>1, <3>2 DEF InWork, Ahead, Aboard, InScan
      <4>2. CASE Queued(t, board)
        <5>1. Queued(t, board)' \/ Ahead(t, board)'
          BY <1>1, <4>2 DEF Queued, Ahead, InScan
        <5> QED BY <1>1, <4>1, <5>1 DEF InWork, Scanning, InScan
      <4>3. CASE \E u \in Twins(d, t, board) : Noted(d, u, alight)
        <5>1. \A u : Noted(d, u, alight) => Noted(d, u, alight)'
          BY <1>1, InstanceSame DEF Noted
        <5> QED BY <1>1, <4>1, <4>3, <5>1, InstanceSame DEF InWork, Scanning, InScan
      <4> QED BY <4>1, <4>2, <4>3
    <3> QED BY <3>1, <3>2
  <2> QED BY <1>2, <2>1, RidesStay DEF CInv
<1>4. WalksAccounted'
  BY <1>1, <1>2, WalksStay DEF CInv, Scanning, InScan
<1>5. AccessAccounted'
  BY <1>1, <1>2, AccessStays DEF CInv
<1>6. Rideless'
  BY <1>1 DEF Rideless
<1> QED BY <1>3, <1>4, <1>5, <1>6 DEF CInv

\* A trip is only given up for an earlier one.
LEMMA BoardsEarlier ==
  ASSUME RInv, pc \in InScan, NEW d \in Streams, currents[d] # NoRide
  PROVE  /\ Boarded(d) # NoRide
         /\ Boarded(d).trip \in Nat /\ currents[d].trip \in Nat
         /\ Boarded(d).trip <= currents[d].trip
<1> DEFINE c == currents[d].trip
<1>1. /\ q \in Queries /\ c \in q.usable[d] /\ q.trip_pattern[c] = pattern
      /\ position \in 1 .. Len(StopsOf(pattern))
  BY ScanHere DEF RInv, BoardedGood
<1>2. c \in Nat
  BY <1>1, FirstInFirstOut
<1>3. CASE Boarded(d) = currents[d]
  BY <1>2, <1>3
<1>4. CASE Boarded(d) # currents[d]
  <2>1. PICK t : /\ Boarded(d) = [trip |-> t, board |-> position]
                 /\ t \in q.usable[d] /\ q.trip_pattern[t] = pattern
                 /\ t = EarliestActiveTrip(d, tau[round - 1][StopHere] + Offset(d))
    BY <1>4, CatchesTrip
  <2>2. q.departure[t][position] < q.departure[c][position]
    BY <1>4, <2>1 DEF Boarded
  <2>3. /\ t \in Nat /\ q.departure[t][position] \in Nat /\ q.departure[c][position] \in Nat
        /\ c <= t => q.departure[c][position] <= q.departure[t][position]
    BY <1>1, <2>1, FirstInFirstOut
  <2>4. t <= c
    <3> HIDE DEF c
    <3> QED BY <1>2, <2>2, <2>3
  <2>5. Boarded(d).trip = t /\ NoRide.trip = -1
    BY <2>1 DEF NoRide
  <2>6. Boarded(d) # NoRide
    BY <2>3, <2>5
  <2> QED BY <1>2, <2>3, <2>4, <2>5, <2>6
<1> QED BY <1>3, <1>4

\* Where a ride can be caught the scan goes on with its trip, an earlier one,
\* or one that leaves together with it.
LEMMA BoardsInTime ==
  ASSUME RInv, pc \in InScan, NEW d, NEW t, NEW alight, NEW board, board = position,
         Ridable(d, t, board, alight), q.trip_pattern[t] = pattern, Caught(round, d, t, board)
  PROVE  /\ tau[round - 1][StopHere] # Unreached
         /\ Boarded(d) # NoRide
         /\ \E u \in Twins(d, t, board) : Boarded(d).trip <= u
<1> DEFINE from == tau[round - 1][StopHere]
           threshold == from + Offset(d)
           caught == Catchable(d, threshold)
           e == EarliestActiveTrip(d, threshold)
<1>1. /\ q \in Queries /\ d \in Streams /\ t \in q.usable[d] /\ t \in q.trips /\ Offset(d) \in Nat
      /\ position \in 1 .. Len(StopsOf(pattern)) /\ t \in Twins(d, t, board)
      /\ from \in 0 .. Unreached
  <2>1. /\ q \in Queries /\ TablesOK /\ round - 1 \in Rounds /\ StopHere \in Stops
        /\ position \in 1 .. Len(StopsOf(pattern))
    BY ScanHere
  <2>2. from \in 0 .. Unreached
    BY <2>1 DEF TablesOK
  <2> QED BY <2>1, <2>2, RidableFacts
<1>2. t \in Nat /\ q.departure[t][position] \in Nat /\ q.departure[t][position] < Unreached
  <2>1. t \in Nat /\ q.departure[t][position] \in Nat
    BY <1>1, FirstInFirstOut
  <2>2. q.departure[t][position] < Unreached
    BY <1>1, QueriesAssumption DEF WellFormedTimetable, StopsOf
  <2> QED BY <2>1, <2>2
<1>3. threshold <= q.departure[t][position] /\ threshold \in Nat
  <2>1. StopAt(t, board) = StopHere
    BY DEF StopAt, StopHere
  <2> QED BY <1>1, <2>1 DEF Caught
<1>4. t \in caught
  BY <1>1, <1>3 DEF Catchable
<1>5. e \in caught /\ e <= t
  <2>1. caught \subseteq Nat
    BY <1>1, FirstInFirstOut DEF Catchable
  <2> HIDE DEF caught
  <2>2. \E i \in caught : \A j \in caught : i <= j
    BY <1>4, <2>1, SmallestElement
  <2>3. e = CHOOSE i \in caught : \A j \in caught : i <= j
    BY DEF EarliestActiveTrip, caught
  <2> HIDE DEF e
  <2> QED BY <1>4, <2>2, <2>3
<1>6. e \in q.usable[d] /\ q.trip_pattern[e] = pattern
  BY <1>5 DEF Catchable
<1> HIDE DEF e, caught
<1>7. /\ e \in Nat /\ q.departure[e][position] \in Nat
      /\ q.departure[e][position] <= q.departure[t][position]
  BY <1>1, <1>5, <1>6, FirstInFirstOut
<1>8. from # Unreached /\ threshold <= Unreached
  <2> HIDE DEF from
  <2> QED BY <1>1, <1>2, <1>3, TimeAssumption DEF threshold
<1> DEFINE boards == currents[d] # NoRide => /\ threshold <= q.departure[currents[d].trip][position]
                                             /\ q.departure[e][position] < q.departure[currents[d].trip][position]
<1>9. Boarded(d) = IF boards THEN [trip |-> e, board |-> position] ELSE currents[d]
  BY <1>4, <1>8 DEF Boarded, e, caught
<1>10. CASE boards
  <2>1. Boarded(d).trip = e /\ NoRide.trip = -1
    BY <1>9, <1>10 DEF NoRide
  <2> QED BY <1>1, <1>5, <1>7, <1>8, <2>1
<1>11. CASE ~boards
  <2> DEFINE c == currents[d].trip
  <2>1. /\ Boarded(d) = currents[d] /\ currents[d] # NoRide
        /\ \/ ~(threshold <= q.departure[c][position])
           \/ ~(q.departure[e][position] < q.departure[c][position])
    BY <1>9, <1>11
  <2> HIDE DEF boards, threshold
  <2>2. c \in q.usable[d] /\ q.trip_pattern[c] = pattern
    <3>1. BoardedGood
      BY DEF RInv
    <3> QED BY <1>1, <2>1, <3>1 DEF BoardedGood
  <2> HIDE DEF c
  <2>3. /\ c \in Nat /\ q.departure[c][position] \in Nat
        /\ c <= t => q.departure[c][position] <= q.departure[t][position]
        /\ t <= c => q.departure[t][position] <= q.departure[c][position]
    BY <1>1, <2>2, FirstInFirstOut
  <2>4. c <= t \/ q.departure[c][position] = q.departure[t][position]
    <3> HIDE DEF threshold
    <3> QED BY <1>2, <1>3, <1>7, <2>1, <2>3
  <2>5. CASE c <= t
    BY <1>1, <1>8, <2>1, <2>5 DEF c
  <2>6. CASE q.departure[c][position] = q.departure[t][position]
    <3>1. c \in Twins(d, t, board) /\ c <= c
      BY <2>2, <2>3, <2>6 DEF Twins
    <3> QED BY <1>8, <2>1, <3>1 DEF c
  <2> QED BY <2>4, <2>5, <2>6
<1> QED BY <1>10, <1>11

LEMMA ClosedBoard == RInv /\ CInv /\ Board => CInv'
<1> SUFFICES ASSUME RInv, CInv, Board PROVE CInv'
  OBVIOUS
<1>1. /\ RInv' /\ q' = q
      /\ UNCHANGED <<tau, best, pass, marked, round, transit, pattern, queue_position, pending>>
      /\ pc = "board" /\ pc \in InScan
  BY InvBoard DEF Board, tables, InScan
<1>2. Falls /\ MarksChanges /\ ReachStays /\ q \in Queries
  BY <1>1, QuietFalls, FallsReach DEF RInv, TypeOK
<1>3. /\ position \in 1 .. Len(StopsOf(pattern)) /\ Len(StopsOf(pattern)) \in Nat
      /\ \/ position = Len(StopsOf(pattern)) /\ pc' = "queue"
         \/ /\ position # Len(StopsOf(pattern)) /\ pc' = "alight today"
            /\ position' = position + 1
            /\ currents' = IF tau[round - 1][StopHere] = Unreached THEN currents
                           ELSE [d \in Streams |-> Boarded(d)]
  BY <1>1, ScanHere DEF Board
<1> position \in Nat
  <2>1. position \in 1 .. Len(StopsOf(pattern)) /\ Len(StopsOf(pattern)) \in Nat
    BY <1>3
  <2> QED BY <2>1
<1>4. ASSUME NEW d, NEW t, NEW board, NEW alight, Ridable(d, t, board, alight), q.trip_pattern[t] = pattern,
             position <= board \/ (board < position /\ position < alight)
      PROVE  /\ pc' = "alight today" /\ position' = position + 1
             /\ currents' = IF tau[round - 1][StopHere] = Unreached THEN currents
                            ELSE [c \in Streams |-> Boarded(c)]
  <2>1. position # Len(StopsOf(pattern))
    <3> DEFINE n == Len(StopsOf(pattern))
    <3>1. board \in 1 .. n /\ alight \in 1 .. n /\ board < alight
      BY <1>4 DEF Ridable
    <3>2. n \in Nat /\ position \in 1 .. n /\ position < alight
      <4>1. n \in Nat /\ position \in 1 .. n
        BY <1>3
      <4> HIDE DEF n
      <4> QED BY <3>1, <4>1, <1>4
    <3> HIDE DEF n
    <3>3. position # n
      BY <3>1, <3>2
    <3> QED BY <3>3 DEF n
  <2> QED BY <1>3, <2>1
<1>5. RidesAccounted'
  <2>1. PassesOn
    <3> SUFFICES ASSUME NEW k \in 1 .. q.rounds, NEW d, NEW t, NEW board, NEW alight,
                        Ridable(d, t, board, alight), Caught(k, d, t, board),
                        Marked(k, t, board) \/ InWork(k, d, t, board, alight)
                 PROVE  Marked(k, t, board)' \/ InWork(k, d, t, board, alight)'
      BY DEF PassesOn, Accounted
    <3>1. pc' \in Scanning /\ pc' # "access"
      BY <1>3 DEF Scanning, InScan
    <3>2. CASE Marked(k, t, board)
      BY <1>1, <3>1, <3>2, InstanceSame DEF Marked, Level
    <3>3. CASE InWork(k, d, t, board, alight)
      <4>1. k = round' /\ k = round
        BY <1>1, <3>3 DEF InWork
      <4>2. CASE Queued(t, board)
        BY <1>1, <3>1, <4>1, <4>2 DEF InWork, Queued
      <4>3. CASE Ahead(t, board)
        <5>1. q.trip_pattern[t] = pattern /\ position <= board /\ board \in Nat /\ alight \in Nat /\ board < alight
              /\ d \in Streams
          BY <1>2, <4>3, RidableFacts DEF Ahead
        <5>2. /\ pc' = "alight today" /\ position' = position + 1
              /\ currents' = IF tau[round - 1][StopHere] = Unreached THEN currents
                             ELSE [c \in Streams |-> Boarded(c)]
          BY <1>4, <5>1
        <5>3. CASE position = board
          <6>1. /\ tau[round - 1][StopHere] # Unreached
                /\ Boarded(d) # NoRide
                /\ \E u \in Twins(d, t, board) : Boarded(d).trip <= u
            BY <1>1, <4>1, <5>1, <5>3, BoardsInTime
          <6>2. currents'[d] = Boarded(d)
            BY <5>1, <5>2, <6>1
          <6>3. board < position' /\ (position' < alight \/ position' = alight)
            <7>1. position' = board + 1
              BY <5>2, <5>3
            <7>2. board \in Nat /\ alight \in Nat /\ board < alight
              BY <5>1
            <7> QED BY <7>1, <7>2
          <6>4. Aboard(d, t, board, alight)'
            BY <1>1, <5>1, <5>2, <6>1, <6>2, <6>3, InstanceSame DEF Aboard, InScan
          <6> QED BY <3>1, <4>1, <6>4 DEF InWork
        <5>4. CASE position # board
          <6>1. position' <= board
            <7>1. position' = position + 1
              BY <5>2
            <7>2. board \in Nat /\ position <= board
              BY <5>1
            <7> QED BY <7>1, <7>2, <5>4
          <6>2. Ahead(t, board)'
            BY <1>1, <5>1, <5>2, <6>1 DEF Ahead, InScan
          <6> QED BY <3>1, <4>1, <6>2 DEF InWork
        <5> QED BY <5>3, <5>4
      <4>4. CASE Aboard(d, t, board, alight)
        <5>1. /\ q.trip_pattern[t] = pattern /\ board < position /\ position < alight /\ currents[d] # NoRide
              /\ board \in Nat /\ alight \in Nat /\ d \in Streams
          BY <1>1, <1>2, <4>4, RidableFacts DEF Aboard
        <5>2. PICK u \in Twins(d, t, board) : currents[d].trip <= u
          BY <4>4 DEF Aboard
        <5>3. u \in Nat
          BY <1>2, RidableFacts
        <5>4. /\ Boarded(d) # NoRide /\ Boarded(d).trip \in Nat /\ currents[d].trip \in Nat
              /\ Boarded(d).trip <= currents[d].trip
          BY <1>1, <5>1, BoardsEarlier
        <5>5. /\ pc' = "alight today" /\ position' = position + 1
              /\ currents' = IF tau[round - 1][StopHere] = Unreached THEN currents
                             ELSE [c \in Streams |-> Boarded(c)]
          BY <1>4, <5>1
        <5>6. currents'[d] = currents[d] \/ currents'[d] = Boarded(d)
          BY <5>1, <5>5
        <5>7. currents'[d] # NoRide /\ currents'[d].trip <= u
          BY <5>1, <5>2, <5>3, <5>4, <5>6
        <5>8. board < position' /\ (position' < alight \/ position' = alight)
          <6>1. position' = position + 1
            BY <5>5
          <6>2. board \in Nat /\ alight \in Nat /\ board < position /\ position < alight
            BY <5>1
          <6> QED BY <6>1, <6>2
        <5>9. Aboard(d, t, board, alight)'
          BY <1>1, <5>1, <5>5, <5>7, <5>8, InstanceSame DEF Aboard, InScan
        <5> QED BY <3>1, <4>1, <5>9 DEF InWork
      <4>5. CASE \E u \in Twins(d, t, board) : Noted(d, u, alight)
        <5>1. \A u : Noted(d, u, alight) => Noted(d, u, alight)'
          BY <1>1, InstanceSame DEF Noted
        <5> QED BY <1>1, <3>1, <4>1, <4>5, <5>1, InstanceSame DEF InWork
      <4> QED BY <3>3, <4>2, <4>3, <4>4, <4>5 DEF InWork
    <3> QED BY <3>2, <3>3
  <2> QED BY <1>2, <2>1, RidesStay DEF CInv
<1>6. WalksAccounted'
  <2>1. pc' \in Scanning
    BY <1>3 DEF Scanning, InScan
  <2> QED BY <1>1, <1>2, <2>1, WalksStay DEF CInv
<1>7. AccessAccounted'
  BY <1>1, <1>2, AccessStays DEF CInv
<1>8. Rideless'
  BY <1>3 DEF Rideless
<1> QED BY <1>5, <1>6, <1>7, <1>8 DEF CInv

\* The footpaths of what was noted, or of what was marked, now wait.
LEMMA WalksWait ==
  ASSUME RInv, StartWalking, NEW s \in Stops, NEW at \in Int, NEW v \in WalkSources,
         v.from = s, v.at \in Int, v.at <= at
  PROVE  Left(round, s, at)'
<1>1. q' = q /\ q \in Queries /\ pc' = "walk" /\ round' = round
  BY DEF StartWalking, RInv, TypeOK
<1> SUFFICES ASSUME NEW e \in FootpathsFrom(s) PROVE Reached(round, e.to, at + e.duration)'
  BY <1>1, InstanceSame DEF Left
<1> DEFINE w == Departing(v, e)
<1>2. e.duration \in Nat
  BY <1>1, FootpathFacts
<1>3. w \in pending'
  BY DEF StartWalking
<1>4. w.to = e.to /\ w.at = v.at /\ w.duration = e.duration
  BY DEF Departing
<1>5. w.at + w.duration <= at + e.duration
  <2> HIDE DEF w
  <2> QED BY <1>2, <1>4
<1> HIDE DEF w
<1> QED BY <1>1, <1>3, <1>4, <1>5 DEF Reached

LEMMA ClosedStartWalking == RInv /\ CInv /\ StartWalking => CInv'
<1> SUFFICES ASSUME RInv, CInv, StartWalking PROVE CInv'
  OBVIOUS
<1>1. /\ RInv' /\ q' = q /\ UNCHANGED <<tau, best, pass, marked, round>>
      /\ pc = "queue" /\ pc' = "walk" /\ DOMAIN queue_position = {}
  BY InvStartWalking DEF StartWalking, tables
<1>2. Falls /\ MarksChanges /\ ReachStays /\ q \in Queries /\ TablesOK /\ round \in Rounds /\ round > 0
  BY <1>1, QuietFalls, FallsReach, TablesTyped DEF RInv, TypeOK, InRound
<1>3. RidesAccounted'
  <2>1. PassesOn
    <3> SUFFICES ASSUME NEW k \in 1 .. q.rounds, NEW d, NEW t, NEW board, NEW alight,
                        Ridable(d, t, board, alight),
                        Marked(k, t, board) \/ InWork(k, d, t, board, alight)
                 PROVE  Found(k, d, t, board, alight)' \/ Marked(k, t, board)'
      BY DEF PassesOn, Accounted
    <3>1. CASE Marked(k, t, board)
      BY <1>1, <3>1, InstanceSame DEF Marked, Level, Scanning, InScan
    <3>2. CASE InWork(k, d, t, board, alight)
      <4>1. k = round /\ \E u \in Twins(d, t, board) : Noted(d, u, alight)
        BY <1>1, <3>2 DEF InWork, Queued, Ahead, Aboard, InScan
      <4>2. PICK u \in Twins(d, t, board) : Noted(d, u, alight)
        BY <4>1
      <4>3. PICK s \in Stops, at \in Int : s = StopAt(u, alight) /\ at = ArrivesAt(d, u, alight)
        BY <1>2, RidableFacts
      <4>4. StopAt(u, alight)' = s /\ ArrivesAt(d, u, alight)' = at
        BY <1>1, <4>3, InstanceSame
      <4>5. best'[round][s] <= at /\ transit[s] # NoRide /\ AlightTime(transit[s]) <= at
        BY <1>1, <4>2, <4>3 DEF Noted
      <4>6. q.closed \/ Left(round, s, at)'
        <5> SUFFICES ASSUME ~q.closed PROVE Left(round, s, at)'
          OBVIOUS
        <5> DEFINE v == [from |-> s, at |-> AlightTime(transit[s]), ride |-> transit[s]]
        <5>1. v \in WalkSources
          BY <4>5 DEF WalkSources
        <5>2. v.from = s /\ v.at = AlightTime(transit[s])
          OBVIOUS
        <5>3. AlightTime(transit[s]) \in Int
          <6>1. GoodRide(round, transit[s], s)
            BY <4>5 DEF RInv, TransitGood
          <6> QED BY <1>2, <6>1, RideTimes DEF Times
        <5> HIDE DEF v
        <5> QED BY <4>5, <5>1, <5>2, <5>3, WalksWait
      <4>7. Rode(k, d, u, alight)'
        BY <1>1, <4>1, <4>4, <4>5, <4>6 DEF Rode
      <4> QED BY <1>1, <4>7, InstanceSame DEF Found
    <3> QED BY <3>1, <3>2
  <2> QED BY <1>2, <2>1, RidesStay DEF CInv
<1>4. WalksAccounted'
  <2>1. ASSUME q.closed, NEW s \in Stops, s \in marked PROVE Left(round, s, tau[round][s])'
    <3>1. PICK at \in Int : at = tau[round][s]
      BY <1>2 DEF TablesOK
    <3> DEFINE v == [from |-> s, at |-> tau[round][s], ride |-> NoRide]
    <3>2. v \in WalkSources
      BY <2>1 DEF WalkSources
    <3>3. v.from = s /\ v.at = at
      BY <3>1
    <3> HIDE DEF v
    <3>4. Left(round, s, at)'
      BY <3>2, <3>3, WalksWait
    <3> QED BY <1>1, <3>1, <3>4
  <2>2. WalksAccounted
    BY DEF CInv
  <2>3. CASE ~q.closed
    BY <1>1, <2>3, InstanceSame DEF WalksAccounted
  <2>4. CASE q.closed
    BY <1>1, <1>2, <2>1, <2>2, <2>4, WalksStay
  <2> QED BY <2>3, <2>4
<1>5. AccessAccounted'
  BY <1>1, <1>2, AccessStays DEF CInv
<1>6. Rideless'
  <2> SUFFICES ASSUME q.closed, NEW w \in pending' PROVE w.ride = NoRide
    BY <1>1 DEF Rideless
  <2>1. PICK v \in WalkSources : \E e \in FootpathsFrom(v.from) : w = Departing(v, e)
    BY DEF StartWalking
  <2>2. v.ride = NoRide
    BY DEF WalkSources
  <2> QED BY <2>1, <2>2 DEF Departing
<1> QED BY <1>3, <1>4, <1>5, <1>6 DEF CInv

----------------------------------------------------------------------------
(* The steps that write the tables.                                       *)

\* What one write of a relaxation does beside lowering the tables.
LEMMA RecordMarks ==
  ASSUME q \in Queries, TablesOK, BestIsPrefixMin, NEW k \in Rounds, NEW s \in Stops, NEW arrival \in Times,
         NEW l, NEW contested \in BOOLEAN, Record(k, s, arrival, l, contested)
  PROVE  /\ marked \subseteq marked'
         /\ best'[k][s] <= arrival
         /\ \A u \in Stops : tau'[k][u] # tau[k][u] => u = s /\ u \in marked' /\ tau'[k][u] = arrival
<1>1. best[k][s] \in Int /\ arrival \in Int /\ k \in Nat
  BY RoundsType DEF TablesOK, Times
<1>2. CASE Improves(k, s, arrival)
  <2>1. /\ tau' = [tau EXCEPT ![k][s] = arrival]
        /\ best' = Lowered(k, s, arrival)
        /\ marked' = marked \cup {s}
    BY <1>2 DEF Record
  <2>2. best'[k][s] = arrival
    BY <1>1, <1>2, <2>1 DEF Lowered, Improves, TablesOK
  <2>3. \A u \in Stops : tau'[k][u] = IF u = s THEN arrival ELSE tau[k][u]
    BY <2>1 DEF TablesOK
  <2> QED BY <1>1, <2>1, <2>2, <2>3
<1>3. CASE ~Improves(k, s, arrival)
  <2>1. tau' = tau /\ best' = best /\ marked \subseteq marked'
    BY <1>3 DEF Record, tables
  <2>2. best[k][s] <= arrival
    BY <1>1, <1>3 DEF Improves
  <2> QED BY <2>1, <2>2
<1> QED BY <1>2, <1>3

LEMMA RoundBefore == \A n \in Nat : \A k \in 1 .. n : k - 1 \in 0 .. n /\ k = (k - 1) + 1
  OBVIOUS

\* A step that lowers one round's arrivals and marks where keeps the rides
\* of the next round accounted for.
LEMMA MarksNext ==
  ASSUME RInv, Falls, NEW n \in Rounds, n = Level',
         pc' \in Scanning \cup {"access", "walk", "next round"},
         \A j \in Rounds : j # n => tau'[j] = tau[j],
         \A u \in Stops : tau'[n][u] # tau[n][u] => u \in marked'
  PROVE  MarksChanges
<1>1. q' = q /\ q \in Queries
  BY DEF RInv, TypeOK, Falls
<1> SUFFICES ASSUME NEW k \in 1 .. q.rounds, NEW d, NEW t, NEW board, NEW alight,
                    Ridable(d, t, board, alight), ~Unchanged(k, t, board)
             PROVE  Marked(k, t, board)'
  BY DEF MarksChanges
<1>2. StopAt(t, board) \in Stops /\ StopAt(t, board)' = StopAt(t, board)
  BY <1>1, RidableFacts, InstanceSame
<1>3. k - 1 \in Rounds /\ k = (k - 1) + 1
  BY <1>1, RoundsType, RoundBefore DEF Rounds
<1>4. tau'[k - 1][StopAt(t, board)] # tau[k - 1][StopAt(t, board)]
  BY DEF Unchanged
<1>5. k - 1 = n
  BY <1>3, <1>4
<1>6. k = Level' + 1
  BY <1>3, <1>5
<1>7. StopAt(t, board) \in marked'
  BY <1>2, <1>4, <1>5
<1>8. Scanning' = Scanning
  BY DEF Scanning, InScan
<1> QED BY <1>2, <1>6, <1>7, <1>8 DEF Marked

LEMMA ClosedSeedAccess ==
  ASSUME RInv, CInv, NEW a \in pending, SeedAccess(a)
  PROVE  CInv'
<1>1. /\ RInv' /\ q' = q /\ pc = "access" /\ pc' = "access" /\ pass' = pass /\ pending' = pending \ {a}
      /\ q \in Queries /\ TablesOK /\ BestIsPrefixMin /\ 0 \in Rounds
  BY InvSeedAccess, TablesTyped, RoundsType DEF RInv, SeedAccess
<1>2. /\ Falls
      /\ \A j \in Rounds : j # 0 => tau'[j] = tau[j]
      /\ marked \subseteq marked'
      /\ \A u \in Stops : tau'[0][u] # tau[0][u] => u \in marked'
      /\ Now + a.duration >= Unreached \/ best'[0][a.stop] <= Now + a.duration
  <2>1. /\ a.stop \in Stops /\ AccessLabel(Now, a.duration) \in Labels
        /\ \/ UNCHANGED tables
           \/ /\ Now + a.duration \in Times
              /\ Explains(0, a.stop, Now + a.duration, AccessLabel(Now, a.duration))
              /\ Record(0, a.stop, Now + a.duration, AccessLabel(Now, a.duration), TRUE)
    BY SeedRelaxes
  <2>2. Falls /\ \A j \in Rounds : j # 0 => tau'[j] = tau[j]
    BY <1>1, <2>1, RelaxTables
  <2>3. Now + a.duration \in Nat
    <3>1. Now \in Times /\ a.duration \in Nat
      BY <2>1, LabelFields DEF AccessLabel
    <3> QED BY <3>1 DEF Times
  <2>4. CASE Now + a.duration < Unreached
    <3> DEFINE arrival == Now + a.duration
               l == AccessLabel(Now, a.duration)
    <3>1. Record(0, a.stop, arrival, l, TRUE)
      BY <2>4 DEF SeedAccess
    <3>2. arrival \in Times
      BY <2>3, <2>4, TimeAssumption DEF Times
    <3> HIDE DEF arrival, l
    <3>3. /\ marked \subseteq marked' /\ best'[0][a.stop] <= arrival
          /\ \A u \in Stops : tau'[0][u] # tau[0][u] => u \in marked'
      BY <1>1, <2>1, <3>1, <3>2, RecordMarks
    <3> QED BY <2>2, <3>3 DEF arrival
  <2>5. CASE ~(Now + a.duration < Unreached)
    <3>1. UNCHANGED tables /\ Now + a.duration >= Unreached
      BY <2>3, <2>5, TimeAssumption DEF SeedAccess
    <3> QED BY <2>2, <3>1 DEF tables
  <2> QED BY <2>4, <2>5
<1>3. MarksChanges /\ ReachStays
  <2>1. 0 = Level' /\ pc' \in Scanning \cup {"access", "walk", "next round"}
    BY <1>1 DEF Level
  <2> QED BY <1>1, <1>2, <2>1, MarksNext, FallsReach
<1>4. RidesAccounted'
  <2>1. PassesOn
    <3> SUFFICES ASSUME NEW k \in 1 .. q.rounds, NEW d, NEW t, NEW board, NEW alight,
                        Marked(k, t, board) \/ InWork(k, d, t, board, alight)
                 PROVE  Marked(k, t, board)'
      BY DEF PassesOn, Accounted
    <3>1. Marked(k, t, board)
      BY <1>1 DEF InWork, Scanning, InScan
    <3> QED BY <1>1, <1>2, <3>1, InstanceSame DEF Marked, Level
  <2> QED BY <1>2, <1>3, <2>1, RidesStay DEF CInv
<1>5. WalksAccounted'
  <2>1. \A k \in 1 .. q.rounds : tau'[k] = tau[k]
    <3>1. \A k \in 1 .. q.rounds : k \in Rounds /\ k # 0
      BY <1>1, RoundsType DEF Rounds
    <3> QED BY <1>2, <3>1
  <2>2. pc \notin Scanning
    BY <1>1 DEF Scanning, InScan
  <2> QED BY <1>2, <1>3, <2>1, <2>2, WalksStay DEF CInv
<1>6. AccessAccounted'
  BY <1>1, <1>2, AccessStays DEF CInv
<1>7. Rideless'
  BY <1>1 DEF Rideless
<1> QED BY <1>4, <1>5, <1>6, <1>7 DEF CInv

\* Two times, the first no later.
Sooner(a, b) == a \in Int /\ b \in Int /\ a <= b

\* What an alighting leaves in the tables and in the sidecar.
LEMMA AlightLeaves ==
  ASSUME RInv, NEW d \in Streams, Alight(d)
  PROVE  /\ Falls
         /\ \A j \in Rounds : j # round => tau'[j] = tau[j]
         /\ marked \subseteq marked'
         /\ \A u \in Stops : tau'[round][u] # tau[round][u] => u \in marked'
         /\ currents[d] # NoRide /\ StopHere \notin q.excluded =>
              /\ best'[round][StopHere] + Offset(d) <= q.arrival[currents[d].trip][position]
              /\ q.closed \/ (transit'[StopHere] # NoRide /\ AlightTime(transit'[StopHere]) \in Int
                              /\ AlightTime(transit'[StopHere]) + Offset(d) <= q.arrival[currents[d].trip][position])
         /\ \A s \in Stops : transit[s] # NoRide =>
              transit'[s] # NoRide /\ Sooner(AlightTime(transit'[s]), AlightTime(transit[s]))
<1> DEFINE r == Ride(d)
           l == TransitLabel(r)
           at == AlightTime(r)
           alights == currents[d] # NoRide /\ StopHere \notin q.excluded
<1>1. /\ q' = q /\ pc \in InScan /\ q \in Queries /\ TablesOK /\ BestIsPrefixMin
      /\ round \in Rounds /\ round > 0 /\ StopHere \in Stops /\ transit \in [Stops -> {NoRide} \cup Rides]
      /\ Offset(d) \in Nat
  <2>1. q' = q /\ pc \in InScan
    BY DEF Alight, InScan
  <2> QED BY <2>1, ScanHere, OffsetType DEF RInv, TypeOK
<1>2. Falls /\ \A j \in Rounds : j # round => tau'[j] = tau[j]
  <2>1. PICK m \in Labels, arrival \in Nat, contested \in BOOLEAN :
           \/ UNCHANGED tables
           \/ /\ arrival \in Times
              /\ Explains(round, StopHere, arrival, m)
              /\ Record(round, StopHere, arrival, m, contested)
    BY AlightRelaxes
  <2> QED BY <1>1, <2>1, RelaxTables
<1>3. \A s \in Stops : transit[s] # NoRide => AlightTime(transit[s]) \in Int
  <2> SUFFICES ASSUME NEW s \in Stops, transit[s] # NoRide PROVE AlightTime(transit[s]) \in Int
    OBVIOUS
  <2>1. GoodRide(round, transit[s], s)
    BY DEF RInv, TransitGood
  <2> QED BY <1>1, <2>1, RideTimes DEF Times
<1>4. CASE ~alights
  <2>1. UNCHANGED tables /\ transit' = transit
    BY <1>4 DEF Alight
  <2>2. tau' = tau /\ marked' = marked
    BY <2>1 DEF tables
  <2>3. \A s \in Stops : transit[s] # NoRide =>
          transit'[s] # NoRide /\ Sooner(AlightTime(transit'[s]), AlightTime(transit[s]))
    BY <1>3, <2>1 DEF Sooner
  <2> HIDE DEF r, l, at
  <2> QED BY <1>2, <1>4, <2>2, <2>3
<1>5. CASE alights
  <2>1. NoteTransit(r) /\ Record(round, StopHere, at, l, TRUE)
    BY <1>5 DEF Alight
  <2>2. at \in Times /\ at + Offset(d) = q.arrival[currents[d].trip][position]
    <3>1. GoodRide(round, r, StopHere)
      BY <1>1, <1>5, RideHere
    <3>2. at \in Times /\ at + r.offset = q.arrival[r.trip][r.alight]
      <4> HIDE DEF r
      <4> QED BY <1>1, <3>1, RideTimes
    <3>3. r.offset = Offset(d) /\ r.trip = currents[d].trip /\ r.alight = position
      BY DEF Ride
    <3> HIDE DEF r, at
    <3> QED BY <3>2, <3>3
  <2>3. at \in Int
    BY <2>2 DEF Times
  <2>4. transit' = IF ~q.closed /\ (transit[StopHere] = NoRide \/ at < AlightTime(transit[StopHere]))
                     THEN [transit EXCEPT ![StopHere] = r] ELSE transit
    BY <2>1 DEF NoteTransit
  <2>5. r # NoRide
    <3>1. r \in Rides
      BY <1>1, <1>5, RideHere DEF GoodRide
    <3>2. r.trip \in Nat /\ NoRide.trip = -1
      <4>1. r.trip \in q.trips
        BY <3>1, <1>1, RideFacts
      <4> QED BY <1>1, <4>1, QueriesAssumption DEF WellFormedTimetable, NoRide
    <3> QED BY <3>2
  <2> HIDE DEF r, l
  <2>6. /\ marked \subseteq marked' /\ best'[round][StopHere] <= at
        /\ \A u \in Stops : tau'[round][u] # tau[round][u] => u \in marked'
    <3> HIDE DEF at
    <3> QED BY <1>1, <2>1, <2>2, RecordMarks
  <2>7. best'[round][StopHere] \in Int
    BY <1>1, <1>2, InstanceSame DEF Falls, TablesOK
  <2>8. best'[round][StopHere] + Offset(d) <= q.arrival[currents[d].trip][position]
    <3> HIDE DEF at
    <3> QED BY <1>1, <2>2, <2>3, <2>6, <2>7
  <2>9. \A s \in Stops : transit[s] # NoRide =>
          transit'[s] # NoRide /\ Sooner(AlightTime(transit'[s]), AlightTime(transit[s]))
    <3> SUFFICES ASSUME NEW s \in Stops, transit[s] # NoRide
                 PROVE  transit'[s] # NoRide /\ Sooner(AlightTime(transit'[s]), AlightTime(transit[s]))
      OBVIOUS
    <3>1. CASE transit'[s] = transit[s]
      BY <1>3, <3>1 DEF Sooner
    <3>2. CASE transit'[s] # transit[s]
      <4>1. s = StopHere /\ transit'[s] = r /\ at < AlightTime(transit[s])
        BY <1>1, <2>4, <3>2
      <4> QED BY <1>3, <2>3, <2>5, <4>1 DEF Sooner
    <3> QED BY <3>1, <3>2
  <2>10. q.closed \/ (transit'[StopHere] # NoRide /\ AlightTime(transit'[StopHere]) <= at
                      /\ AlightTime(transit'[StopHere]) \in Int)
    <3>1. CASE transit'[StopHere] = r
      BY <2>3, <2>5, <3>1
    <3>2. CASE ~q.closed /\ transit'[StopHere] # r
      <4>1. transit' = transit /\ transit[StopHere] # NoRide /\ ~(at < AlightTime(transit[StopHere]))
        BY <1>1, <2>4, <3>2
      <4> HIDE DEF at
      <4> QED BY <1>1, <1>3, <2>3, <4>1
    <3> QED BY <3>1, <3>2
  <2>11. q.closed \/ (transit'[StopHere] # NoRide /\ AlightTime(transit'[StopHere]) \in Int
                      /\ AlightTime(transit'[StopHere]) + Offset(d) <= q.arrival[currents[d].trip][position])
    <3> HIDE DEF at
    <3> QED BY <1>1, <2>2, <2>3, <2>10
  <2> QED BY <1>2, <2>6, <2>8, <2>9, <2>11
<1> QED BY <1>4, <1>5

\* The trip ridden is alighted no later than one it leaves together with, or before.
LEMMA AlightsInTime ==
  ASSUME RInv, NEW c \in Streams, Alight(c), NEW d, NEW t, NEW board, NEW alight,
         Ridable(d, t, board, alight), d = c, position = alight, q.trip_pattern[t] = pattern,
         currents[d] # NoRide, NEW u \in Twins(d, t, board), currents[d].trip <= u
  PROVE  Rode(round, d, u, alight)' \/ Noted(d, u, alight)'
<1>1. /\ Falls /\ q' = q /\ round' = round /\ q \in Queries /\ round \in Rounds /\ StopHere \in Stops
      /\ TablesOK /\ pc \in InScan /\ Offset(d) \in Nat
  <2>1. pc \in InScan /\ round' = round
    BY DEF Alight, InScan
  <2>2. Falls
    BY AlightLeaves
  <2> QED BY <2>1, <2>2, ScanHere, OffsetType DEF Falls
<1>2. /\ StopAt(u, alight) = StopHere /\ StopAt(u, alight) \notin q.excluded
      /\ u \in q.usable[d] /\ q.trip_pattern[u] = pattern
  <2>1. u \in q.usable[d] /\ q.trip_pattern[u] = pattern /\ StopAt(u, alight) = StopAt(t, alight)
    BY <1>1, RidableFacts
  <2>2. StopAt(t, alight) \notin q.excluded
    BY DEF Ridable
  <2> QED BY <2>1, <2>2 DEF StopAt, StopHere
<1>3. currents[d].trip \in q.usable[d] /\ q.trip_pattern[currents[d].trip] = pattern
  <2>1. BoardedGood
    BY DEF RInv
  <2> QED BY <1>1, <2>1 DEF BoardedGood
<1>4. /\ q.arrival[currents[d].trip][position] \in Nat /\ q.arrival[u][position] \in Nat
      /\ q.arrival[currents[d].trip][position] <= q.arrival[u][position]
  <2>1. position \in 1 .. Len(StopsOf(q.trip_pattern[u]))
    BY <1>1, <1>2, ScanHere
  <2> QED BY <1>1, <1>2, <1>3, <2>1, FirstInFirstOut
<1>5. /\ best'[round][StopHere] + Offset(d) <= q.arrival[currents[d].trip][position]
      /\ q.closed \/ (transit'[StopHere] # NoRide /\ AlightTime(transit'[StopHere]) \in Int
                      /\ AlightTime(transit'[StopHere]) + Offset(d) <= q.arrival[currents[d].trip][position])
  BY <1>2, AlightLeaves
<1>6. best'[round][StopHere] \in Int
  BY <1>1, InstanceSame DEF Falls, TablesOK
<1>7. best'[round][StopHere] <= q.arrival[u][position] - Offset(d)
  BY <1>1, <1>4, <1>5, <1>6
<1>8. StopAt(u, alight)' = StopHere /\ ArrivesAt(d, u, alight)' = q.arrival[u][position] - Offset(d)
  BY <1>1, <1>2, InstanceSame DEF ArrivesAt
<1>9. CASE q.closed
  BY <1>1, <1>7, <1>8, <1>9 DEF Rode
<1>10. CASE ~q.closed
  <2>1. transit'[StopHere] # NoRide /\ AlightTime(transit'[StopHere]) \in Int
        /\ AlightTime(transit'[StopHere]) + Offset(d) <= q.arrival[currents[d].trip][position]
    BY <1>5, <1>10
  <2>2. AlightTime(transit'[StopHere]) <= q.arrival[u][position] - Offset(d)
    BY <1>1, <1>4, <2>1
  <2>3. AlightTime(transit[StopAt(u, alight)])' = AlightTime(transit'[StopHere])
    BY <1>1, <1>8 DEF AlightTime, OnTheDay
  <2> QED BY <1>1, <1>7, <1>8, <2>1, <2>2, <2>3 DEF Noted
<1> QED BY <1>9, <1>10

LEMMA ClosedAlight ==
  ASSUME RInv, CInv, NEW c \in Streams, Alight(c)
  PROVE  CInv'
<1>1. /\ RInv' /\ q' = q /\ UNCHANGED <<pass, round, queue_position, pattern, position, currents, pending>>
      /\ pc \in InScan /\ pc' \in InScan /\ pc \in Scanning /\ pc' \in Scanning
      /\ \/ pc = "alight today" /\ pc' = "alight yesterday" /\ c = 0
         \/ pc = "alight yesterday" /\ pc' = "board" /\ c = 1
  <2>1. \/ pc = "alight today" /\ pc' = "alight yesterday" /\ c = 0
        \/ pc = "alight yesterday" /\ pc' = "board" /\ c = 1
    BY DEF Alight, Streams
  <2>2. q' = q /\ UNCHANGED <<pass, round, queue_position, pattern, position, currents, pending>>
    BY DEF Alight, scanning
  <2> QED BY <2>1, <2>2, InvAlight DEF Scanning, InScan
<1>2. /\ Falls /\ \A j \in Rounds : j # round => tau'[j] = tau[j]
      /\ marked \subseteq marked'
      /\ \A u \in Stops : tau'[round][u] # tau[round][u] => u \in marked'
      /\ \A s \in Stops : transit[s] # NoRide =>
           transit'[s] # NoRide /\ Sooner(AlightTime(transit'[s]), AlightTime(transit[s]))
  BY AlightLeaves
<1>3. q \in Queries /\ TablesOK /\ round \in Rounds /\ round' = round
  BY <1>1, ScanHere
<1>4. MarksChanges /\ ReachStays
  <2>1. round = Level' /\ pc' \in Scanning \cup {"access", "walk", "next round"} /\ pc # "walk"
    BY <1>1 DEF Level, InScan
  <2> QED BY <1>2, <1>3, <2>1, MarksNext, FallsReach
<1>5. \A d, u, alight : u \in q.trips /\ StopAt(u, alight) \in Stops /\ ArrivesAt(d, u, alight) \in Int
                        /\ Noted(d, u, alight) => Noted(d, u, alight)'
  <2> SUFFICES ASSUME NEW d, NEW u, NEW alight, StopAt(u, alight) \in Stops, ArrivesAt(d, u, alight) \in Int,
                      Noted(d, u, alight)
               PROVE  Noted(d, u, alight)'
    OBVIOUS
  <2>1. PICK s \in Stops, at \in Int : s = StopAt(u, alight) /\ at = ArrivesAt(d, u, alight)
    OBVIOUS
  <2>2. StopAt(u, alight)' = s /\ ArrivesAt(d, u, alight)' = at
    BY <1>1, <2>1, InstanceSame
  <2>3. best[round][s] <= at /\ transit[s] # NoRide /\ AlightTime(transit[s]) <= at
    BY <2>1 DEF Noted
  <2>4. best'[round][s] <= best[round][s] /\ best'[round][s] \in Int /\ best[round][s] \in Int
    <3>1. TablesOK' /\ Rounds' = Rounds
      BY <1>1, <1>2, InstanceSame DEF Falls
    <3> QED BY <1>2, <1>3, <2>1, <3>1 DEF Falls, TablesOK
  <2>5. best'[round][s] <= at
    BY <2>3, <2>4
  <2>6. transit'[s] # NoRide /\ Sooner(AlightTime(transit'[s]), AlightTime(transit[s]))
    BY <1>2, <2>3
  <2>7. AlightTime(transit'[s]) <= at
    BY <2>3, <2>6 DEF Sooner
  <2>8. AlightTime(transit[StopAt(u, alight)])' = AlightTime(transit'[s])
    BY <1>1, <2>2, InstanceSame DEF AlightTime, OnTheDay
  <2> QED BY <1>1, <2>2, <2>5, <2>6, <2>7, <2>8 DEF Noted
<1>6. RidesAccounted'
  <2>1. PassesOn
    <3> SUFFICES ASSUME NEW k \in 1 .. q.rounds, NEW d, NEW t, NEW board, NEW alight,
                        Ridable(d, t, board, alight),
                        Marked(k, t, board) \/ InWork(k, d, t, board, alight)
                 PROVE  Accounted(k, d, t, board, alight)'
      BY DEF PassesOn
    <3>1. CASE Marked(k, t, board)
      <4>1. Marked(k, t, board)'
        <5>1. StopAt(t, board)' \in marked' /\ k = round + 1
          BY <1>1, <1>2, <3>1, InstanceSame DEF Marked, Level, Scanning, InScan
        <5>2. Level' = round
          BY <1>1 DEF Level, InScan
        <5> QED BY <1>1, <5>1, <5>2 DEF Marked, Scanning, InScan
      <4> QED BY <4>1 DEF Accounted
    <3>2. CASE InWork(k, d, t, board, alight)
      <4>1. k = round' /\ k = round
        BY <1>1, <3>2 DEF InWork
      <4>2. ASSUME \/ Queued(t, board)' \/ Ahead(t, board)' \/ Aboard(d, t, board, alight)'
                   \/ (\E u \in Twins(d, t, board) : Noted(d, u, alight))'
            PROVE  Accounted(k, d, t, board, alight)'
        <5>1. Scanning' = Scanning
          BY DEF Scanning, InScan
        <5> QED BY <1>1, <4>1, <4>2, <5>1 DEF InWork, Accounted
      <4>3. CASE Queued(t, board)
        <5>1. Queued(t, board)'
          BY <1>1, <4>3 DEF Queued
        <5> QED BY <4>2, <5>1
      <4>4. CASE Ahead(t, board)
        <5>1. Ahead(t, board)'
          BY <1>1, <4>4 DEF Ahead, InScan
        <5> QED BY <4>2, <5>1
      <4>5. CASE Aboard(d, t, board, alight)
        <5>1. PICK u \in Twins(d, t, board) : currents[d].trip <= u
          BY <4>5 DEF Aboard
        <5>2. CASE position = alight /\ d = c
          <6>1. Rode(round, d, u, alight)' \/ Noted(d, u, alight)'
            BY <4>5, <5>1, <5>2, AlightsInTime DEF Aboard
          <6>2. CASE Rode(round, d, u, alight)'
            BY <1>1, <4>1, <6>2, InstanceSame DEF Accounted, Found
          <6>3. CASE Noted(d, u, alight)'
            <7>1. (\E v \in Twins(d, t, board) : Noted(d, v, alight))'
              BY <1>1, <6>3, InstanceSame
            <7> QED BY <4>2, <7>1
          <6> QED BY <6>1, <6>2, <6>3
        <5>3. CASE ~(position = alight /\ d = c)
          <6>1. d \in {0, 1}
            BY DEF Ridable, Streams
          <6>2. position < alight \/ (position = alight /\ pc' = "alight yesterday" /\ d = 1)
            BY <1>1, <4>5, <5>3, <6>1 DEF Aboard
          <6>3. Aboard(d, t, board, alight)'
            BY <1>1, <4>5, <5>1, <6>2, InstanceSame DEF Aboard
          <6> QED BY <4>2, <6>3
        <5> QED BY <5>2, <5>3
      <4>6. CASE \E u \in Twins(d, t, board) : Noted(d, u, alight)
        <5>1. PICK u \in Twins(d, t, board) : Noted(d, u, alight)
          BY <4>6
        <5>2. /\ u \in q.trips /\ StopAt(u, alight) \in Stops /\ ArrivesAt(d, u, alight) \in Int
          BY <1>3, RidableFacts
        <5>3. Noted(d, u, alight)'
          BY <1>5, <5>1, <5>2
        <5>4. (\E v \in Twins(d, t, board) : Noted(d, v, alight))'
          BY <1>1, <5>3, InstanceSame
        <5> QED BY <4>2, <5>4
      <4> QED BY <3>2, <4>3, <4>4, <4>5, <4>6 DEF InWork
    <3> QED BY <3>1, <3>2
  <2> QED BY <1>2, <1>4, <2>1, RidesStay DEF CInv
<1>7. WalksAccounted'
  <2>1. ASSUME NEW k \in 1 .. q.rounds, NEW s \in Stops
        PROVE  \/ tau'[k][s] = tau[k][s] /\ ((pc \in Scanning /\ k = round /\ s \in marked)
                                         => (Left(k, s, tau[k][s]) \/ (pc \in Scanning /\ k = round /\ s \in marked))')
               \/ (pc \in Scanning /\ k = round /\ s \in marked)'
    <3>1. Scanning' = Scanning /\ round' = round /\ pc' \in Scanning
      BY <1>1 DEF Scanning, InScan
    <3>2. k \in Rounds
      BY <1>3, RoundsType DEF Rounds
    <3>3. CASE tau'[k][s] = tau[k][s]
      BY <1>2, <3>1, <3>3
    <3>4. CASE tau'[k][s] # tau[k][s]
      <4>1. k = round /\ s \in marked'
        BY <1>2, <3>2, <3>4
      <4> QED BY <3>1, <4>1
    <3> QED BY <3>3, <3>4
  <2> QED BY <1>2, <1>4, <2>1, WalksStay DEF CInv
<1>8. AccessAccounted'
  <2>1. pc # "access"
    BY <1>1 DEF InScan
  <2> QED BY <1>1, <1>2, <2>1, AccessStays DEF CInv
<1>9. Rideless'
  BY <1>1 DEF Rideless, InScan
<1> QED BY <1>6, <1>7, <1>8, <1>9 DEF CInv

\* What a footpath leaves in the tables.
LEMMA WalkLeaves ==
  ASSUME RInv, NEW w \in pending, Walk(w)
  PROVE  /\ Falls /\ w.to \in Stops /\ w.at + w.duration \in Nat
         /\ \A j \in Rounds : j # round => tau'[j] = tau[j]
         /\ marked \subseteq marked'
         /\ \A u \in Stops : tau'[round][u] # tau[round][u] =>
              /\ u \in marked' /\ u = w.to /\ tau'[round][u] = w.at + w.duration
              /\ w.at + w.duration < Unreached
         /\ w.at + w.duration >= Unreached \/ best'[round][w.to] <= w.at + w.duration
<1> DEFINE arrival == w.at + w.duration
           l == IF w.ride = NoRide THEN TransferLabel(w.from, w.duration)
                                   ELSE TransferFromRideLabel(w.from, w.duration, w.ride)
           contested == (w.ride = NoRide)
<1>1. /\ q' = q /\ q \in Queries /\ TablesOK /\ BestIsPrefixMin /\ round \in Rounds /\ w \in Footpaths
  BY TablesTyped DEF RInv, TypeOK, Walk, InRound
<1>2. w.to \in Stops /\ w.at \in Nat /\ w.duration \in Nat
  BY <1>1, TimeAssumption DEF Footpaths
<1>3. arrival \in Nat
  BY <1>2
<1>4. Falls /\ \A j \in Rounds : j # round => tau'[j] = tau[j]
  <2>1. PICK m \in Labels, at \in Nat, tied \in BOOLEAN :
           /\ round \in Rounds /\ w.to \in Stops
           /\ \/ UNCHANGED tables
              \/ /\ at \in Times
                 /\ Explains(round, w.to, at, m)
                 /\ Record(round, w.to, at, m, tied)
    BY WalkRelaxes
  <2> QED BY <1>1, <2>1, RelaxTables
<1>5. IF arrival < Unreached THEN Record(round, w.to, arrival, l, contested) ELSE UNCHANGED tables
  BY DEF Walk
<1>6. contested \in BOOLEAN
  OBVIOUS
<1> HIDE DEF l, arrival, contested
<1>7. CASE arrival < Unreached
  <2>1. arrival \in Times
    BY <1>3, <1>7, TimeAssumption DEF Times
  <2>2. /\ marked \subseteq marked' /\ best'[round][w.to] <= arrival
        /\ \A u \in Stops : tau'[round][u] # tau[round][u] => u = w.to /\ u \in marked' /\ tau'[round][u] = arrival
    BY <1>1, <1>2, <1>5, <1>6, <1>7, <2>1, RecordMarks
  <2> QED BY <1>2, <1>3, <1>4, <1>7, <2>2 DEF arrival
<1>8. CASE ~(arrival < Unreached)
  <2>1. UNCHANGED tables /\ arrival >= Unreached
    BY <1>3, <1>5, <1>8, TimeAssumption
  <2> QED BY <1>2, <1>3, <1>4, <2>1 DEF tables, arrival
<1> QED BY <1>7, <1>8

LEMMA WalkReaches ==
  ASSUME RInv, NEW w \in pending, Walk(w)
  PROVE  ReachStays
<1> SUFFICES ASSUME NEW k \in Rounds, NEW s \in Stops, NEW at \in Int, Reached(k, s, at)
             PROVE  Reached(k, s, at)'
  BY DEF ReachStays
<1>1. /\ TablesOK /\ TablesOK' /\ Rounds' = Rounds /\ Falls /\ w.at + w.duration \in Nat
      /\ w.at + w.duration >= Unreached \/ best'[round][w.to] <= w.at + w.duration
  BY TablesTyped, WalkLeaves, InstanceSame DEF RInv, Falls
<1>2. best'[k][s] <= best[k][s] /\ best'[k][s] \in Int /\ best[k][s] \in Int
  BY <1>1 DEF Falls, TablesOK
<1>3. pc = "walk" /\ pc' = "walk" /\ round' = round /\ pending' = pending \ {w}
  BY DEF Walk
<1>4. CASE at >= Unreached
  BY <1>4 DEF Reached
<1>5. CASE best[k][s] <= at
  BY <1>2, <1>5 DEF Reached
<1>6. CASE k = round /\ \E v \in pending : v.to = s /\ v.at + v.duration <= at
  <2>1. PICK v \in pending : v.to = s /\ v.at + v.duration <= at
    BY <1>6
  <2>2. CASE v = w
    <3>1. PICK a \in Nat : a = w.at + w.duration
      BY <1>1
    <3>2. a <= at /\ (a >= Unreached \/ best'[k][s] <= a)
      BY <1>1, <1>6, <2>1, <2>2, <3>1
    <3>3. at >= Unreached \/ best'[k][s] <= at
      BY <1>2, <3>2, TimeAssumption
    <3> QED BY <3>3 DEF Reached
  <2>3. CASE v # w
    BY <1>3, <1>6, <2>1, <2>3 DEF Reached
  <2> QED BY <2>2, <2>3
<1> QED BY <1>4, <1>5, <1>6 DEF Reached

\* Reached by one time, reached by every later one.
LEMMA ReachedLater ==
  ASSUME RInv, NEW k \in Rounds, NEW s \in Stops, NEW at \in Int, NEW later \in Int, at <= later,
         Reached(k, s, at)
  PROVE  Reached(k, s, later)
<1>1. best[k][s] \in Int /\ Unreached \in Int
  BY TablesTyped, TimeAssumption DEF RInv, TablesOK
<1>2. CASE at >= Unreached \/ best[k][s] <= at
  BY <1>1, <1>2 DEF Reached
<1>3. CASE pc = "walk" /\ k = round /\ \E w \in pending : w.to = s /\ w.at + w.duration <= at
  <2>1. PICK w \in pending : w.to = s /\ w.at + w.duration <= at
    BY <1>3
  <2>2. w.at \in Int /\ w.duration \in Int
    BY <1>3 DEF RInv, TypeOK, Footpaths
  <2>3. w.at + w.duration <= later
    BY <2>1, <2>2
  <2> QED BY <1>3, <2>1, <2>3 DEF Reached
<1> QED BY <1>2, <1>3 DEF Reached

\* Where a footpath of a closed set arrives sooner, its own footpaths have
\* been taken: the set has one for the two in a row, from where it leaves.
LEMMA WalksClose ==
  ASSUME RInv, WalksAccounted, Rideless, q.closed, NEW w \in pending, Walk(w), w.at + w.duration < Unreached
  PROVE  Left(round, w.to, w.at + w.duration)
<1>1. /\ q \in Queries /\ TablesOK /\ BestIsPrefixMin /\ round \in Rounds /\ round \in 1 .. q.rounds
      /\ w \in Footpaths /\ pc = "walk" /\ pc \notin Scanning
  <2>1. round \in Rounds /\ round > 0 /\ q \in Queries /\ TablesOK /\ w \in Footpaths
    BY TablesTyped DEF RInv, TypeOK, Walk, InRound
  <2>2. \A n \in Nat : \A k \in 0 .. n : k > 0 => k \in 1 .. n
    OBVIOUS
  <2>3. round \in 1 .. q.rounds
    BY <2>1, <2>2, RoundsType DEF Rounds
  <2>4. pc = "walk"
    BY DEF Walk
  <2> QED BY <2>1, <2>3, <2>4 DEF RInv, Scanning, InScan
<1>2. w.from \in Stops /\ w.to \in Stops /\ w.at \in Nat /\ w.duration \in Nat
  BY <1>1, TimeAssumption DEF Footpaths
<1>3. PICK f \in q.transfers : f.from = w.from /\ f.to = w.to /\ f.duration = w.duration
  BY <1>1 DEF RInv, PendingGood
<1>4. tau[round][w.from] <= w.at
  BY <1>1 DEF RInv, PendingGood, Rideless
<1> SUFFICES ASSUME NEW e \in FootpathsFrom(w.to)
             PROVE  Reached(round, e.to, w.at + w.duration + e.duration)
  BY DEF Left
<1>5. e \in q.transfers /\ e.from = w.to /\ e.to \in Stops /\ e.duration \in Nat /\ e.to \notin q.excluded
  BY <1>1, FootpathFacts DEF FootpathsFrom
<1> DEFINE later == w.at + w.duration + e.duration
<1>6. tau[round][w.from] \in Int /\ best[round][w.from] \in Int /\ later \in Int
  BY <1>1, <1>2, <1>5 DEF TablesOK
<1>7. CASE e.to = w.from
  <2>1. best[round][w.from] <= tau[round][w.from]
    <3>1. round \in 0 .. round
      BY <1>1, RoundsType DEF Rounds
    <3> QED BY <1>1, <1>2, <3>1 DEF BestIsPrefixMin
  <2>2. best[round][w.from] <= later
    BY <1>2, <1>4, <1>5, <1>6, <2>1
  <2> QED BY <1>7, <2>2 DEF Reached
<1>8. CASE e.to # w.from
  <2>1. f.to = e.from /\ f.from # e.to
    BY <1>3, <1>5, <1>8
  <2>2. PICK g \in q.transfers : g.from = f.from /\ g.to = e.to /\ g.duration <= f.duration + e.duration
    BY <1>1, <1>3, <1>5, <2>1, QueriesAssumption DEF WellFormedTransfers
  <2>3. g \in FootpathsFrom(w.from) /\ g.to = e.to /\ g.duration <= w.duration + e.duration
    BY <1>3, <1>5, <2>2 DEF FootpathsFrom
  <2>4. g.duration \in Nat
    BY <1>1, <2>3, FootpathFacts
  <2>5. tau[round][w.from] < Unreached
    BY <1>2, <1>4, <1>6, TimeAssumption
  <2>6. Left(round, w.from, tau[round][w.from])
    BY <1>1, <1>2, <2>5 DEF WalksAccounted
  <2> DEFINE at == tau[round][w.from] + g.duration
  <2>7. Reached(round, e.to, at)
    BY <2>3, <2>6 DEF Left
  <2>8. at \in Int /\ at <= later
    BY <1>2, <1>4, <1>5, <1>6, <2>3, <2>4
  <2> HIDE DEF at, later
  <2>9. Reached(round, e.to, later)
    BY <1>1, <1>5, <1>6, <2>7, <2>8, ReachedLater
  <2> QED BY <2>9 DEF later
<1> QED BY <1>7, <1>8

LEMMA ClosedWalk ==
  ASSUME RInv, CInv, NEW w \in pending, Walk(w)
  PROVE  CInv'
<1>1. /\ RInv' /\ q' = q /\ UNCHANGED <<pass, round, pc>> /\ pc = "walk" /\ pending' = pending \ {w}
      /\ pc \notin Scanning
  BY InvWalk DEF Walk, Scanning, InScan
<1>2. /\ Falls /\ \A j \in Rounds : j # round => tau'[j] = tau[j]
      /\ marked \subseteq marked' /\ w.at + w.duration \in Int
      /\ \A u \in Stops : tau'[round][u] # tau[round][u] =>
           /\ u \in marked' /\ u = w.to /\ tau'[round][u] = w.at + w.duration
           /\ w.at + w.duration < Unreached
  BY WalkLeaves
<1>3. q \in Queries /\ TablesOK /\ round \in Rounds /\ ReachStays
  BY WalkReaches, TablesTyped DEF RInv, TypeOK
<1>4. MarksChanges
  <2>1. round = Level' /\ pc' \in Scanning \cup {"access", "walk", "next round"}
    BY <1>1 DEF Level
  <2> QED BY <1>2, <1>3, <2>1, MarksNext
<1>5. RidesAccounted'
  <2>1. PassesOn
    <3> SUFFICES ASSUME NEW k \in 1 .. q.rounds, NEW d, NEW t, NEW board, NEW alight,
                        Ridable(d, t, board, alight),
                        Marked(k, t, board) \/ InWork(k, d, t, board, alight)
                 PROVE  Marked(k, t, board)'
      BY DEF PassesOn, Accounted
    <3>1. Marked(k, t, board)
      BY <1>1 DEF InWork
    <3>2. StopAt(t, board)' \in marked' /\ k = round + 1
      BY <1>1, <1>2, <3>1, InstanceSame DEF Marked, Level
    <3>3. Level' = round
      BY <1>1 DEF Level
    <3> QED BY <1>1, <3>2, <3>3 DEF Marked
  <2> QED BY <1>2, <1>3, <1>4, <2>1, RidesStay DEF CInv
<1>6. WalksAccounted'
  <2>1. ASSUME q.closed, NEW k \in 1 .. q.rounds, NEW s \in Stops, tau'[k][s] # tau[k][s]
        PROVE  Left(k, s, tau[k][s])'
    <3>1. k \in Rounds
      BY <1>3, RoundsType DEF Rounds
    <3>2. k = round /\ s = w.to /\ tau'[k][s] = w.at + w.duration /\ w.at + w.duration < Unreached
      BY <1>2, <2>1, <3>1
    <3>3. PICK at \in Int : at = w.at + w.duration
      BY <1>2
    <3>4. Left(round, s, at)
      BY <2>1, <3>2, <3>3, WalksClose DEF CInv
    <3>5. Left(k, s, at)'
      BY <1>1, <1>3, <3>1, <3>2, <3>4, LeftStays
    <3> QED BY <3>2, <3>3, <3>5
  <2>2. \A k \in 1 .. q.rounds, s \in Stops :
          tau'[k][s] = tau[k][s] \/ (q.closed => Left(k, s, tau[k][s])')
    BY <2>1
  <2> QED BY <1>1, <1>2, <1>3, <2>2, WalksStay DEF CInv
<1>7. AccessAccounted'
  BY <1>1, <1>2, AccessStays DEF CInv
<1>8. Rideless'
  BY <1>1 DEF CInv, Rideless
<1> QED BY <1>5, <1>6, <1>7, <1>8 DEF CInv

----------------------------------------------------------------------------
(* The search closes what it opens.                                       *)

LEMMA ClosedBlank == Blank => CInv
<1> SUFFICES ASSUME Blank PROVE CInv
  OBVIOUS
<1>1. q \in Queries /\ pc = "next pass" /\ pass = 0
  BY DEF Blank
<1>2. \A k \in Rounds, s \in Stops : tau[k][s] = Unreached
  BY DEF Blank, AllUnreached
<1>3. RidesAccounted
  <2> SUFFICES ASSUME NEW k \in 1 .. q.rounds, NEW d, NEW t, NEW board, NEW alight,
                      Ridable(d, t, board, alight), Caught(k, d, t, board)
               PROVE  FALSE
    BY DEF RidesAccounted
  <2>1. k - 1 \in Rounds
    BY <1>1, RoundsType, RoundBefore DEF Rounds
  <2>2. StopAt(t, board) \in Stops /\ Offset(d) \in Nat /\ t \in q.trips
    BY <1>1, RidableFacts
  <2>3. q.departure[t][board] \in Nat /\ q.departure[t][board] < Unreached
    <3>1. q.departure[t][board] \in Nat
      BY <1>1, RidableFacts
    <3>2. board \in 1 .. Len(StopsOf(q.trip_pattern[t]))
      BY DEF Ridable
    <3> QED BY <1>1, <2>2, <3>1, <3>2, QueriesAssumption DEF WellFormedTimetable, StopsOf
  <2>4. Unreached + Offset(d) <= q.departure[t][board]
    BY <1>2, <2>1, <2>2 DEF Caught
  <2> QED BY <2>2, <2>3, <2>4, TimeAssumption
<1>4. WalksAccounted
  <2> SUFFICES ASSUME NEW k \in 1 .. q.rounds, NEW s \in Stops, tau[k][s] < Unreached PROVE FALSE
    BY DEF WalksAccounted
  <2>1. k \in Rounds
    <3>1. \A n \in Nat : \A j \in 1 .. n : j \in 0 .. n
      OBVIOUS
    <3> QED BY <1>1, <3>1, RoundsType DEF Rounds
  <2> QED BY <1>2, <2>1, TimeAssumption
<1>5. AccessAccounted
  <2>1. ~ \E i \in 1 .. 0 : TRUE
    OBVIOUS
  <2> QED BY <1>1, <2>1 DEF AccessAccounted
<1>6. Rideless
  BY <1>1 DEF Rideless
<1> QED BY <1>3, <1>4, <1>5, <1>6 DEF CInv

LEMMA ClosedInit == Init => CInv
BY InitBlank, ClosedBlank

LEMMA ClosedStutter == CInv /\ UNCHANGED vars => CInv'
<1> SUFFICES ASSUME CInv, UNCHANGED vars PROVE CInv'
  OBVIOUS
<1>1. UNCHANGED <<q, pc, pass, round, tau, best, marked, queue_position, pattern, position, currents,
                  transit, pending>>
  BY DEF vars
<1>2. \A k, s, at : Reached(k, s, at)' <=> Reached(k, s, at)
  BY <1>1 DEF Reached
<1>3. \A k, s, at : Left(k, s, at)' <=> Left(k, s, at)
  BY <1>1, <1>2, InstanceSame DEF Left
<1>4. \A k, d, t, board, alight : Accounted(k, d, t, board, alight)' <=> Accounted(k, d, t, board, alight)
  <2>1. \A k, d, u, alight : Rode(k, d, u, alight)' <=> Rode(k, d, u, alight)
    BY <1>1, <1>3, InstanceSame DEF Rode
  <2>2. \A d, u, alight : Noted(d, u, alight)' <=> Noted(d, u, alight)
    BY <1>1, InstanceSame DEF Noted
  <2>3. \A k, d, t, board, alight : Found(k, d, t, board, alight)' <=> Found(k, d, t, board, alight)
    BY <1>1, <2>1, InstanceSame DEF Found
  <2>4. \A k, t, board : Marked(k, t, board)' <=> Marked(k, t, board)
    BY <1>1, InstanceSame DEF Marked, Level, Scanning, InScan
  <2>5. \A d, t, board, alight : Aboard(d, t, board, alight)' <=> Aboard(d, t, board, alight)
    <3> SUFFICES ASSUME NEW d, NEW t, NEW board, NEW alight
                 PROVE  Aboard(d, t, board, alight)' <=> Aboard(d, t, board, alight)
      OBVIOUS
    <3>1. Twins(d, t, board)' = Twins(d, t, board)
      BY <1>1, InstanceSame
    <3> QED BY <1>1, <3>1 DEF Aboard, InScan
  <2>6. \A k, d, t, board, alight : InWork(k, d, t, board, alight)' <=> InWork(k, d, t, board, alight)
    <3> SUFFICES ASSUME NEW k, NEW d, NEW t, NEW board, NEW alight
                 PROVE  InWork(k, d, t, board, alight)' <=> InWork(k, d, t, board, alight)
      OBVIOUS
    <3>1. (\E u \in Twins(d, t, board) : Noted(d, u, alight))' <=> \E u \in Twins(d, t, board) : Noted(d, u, alight)
      BY <1>1, <2>2, InstanceSame
    <3>2. Queued(t, board)' <=> Queued(t, board)
      BY <1>1 DEF Queued
    <3>3. Ahead(t, board)' <=> Ahead(t, board)
      BY <1>1 DEF Ahead, InScan
    <3>4. (pc \in Scanning /\ k = round)' <=> pc \in Scanning /\ k = round
      BY <1>1 DEF Scanning, InScan
    <3> QED BY <2>5, <3>1, <3>2, <3>3, <3>4 DEF InWork
  <2> QED BY <2>3, <2>4, <2>6 DEF Accounted
<1>5. RidesAccounted'
  BY <1>1, <1>4, InstanceSame DEF CInv, RidesAccounted, Accounted, Caught, Offset
<1>6. WalksAccounted'
  BY <1>1, <1>3 DEF CInv, WalksAccounted, Scanning, InScan
<1>7. AccessAccounted'
  BY <1>1 DEF CInv, AccessAccounted
<1>8. Rideless'
  BY <1>1 DEF CInv, Rideless
<1> QED BY <1>5, <1>6, <1>7, <1>8 DEF CInv

LEMMA ClosedNext == RInv /\ CInv /\ [Next]_vars => CInv'
<1> SUFFICES ASSUME RInv, CInv, [Next]_vars PROVE CInv'
  OBVIOUS
<1>1. CASE StartPass
  BY <1>1, ClosedStartPass
<1>2. CASE \E a \in pending : SeedAccess(a)
  BY <1>2, ClosedSeedAccess
<1>3. CASE CollectPatterns
  BY <1>3, ClosedCollectPatterns
<1>4. CASE \E p \in DOMAIN queue_position : DequeuePattern(p)
  BY <1>4, ClosedDequeuePattern
<1>5. CASE \E stream \in Streams : Alight(stream)
  BY <1>5, ClosedAlight
<1>6. CASE Board
  BY <1>6, ClosedBoard
<1>7. CASE StartWalking
  BY <1>7, ClosedStartWalking
<1>8. CASE \E w \in pending : Walk(w)
  BY <1>8, ClosedWalk
<1>9. CASE EndRound
  BY <1>9, ClosedEndRound
<1>10. CASE Collect
  <2>1. RInv' /\ q' = q /\ UNCHANGED <<tau, best, pass>> /\ pc = "collect" /\ pc' # "walk"
    BY <1>10, InvCollect DEF Collect, tables
  <2> QED BY <2>1, ClosedAtRest
<1>11. CASE Finish
  <2>1. RInv' /\ q' = q /\ UNCHANGED <<tau, best, pass>> /\ pc = "next pass" /\ pc' # "walk"
    BY <1>11, InvFinish DEF Finish, tables
  <2> QED BY <2>1, ClosedAtRest
<1>12. CASE UNCHANGED vars
  BY <1>12, ClosedStutter
<1> QED BY <1>1, <1>2, <1>3, <1>4, <1>5, <1>6, <1>7, <1>8, <1>9, <1>10, <1>11, <1>12 DEF Next, Done

LEMMA ClosedAlways == Spec => []CInv
<1>1. Init => CInv
  BY ClosedInit
<1>2. RInv /\ CInv /\ [Next]_vars => CInv'
  BY ClosedNext
<1>3. Spec => []RInv
  BY InvAlways
<1> QED BY <1>1, <1>2, <1>3, PTL DEF Spec

\* best[k] looks at no fewer rounds than best[j] does.
LEMMA BestFalls ==
  ASSUME RInv, NEW j \in Rounds, NEW k \in Rounds, j <= k, NEW s \in Stops
  PROVE  best[k][s] <= best[j][s] /\ best[k][s] \in Int /\ best[j][s] \in Int
<1>1. TablesOK /\ BestIsPrefixMin /\ j \in Nat /\ k \in Nat
  BY TablesTyped, RoundsType DEF RInv
<1>2. PICK i \in 0 .. j : best[j][s] = tau[i][s]
  BY <1>1 DEF BestIsPrefixMin
<1>3. i \in 0 .. k
  BY <1>1, <1>2
<1>4. best[k][s] <= tau[i][s]
  BY <1>1, <1>3 DEF BestIsPrefixMin
<1> QED BY <1>1, <1>2, <1>4 DEF TablesOK

\* No pass is at work.
Resting == pc \in {"collect", "next pass", "done"}

LEMMA AtRestReached ==
  ASSUME RInv, pc # "walk", NEW j \in Rounds, NEW k \in Rounds, j <= k, NEW s \in Stops,
         NEW at \in Int, Left(j, s, at), NEW e \in FootpathsFrom(s), NEW later \in Int, at + e.duration <= later,
         later < Unreached
  PROVE  best[k][e.to] <= later
<1>1. q \in Queries
  BY DEF RInv, TypeOK
<1>2. e.to \in Stops /\ e.duration \in Nat
  BY <1>1, FootpathFacts
<1>3. Reached(j, e.to, at + e.duration)
  BY DEF Left
<1>4. at + e.duration >= Unreached \/ best[j][e.to] <= at + e.duration
  BY <1>3 DEF Reached
<1>5. best[k][e.to] <= best[j][e.to] /\ best[k][e.to] \in Int /\ best[j][e.to] \in Int
  BY <1>2, BestFalls
<1> QED BY <1>2, <1>4, <1>5, TimeAssumption

\* A ride the tables hold serves its stop with as many rides or more.
LEMMA RodeServes ==
  ASSUME RInv, CInv, Resting,
         NEW j \in Rounds, NEW k \in Rounds, j <= k, NEW d, NEW u, NEW alight,
         NEW s \in Stops, s = StopAt(u, alight), NEW at \in Int, at = ArrivesAt(d, u, alight),
         Rode(j, d, u, alight)
  PROVE  Served(k, s, at)
<1>1. /\ q \in Queries /\ TablesOK /\ BestIsPrefixMin /\ pc # "walk" /\ pc \notin Scanning
      /\ 0 \in Rounds /\ k \in Nat /\ q.rounds \in Nat
  BY TablesTyped, RoundsType DEF RInv, Scanning, InScan, Resting
<1>2. best[j][s] <= at /\ (q.closed \/ Left(j, s, at))
  BY DEF Rode
<1>3. best[k][s] <= at /\ best[k][s] \in Int /\ best[0][s] \in Int
  <2>1. best[k][s] <= best[j][s] /\ best[k][s] \in Int /\ best[j][s] \in Int
    BY BestFalls
  <2> QED BY <1>1, <1>2, <2>1 DEF TablesOK
<1> SUFFICES ASSUME q.closed => at < best[0][s], NEW e \in FootpathsFrom(s), at + e.duration < Unreached
             PROVE  best[k][e.to] <= at + e.duration
  BY <1>3 DEF Served
<1>4. e.duration \in Nat /\ at + e.duration \in Int
  BY <1>1, FootpathFacts
<1>5. CASE ~q.closed
  BY <1>1, <1>2, <1>4, <1>5, AtRestReached
<1>6. CASE q.closed
  <2>1. PICK i \in 0 .. k : best[k][s] = tau[i][s]
    BY <1>1 DEF BestIsPrefixMin
  <2>2. best[0][s] <= tau[0][s] /\ tau[0][s] \in Int
    <3>1. 0 \in 0 .. 0
      OBVIOUS
    <3> QED BY <1>1, <3>1 DEF BestIsPrefixMin, TablesOK
  <2>3. i # 0
    <3>1. best[k][s] < tau[0][s]
      BY <1>3, <1>6, <2>2
    <3> QED BY <1>3, <2>1, <2>2, <3>1
  <2>4. i \in Rounds /\ i <= k /\ i \in 1 .. q.rounds
    <3>1. k \in 0 .. q.rounds
      BY DEF Rounds
    <3>2. i \in Nat /\ i <= k /\ i > 0
      BY <1>1, <2>1, <2>3
    <3>3. i <= q.rounds
      BY <1>1, <3>1, <3>2
    <3> QED BY <1>1, <3>2, <3>3 DEF Rounds
  <2>5. tau[i][s] < Unreached /\ tau[i][s] \in Int /\ tau[i][s] <= at
    <3>1. best[0][s] <= Unreached
      BY <1>1 DEF TablesOK
    <3> QED BY <1>3, <1>6, <2>1, <3>1, TimeAssumption
  <2>6. Left(i, s, tau[i][s])
    BY <1>1, <1>6, <2>4, <2>5 DEF CInv, WalksAccounted
  <2>7. tau[i][s] + e.duration <= at + e.duration
    BY <1>4, <2>5
  <2> QED BY <1>1, <1>4, <2>4, <2>5, <2>6, <2>7, AtRestReached
<1> QED BY <1>5, <1>6

LEMMA ClosedServes == RInv /\ CInv => PassClosed
<1> SUFFICES ASSUME RInv, CInv, Resting
             PROVE  AccessServed /\ RidesServed
  BY DEF PassClosed, Resting
<1>1. q \in Queries /\ TablesOK /\ BestIsPrefixMin /\ q.rounds \in Nat /\ Rounds = 0 .. q.rounds
  BY TablesTyped, RoundsType DEF RInv, Rounds
<1>2. AccessServed
  <2> SUFFICES ASSUME NEW i \in 1 .. pass, NEW a \in q.access, a.stop \notin q.excluded,
                      q.departures[i] + a.duration < Unreached
               PROVE  best[0][a.stop] <= q.departures[i] + a.duration
    BY DEF AccessServed
  <2>1. q.departures[i] \in Int
    <3>1. pass \in 0 .. Len(q.departures) /\ Len(q.departures) \in Nat
      BY <1>1, DeparturesSeq DEF RInv, TypeOK
    <3>2. i \in 1 .. Len(q.departures)
      BY <3>1
    <3>3. q.departures[i] \in Times
      BY <1>1, <3>2, DeparturesSeq, ElementOfSeq
    <3> QED BY <3>3 DEF Times
  <2>2. a.duration \in Int
    BY <1>1, QueriesAssumption DEF WellFormedRequest
  <2>3. ~(q.departures[i] + a.duration >= Unreached)
    BY <2>1, <2>2, TimeAssumption
  <2>4. pc # "access"
    BY DEF Resting
  <2> QED BY <2>3, <2>4 DEF CInv, AccessAccounted
<1>3. RidesServed
  <2> SUFFICES ASSUME NEW k \in 1 .. q.rounds, NEW d \in Streams, NEW t \in q.usable[d],
                      NEW board \in 1 .. Len(StopsOf(q.trip_pattern[t])),
                      NEW alight \in 1 .. Len(StopsOf(q.trip_pattern[t])),
                      board < alight, StopAt(t, alight) \notin q.excluded,
                      best[k - 1][StopAt(t, board)] + Offset(d) <= q.departure[t][board]
               PROVE  \E u \in Twins(d, t, board) :
                        Served(k, StopAt(t, alight), q.arrival[u][alight] - Offset(d))
    BY DEF RidesServed, StopAt
  <2>1. Ridable(d, t, board, alight)
    BY DEF Ridable
  <2>2. StopAt(t, board) \in Stops
    BY <1>1, <2>1, RidableFacts
  <2>3. k - 1 \in Rounds /\ k \in Rounds /\ k \in Nat
    <3>1. \A n \in Nat : \A j \in 1 .. n : j \in 0 .. n /\ j \in Nat
      OBVIOUS
    <3> QED BY <1>1, <3>1, RoundBefore
  <2>4. PICK i \in 0 .. k - 1 : best[k - 1][StopAt(t, board)] = tau[i][StopAt(t, board)]
    BY <1>1, <2>2, <2>3 DEF BestIsPrefixMin
  <2> DEFINE j == i + 1
  <2>5. j \in 1 .. q.rounds /\ j \in Rounds /\ j <= k /\ j - 1 = i
    <3>1. \A n \in Nat : \A m \in 1 .. n : \A h \in 0 .. m - 1 :
            h + 1 \in 1 .. n /\ h + 1 \in 0 .. n /\ h + 1 <= m /\ (h + 1) - 1 = h
      OBVIOUS
    <3> QED BY <1>1, <2>4, <3>1
  <2> HIDE DEF j
  <2>6. Caught(j, d, t, board)
    BY <2>4, <2>5 DEF Caught
  <2>7. Found(j, d, t, board, alight)
    <3>1. \/ Found(j, d, t, board, alight) \/ Marked(j, t, board) \/ InWork(j, d, t, board, alight)
      BY <2>1, <2>5, <2>6 DEF CInv, RidesAccounted
    <3>2. pc \notin Scanning \cup {"access", "walk", "next round"}
      BY DEF Scanning, InScan, Resting
    <3> QED BY <3>1, <3>2 DEF Marked, InWork
  <2>8. PICK u \in Twins(d, t, board) : Rode(j, d, u, alight)
    BY <2>7 DEF Found
  <2>9. PICK s \in Stops, at \in Int : s = StopAt(u, alight) /\ at = ArrivesAt(d, u, alight)
    BY <1>1, <2>1, RidableFacts
  <2>10. Served(k, s, at)
    BY <2>3, <2>5, <2>8, <2>9, RodeServes
  <2>11. StopAt(u, alight) = StopAt(t, alight)
    BY <1>1, <2>1, RidableFacts
  <2> QED BY <2>9, <2>10, <2>11 DEF ArrivesAt
<1> QED BY <1>2, <1>3

(* When a pass has ended no access link, ride or footpath gets anywhere    *)
(* sooner than the tables say, whatever the search pruned, skipped, marked *)
(* or ended early (search.rs, Search::run).                                 *)
THEOREM RaptorPassClosed == Spec => []PassClosed
<1>1. RInv /\ CInv => PassClosed
  BY ClosedServes
<1> QED BY <1>1, InvAlways, ClosedAlways, PTL

----------------------------------------------------------------------------
(* Every arrival is that of an access link, of a ride caught in time, or   *)
(* of one footpath behind such a ride.                                     *)

Linked(s, at) ==
  /\ s \notin q.excluded
  /\ \E i \in 1 .. pass, a \in q.access : a.stop = s /\ at = q.departures[i] + a.duration
Ridden(k, s, at) ==
  /\ s \notin q.excluded
  /\ \E r \in Rides : GoodRide(k, r, s) /\ AlightTime(r) = at
Walked(k, s, at) ==
  /\ s \notin q.excluded
  /\ \E e \in q.transfers, sooner \in Int :
       e.to = s /\ Ridden(k, e.from, sooner) /\ at = sooner + e.duration

ArrivalsReal ==
  /\ \A s \in Stops : tau[0][s] < Unreached => Linked(s, tau[0][s])
  /\ \A k \in 1 .. q.rounds, s \in Stops :
       tau[k][s] < Unreached => Ridden(k, s, tau[k][s]) \/ Walked(k, s, tau[k][s])

\* The footpaths of a closed set leave the stops a ride has just reached, the
\* others those the sidecar holds a ride to.
MarksReal == q.closed /\ pc \in Scanning => \A s \in marked : Ridden(round, s, tau[round][s])
SidecarReal == \A s \in Stops : transit[s] # NoRide => s \notin q.excluded
WalksReal == pc = "walk" => \A w \in pending : Ridden(round, w.from, w.at) /\ w.to \notin q.excluded
LinksReal == pc = "access" => \A a \in pending : a.stop \notin q.excluded

SInv == ArrivalsReal /\ MarksReal /\ SidecarReal /\ WalksReal /\ LinksReal

\* What was ridden stays ridden as the arrivals boarded from fall.
LEMMA RiddenStays ==
  ASSUME RInv, Falls, NEW k \in Rounds, k > 0, NEW s, NEW at, Ridden(k, s, at)
  PROVE  Ridden(k, s, at)'
<1>1. /\ q' = q /\ q \in Queries /\ TablesOK /\ Rides' = Rides
  BY TablesTyped DEF Falls, RInv, Rides, StopsOf
<1>2. PICK r \in Rides : GoodRide(k, r, s) /\ AlightTime(r) = at
  BY DEF Ridden
<1>3. GoodRide(k, r, s)'
  BY <1>1, <1>2, BoardableStays
<1>4. AlightTime(r)' = at
  BY <1>1, <1>2 DEF AlightTime, OnTheDay
<1> QED BY <1>1, <1>2, <1>3, <1>4 DEF Ridden

LEMMA WalkedStays ==
  ASSUME RInv, Falls, NEW k \in Rounds, k > 0, NEW s, NEW at, Walked(k, s, at)
  PROVE  Walked(k, s, at)'
<1>1. q' = q
  BY DEF Falls
<1>2. PICK e \in q.transfers, sooner \in Int : e.to = s /\ Ridden(k, e.from, sooner) /\ at = sooner + e.duration
  BY DEF Walked
<1>3. PICK from : from = e.from
  OBVIOUS
<1>4. Ridden(k, from, sooner)'
  BY <1>2, <1>3, RiddenStays
<1> QED BY <1>1, <1>2, <1>3, <1>4 DEF Walked

LEMMA LinkedStays ==
  ASSUME q' = q, pass \in Nat, pass' \in Nat, pass <= pass', NEW s, NEW at, Linked(s, at)
  PROVE  Linked(s, at)'
<1>1. PICK i \in 1 .. pass, a \in q.access : a.stop = s /\ at = q.departures[i] + a.duration
  BY DEF Linked
<1>2. i \in 1 .. pass'
  BY <1>1
<1> QED BY <1>1, <1>2 DEF Linked

LEMMA ArrivalsStay ==
  ASSUME RInv, Falls, ArrivalsReal, pass \in Nat, pass' \in Nat, pass <= pass',
         \A s \in Stops : tau'[0][s] # tau[0][s] => Linked(s, tau[0][s])',
         \A k \in 1 .. q.rounds, s \in Stops : tau'[k][s] # tau[k][s] =>
           Ridden(k, s, tau[k][s])' \/ Walked(k, s, tau[k][s])'
  PROVE  ArrivalsReal'
<1>1. q' = q /\ q \in Queries
  BY DEF RInv, TypeOK, Falls
<1>2. ASSUME NEW s \in Stops, tau'[0][s] < Unreached PROVE Linked(s, tau[0][s])'
  <2>1. CASE tau'[0][s] = tau[0][s]
    <3>1. PICK at : at = tau[0][s]
      OBVIOUS
    <3>2. Linked(s, at)
      BY <1>2, <2>1, <3>1 DEF ArrivalsReal
    <3>3. Linked(s, at)'
      BY <1>1, <3>2, LinkedStays
    <3> QED BY <2>1, <3>1, <3>3
  <2> QED BY <2>1
<1>3. ASSUME NEW k \in 1 .. q.rounds, NEW s \in Stops, tau'[k][s] < Unreached
      PROVE  Ridden(k, s, tau[k][s])' \/ Walked(k, s, tau[k][s])'
  <2>1. k \in Rounds /\ k > 0
    <3>1. \A n \in Nat : \A j \in 1 .. n : j \in 0 .. n /\ j > 0
      OBVIOUS
    <3> QED BY <1>1, <3>1, RoundsType DEF Rounds
  <2>2. CASE tau'[k][s] = tau[k][s]
    <3>1. PICK at : at = tau[k][s]
      OBVIOUS
    <3>2. Ridden(k, s, at) \/ Walked(k, s, at)
      BY <1>3, <2>2, <3>1 DEF ArrivalsReal
    <3>3. Ridden(k, s, at)' \/ Walked(k, s, at)'
      BY <2>1, <3>2, RiddenStays, WalkedStays
    <3> QED BY <2>2, <3>1, <3>3
  <2> QED BY <2>2
<1> QED BY <1>1, <1>2, <1>3 DEF ArrivalsReal

LEMMA QuietReal ==
  ASSUME RInv, SInv, RInv', q' = q, UNCHANGED <<tau, best>>, pass' = pass \/ pass' = pass + 1
  PROVE  ArrivalsReal'
<1>1. pass \in Nat
  <2>1. pass \in 0 .. Len(q.departures) /\ Len(q.departures) \in Nat
    BY DeparturesSeq DEF RInv, TypeOK
  <2> QED BY <2>1
<1> QED BY <1>1, QuietFalls, ArrivalsStay DEF SInv

\* What a write marks, it reached at its arrival.
LEMMA RecordReal ==
  ASSUME q \in Queries, TablesOK, NEW k \in Rounds, NEW s \in Stops, NEW arrival \in Times,
         NEW l, \E contested \in BOOLEAN : Record(k, s, arrival, l, contested)
  PROVE  /\ \A u \in marked' \ marked : u = s /\ tau'[k][u] = arrival
         /\ \A j \in Rounds, u \in Stops : tau'[j][u] # tau[j][u] => j = k /\ u = s /\ tau'[j][u] = arrival
<1> PICK contested \in BOOLEAN : Record(k, s, arrival, l, contested)
  OBVIOUS
<1>1. CASE Improves(k, s, arrival)
  <2>1. tau' = [tau EXCEPT ![k][s] = arrival] /\ marked' = marked \cup {s}
    BY <1>1 DEF Record
  <2>2. \A j \in Rounds, u \in Stops : tau'[j][u] = IF j = k /\ u = s THEN arrival ELSE tau[j][u]
    BY <2>1 DEF TablesOK
  <2> QED BY <2>1, <2>2
<1>2. CASE ~Improves(k, s, arrival) /\ contested /\ Ties(k, s, arrival, l)
  <2>1. tau' = tau /\ marked' = marked \cup {s} /\ arrival = tau[k][s]
    BY <1>2 DEF Record, Ties
  <2> QED BY <2>1
<1>3. CASE ~Improves(k, s, arrival) /\ ~(contested /\ Ties(k, s, arrival, l))
  <2>1. tau' = tau /\ marked' = marked
    BY <1>3 DEF Record, tables
  <2> QED BY <2>1
<1> QED BY <1>1, <1>2, <1>3

LEMMA RealStartPass == RInv /\ SInv /\ StartPass => SInv'
<1> SUFFICES ASSUME RInv, SInv, StartPass PROVE SInv'
  OBVIOUS
<1>1. /\ RInv' /\ q' = q /\ UNCHANGED <<tau, best, transit>> /\ pass' = pass + 1 /\ pc' = "access"
      /\ pending' = {a \in q.access : a.stop \notin q.excluded}
  BY InvStartPass DEF StartPass
<1>2. ArrivalsReal'
  BY <1>1, QuietReal
<1>3. MarksReal' /\ SidecarReal' /\ WalksReal' /\ LinksReal'
  BY <1>1 DEF SInv, MarksReal, SidecarReal, WalksReal, LinksReal, Scanning, InScan
<1> QED BY <1>2, <1>3 DEF SInv

LEMMA RealCollectPatterns == RInv /\ SInv /\ CollectPatterns => SInv'
<1> SUFFICES ASSUME RInv, SInv, CollectPatterns PROVE SInv'
  OBVIOUS
<1>1. /\ RInv' /\ q' = q /\ UNCHANGED <<tau, best, transit, pass>> /\ pc' = "queue" /\ marked' = {}
  BY InvCollectPatterns DEF CollectPatterns, tables
<1>2. ArrivalsReal'
  BY <1>1, QuietReal
<1>3. MarksReal' /\ SidecarReal' /\ WalksReal' /\ LinksReal'
  BY <1>1 DEF SInv, MarksReal, SidecarReal, WalksReal, LinksReal, Scanning, InScan
<1> QED BY <1>2, <1>3 DEF SInv

\* A scan's other steps and a round's end touch nothing an arrival rests on.
LEMMA RealQuiet ==
  ASSUME RInv, SInv, RInv', q' = q, UNCHANGED <<tau, best, transit, pass, marked, pending>>,
         pc' \in Scanning => pc \in Scanning /\ round' = round,
         pc' # "walk", pc' # "access"
  PROVE  SInv'
<1>1. ArrivalsReal'
  BY QuietReal
<1>2. SidecarReal' /\ WalksReal' /\ LinksReal'
  BY DEF SInv, SidecarReal, WalksReal, LinksReal
<1>3. MarksReal'
  <2> SUFFICES ASSUME q.closed, pc' \in Scanning, NEW s \in marked
               PROVE  Ridden(round, s, tau[round][s])'
    BY DEF MarksReal, Scanning, InScan
  <2>1. PICK k, at : k = round /\ at = tau[round][s]
    OBVIOUS
  <2>2. Ridden(k, s, at)
    BY <2>1 DEF SInv, MarksReal
  <2>3. k \in Rounds /\ k > 0
    BY <2>1 DEF RInv, TypeOK, InRound, Scanning
  <2>4. Ridden(k, s, at)'
    BY <2>2, <2>3, RiddenStays, QuietFalls
  <2> QED BY <2>1, <2>4
<1> QED BY <1>1, <1>2, <1>3 DEF SInv

LEMMA RealSeedAccess ==
  ASSUME RInv, SInv, NEW a \in pending, SeedAccess(a)
  PROVE  SInv'
<1>1. /\ q' = q /\ pc = "access" /\ pc' = "access" /\ UNCHANGED <<pass, transit>> /\ pending' = pending \ {a}
      /\ q \in Queries /\ TablesOK /\ 0 \in Rounds /\ pass \in Nat /\ pass \in 1 .. pass
      /\ a \in q.access /\ a.stop \notin q.excluded
  <2>1. pc = "access"
    BY DEF SeedAccess
  <2>2. pass \in 0 .. Len(q.departures) /\ Len(q.departures) \in Nat /\ pass > 0
    BY <2>1, DeparturesSeq DEF RInv, TypeOK
  <2>3. pass \in Nat /\ pass \in 1 .. pass
    BY <2>2
  <2> QED BY <2>1, <2>3, TablesTyped, RoundsType DEF SeedAccess, RInv, TypeOK, SInv, LinksReal
<1>2. /\ a.stop \in Stops /\ AccessLabel(Now, a.duration) \in Labels
      /\ \/ UNCHANGED tables
         \/ /\ Now + a.duration \in Times
            /\ Explains(0, a.stop, Now + a.duration, AccessLabel(Now, a.duration))
            /\ Record(0, a.stop, Now + a.duration, AccessLabel(Now, a.duration), TRUE)
  BY SeedRelaxes
<1>3. Falls
  BY <1>1, <1>2, RelaxTables
<1>4. \A j \in Rounds, u \in Stops : tau'[j][u] # tau[j][u] => j = 0 /\ u = a.stop /\ tau'[j][u] = Now + a.duration
  <2>1. CASE UNCHANGED tables
    BY <2>1 DEF tables
  <2>2. CASE ~(UNCHANGED tables)
    <3>1. PICK k \in Rounds, s \in Stops, arrival \in Times, l \in Labels :
                 /\ k = 0 /\ s = a.stop /\ arrival = Now + a.duration
                 /\ \E contested \in BOOLEAN : Record(k, s, arrival, l, contested)
      BY <1>1, <1>2, <2>2
    <3>2. q \in Queries /\ TablesOK /\ \E contested \in BOOLEAN : Record(k, s, arrival, l, contested)
      BY <1>1, <3>1
    <3>3. \A j \in Rounds, u \in Stops : tau'[j][u] # tau[j][u] => j = k /\ u = s /\ tau'[j][u] = arrival
      BY <3>2, RecordReal
    <3> QED BY <3>1, <3>3
  <2> QED BY <2>1, <2>2
<1>5. ArrivalsReal'
  <2>1. ASSUME NEW s \in Stops, tau'[0][s] # tau[0][s] PROVE Linked(s, tau[0][s])'
    <3>1. s = a.stop /\ tau'[0][s] = q.departures[pass] + a.duration
      BY <1>1, <1>4, <2>1 DEF Now
    <3> QED BY <1>1, <3>1 DEF Linked
  <2>2. \A k \in 1 .. q.rounds, s \in Stops : tau'[k][s] = tau[k][s]
    <3>1. \A k \in 1 .. q.rounds : k \in Rounds /\ k # 0
      BY <1>1, RoundsType DEF Rounds
    <3> QED BY <1>4, <3>1
  <2> QED BY <1>1, <1>3, <2>1, <2>2, ArrivalsStay DEF SInv
<1>6. MarksReal' /\ SidecarReal' /\ WalksReal' /\ LinksReal'
  BY <1>1 DEF SInv, MarksReal, SidecarReal, WalksReal, LinksReal, Scanning, InScan
<1> QED BY <1>5, <1>6 DEF SInv

LEMMA RealAlight ==
  ASSUME RInv, SInv, NEW d \in Streams, Alight(d)
  PROVE  SInv'
<1>1. /\ q' = q /\ pc \in InScan /\ pc' \in InScan /\ UNCHANGED <<pass, round>>
      /\ q \in Queries /\ TablesOK /\ round \in Rounds /\ round > 0 /\ StopHere \in Stops /\ pass \in Nat
  <2>1. pc \in InScan /\ pc' \in InScan
    BY DEF Alight, InScan
  <2>2. pass \in 0 .. Len(q.departures) /\ Len(q.departures) \in Nat
    BY DeparturesSeq DEF RInv, TypeOK
  <2>3. pass \in Nat
    BY <2>2
  <2> QED BY <2>1, <2>3, ScanHere DEF Alight
<1>2. Falls
  BY AlightLeaves
<1>3. PICK k, s, at : k \in Rounds /\ s \in Stops /\ k = round /\ s = StopHere /\ at = AlightTime(Ride(d))
  BY <1>1
<1>4. \/ UNCHANGED <<tau, marked, transit>>
      \/ /\ Ridden(k, s, at)'
         /\ s \notin q.excluded
         /\ \A u \in marked' \ marked : u = s /\ tau'[k][u] = at
         /\ \A j \in Rounds, u \in Stops : tau'[j][u] # tau[j][u] => j = k /\ u = s /\ tau'[j][u] = at
         /\ \A u \in Stops : transit'[u] # NoRide => u = s \/ transit'[u] = transit[u]
  <2>1. CASE currents[d] = NoRide \/ StopHere \in q.excluded
    BY <2>1 DEF Alight, tables
  <2>2. CASE ~(currents[d] = NoRide \/ StopHere \in q.excluded)
    <3> DEFINE r == Ride(d)
               l == TransitLabel(r)
    <3>1. NoteTransit(r) /\ \E contested \in BOOLEAN : Record(k, s, at, l, contested)
      BY <1>3, <2>2 DEF Alight
    <3>2. GoodRide(k, r, s) /\ r \in Rides /\ AlightTime(r) = at
      BY <1>1, <1>3, <2>2, RideHere DEF GoodRide
    <3> HIDE DEF r, l
    <3>3. Ridden(k, s, at)
      BY <1>3, <2>2, <3>2 DEF Ridden
    <3>4. \A u \in Stops : transit'[u] # NoRide => u = s \/ transit'[u] = transit[u]
      <4>1. transit' = [transit EXCEPT ![s] = r] \/ transit' = transit
        BY <1>3, <3>1 DEF NoteTransit
      <4>2. transit \in [Stops -> {NoRide} \cup Rides]
        BY DEF RInv, TypeOK
      <4> QED BY <4>1, <4>2
    <3>5. k > 0
      BY <1>1, <1>3
    <3>6. Ridden(k, s, at)'
      BY <1>2, <1>3, <3>3, <3>5, RiddenStays
    <3>8. at \in Times
      BY <1>1, <1>3, <3>2, RideTimes
    <3>7. /\ \A u \in marked' \ marked : u = s /\ tau'[k][u] = at
          /\ \A j \in Rounds, u \in Stops : tau'[j][u] # tau[j][u] => j = k /\ u = s /\ tau'[j][u] = at
      BY <1>1, <1>3, <3>1, <3>8, RecordReal
    <3> QED BY <1>3, <2>2, <3>4, <3>6, <3>7
  <2> QED BY <2>1, <2>2
<1>5. ArrivalsReal'
  <2>1. \A j \in 1 .. q.rounds, u \in Stops : tau'[j][u] # tau[j][u] =>
          Ridden(j, u, tau[j][u])' \/ Walked(j, u, tau[j][u])'
    <3>1. \A j \in 1 .. q.rounds : j \in Rounds
      BY <1>1, RoundsType DEF Rounds
    <3> QED BY <1>4, <3>1
  <2>2. \A u \in Stops : tau'[0][u] = tau[0][u]
    <3>1. 0 \in Rounds /\ 0 # k
      BY <1>1, <1>3, RoundsType
    <3> QED BY <1>4, <3>1
  <2> QED BY <1>1, <1>2, <2>1, <2>2, ArrivalsStay DEF SInv
<1>6. SidecarReal'
  <2>1. SidecarReal
    BY DEF SInv
  <2> QED BY <1>1, <1>4, <2>1 DEF SidecarReal
<1>7. MarksReal'
  <2> SUFFICES ASSUME q.closed, NEW u \in marked' PROVE Ridden(k, u, tau[k][u])'
    BY <1>1, <1>3 DEF MarksReal
  <2>1. u \in Stops
    <3>1. marked' \subseteq Stops
      BY InvAlight DEF RInv, TypeOK
    <3> QED BY <3>1
  <2>2. CASE u \in marked /\ tau'[k][u] = tau[k][u]
    <3>1. PICK t : t = tau[k][u]
      OBVIOUS
    <3>2. Ridden(k, u, t)
      BY <1>1, <1>3, <2>2, <3>1 DEF SInv, MarksReal, Scanning
    <3>3. k > 0
      BY <1>1, <1>3
    <3>4. Ridden(k, u, t)'
      BY <1>2, <1>3, <3>2, <3>3, RiddenStays
    <3> QED BY <2>2, <3>1, <3>4
  <2>3. CASE ~(u \in marked /\ tau'[k][u] = tau[k][u])
    <3>1. u = s /\ tau'[k][u] = at /\ Ridden(k, s, at)'
      BY <1>3, <1>4, <2>1, <2>3
    <3> QED BY <3>1
  <2> QED BY <2>2, <2>3
<1>8. WalksReal' /\ LinksReal'
  BY <1>1 DEF WalksReal, LinksReal, InScan
<1> QED BY <1>5, <1>6, <1>7, <1>8 DEF SInv

LEMMA RealStartWalking == RInv /\ SInv /\ StartWalking => SInv'
<1> SUFFICES ASSUME RInv, SInv, StartWalking PROVE SInv'
  OBVIOUS
<1>1. /\ RInv' /\ q' = q /\ UNCHANGED <<tau, best, pass, round>> /\ pc = "queue" /\ pc' = "walk"
      /\ transit' = [s \in Stops |-> NoRide]
      /\ pending' = UNION {{Departing(v, e) : e \in FootpathsFrom(v.from)} : v \in WalkSources}
  BY InvStartWalking DEF StartWalking, tables
<1>2. round \in Rounds /\ round > 0 /\ marked \subseteq Stops
  BY <1>1 DEF RInv, TypeOK, InRound
<1>3. ArrivalsReal'
  BY <1>1, QuietReal
<1>4. ASSUME NEW v \in WalkSources PROVE Ridden(round, v.from, v.at)
  <2>1. CASE q.closed
    <3>1. PICK s \in marked : v = [from |-> s, at |-> tau[round][s], ride |-> NoRide]
      BY <2>1 DEF WalkSources
    <3>2. Ridden(round, s, tau[round][s])
      BY <1>1, <2>1 DEF SInv, MarksReal, Scanning
    <3>3. v.from = s /\ v.at = tau[round][s]
      BY <3>1
    <3> QED BY <3>2, <3>3
  <2>2. CASE ~q.closed
    <3>1. PICK s \in Stops : /\ transit[s] # NoRide
                             /\ v = [from |-> s, at |-> AlightTime(transit[s]), ride |-> transit[s]]
      BY <2>2 DEF WalkSources
    <3>2. GoodRide(round, transit[s], s) /\ transit[s] \in Rides /\ s \notin q.excluded
      BY <3>1 DEF RInv, TransitGood, GoodRide, SInv, SidecarReal
    <3>3. v.from = s /\ v.at = AlightTime(transit[s])
      BY <3>1
    <3> QED BY <3>2, <3>3 DEF Ridden
  <2> QED BY <2>1, <2>2
<1>5. ASSUME NEW w \in pending'
      PROVE  Ridden(round, w.from, w.at)' /\ w.to \notin q.excluded
  <2>1. PICK v \in WalkSources : \E e \in FootpathsFrom(v.from) : w = Departing(v, e)
    BY <1>1, <1>5
  <2>2. PICK e \in FootpathsFrom(v.from) : w = Departing(v, e)
    BY <2>1
  <2>3. w.from = v.from /\ w.at = v.at /\ w.to = e.to /\ e.to \notin q.excluded
    BY <2>2 DEF Departing, FootpathsFrom
  <2>4. PICK k, from, at : k = round /\ from = w.from /\ at = w.at
    OBVIOUS
  <2>5. Ridden(k, from, at) /\ k \in Rounds /\ k > 0
    BY <1>2, <1>4, <2>3, <2>4
  <2>6. Ridden(k, from, at)'
    BY <1>1, <2>5, RiddenStays, QuietFalls
  <2> QED BY <1>1, <2>3, <2>4, <2>6
<1>6. MarksReal' /\ SidecarReal' /\ WalksReal' /\ LinksReal'
  BY <1>1, <1>5 DEF MarksReal, SidecarReal, WalksReal, LinksReal, Scanning, InScan
<1> QED BY <1>3, <1>6 DEF SInv

LEMMA RealWalk ==
  ASSUME RInv, SInv, NEW w \in pending, Walk(w)
  PROVE  SInv'
<1>1. /\ q' = q /\ pc = "walk" /\ pc' = "walk" /\ UNCHANGED <<pass, round, transit>> /\ pending' = pending \ {w}
      /\ q \in Queries /\ round \in Rounds /\ round > 0 /\ pass \in Nat /\ w \in Footpaths
      /\ [from |-> w.from, to |-> w.to, duration |-> w.duration] \in q.transfers
  <2>1. pc = "walk" /\ pc' = "walk"
    BY DEF Walk
  <2>2. pass \in 0 .. Len(q.departures) /\ Len(q.departures) \in Nat
    BY DeparturesSeq DEF RInv, TypeOK
  <2>3. pass \in Nat
    BY <2>2
  <2> QED BY <2>1, <2>3 DEF Walk, RInv, TypeOK, InRound, PendingGood
<1>2. /\ Falls /\ w.to \in Stops
      /\ \A j \in Rounds : j # round => tau'[j] = tau[j]
      /\ \A u \in Stops : tau'[round][u] # tau[round][u] => u = w.to /\ tau'[round][u] = w.at + w.duration
  BY WalkLeaves
<1>3. PICK k, from, to, at, duration :
        k = round /\ from = w.from /\ to = w.to /\ at = w.at /\ duration = w.duration
  OBVIOUS
<1>4. Walked(k, to, at + duration)'
  <2>1. Ridden(k, from, at) /\ to \notin q.excluded
    BY <1>1, <1>3 DEF SInv, WalksReal
  <2>2. k \in Rounds /\ k > 0 /\ at \in Int
    BY <1>1, <1>3, TimeAssumption DEF Footpaths
  <2>3. Ridden(k, from, at)'
    BY <1>2, <2>1, <2>2, RiddenStays
  <2>4. PICK e \in q.transfers : e = [from |-> from, to |-> to, duration |-> duration]
    BY <1>1, <1>3
  <2>5. e.from = from /\ e.to = to /\ e.duration = duration
    BY <2>4
  <2> QED BY <1>1, <2>1, <2>2, <2>3, <2>5 DEF Walked
<1>5. ArrivalsReal'
  <2>1. \A j \in 1 .. q.rounds, u \in Stops : tau'[j][u] # tau[j][u] =>
          Ridden(j, u, tau[j][u])' \/ Walked(j, u, tau[j][u])'
    <3>1. \A j \in 1 .. q.rounds : j \in Rounds
      BY <1>1, RoundsType DEF Rounds
    <3> QED BY <1>2, <1>3, <1>4, <3>1
  <2>2. \A u \in Stops : tau'[0][u] = tau[0][u]
    <3>1. 0 \in Rounds /\ 0 # round
      BY <1>1, RoundsType
    <3> QED BY <1>2, <3>1
  <2> QED BY <1>1, <1>2, <2>1, <2>2, ArrivalsStay DEF SInv
<1>6. WalksReal'
  <2> SUFFICES ASSUME NEW v \in pending PROVE Ridden(round, v.from, v.at)' /\ v.to \notin q.excluded
    BY <1>1 DEF WalksReal
  <2>1. PICK start, then : start = v.from /\ then = v.at
    OBVIOUS
  <2>2. Ridden(k, start, then) /\ v.to \notin q.excluded /\ k \in Rounds /\ k > 0
    BY <1>1, <1>3, <2>1 DEF SInv, WalksReal
  <2>3. Ridden(k, start, then)'
    BY <1>2, <2>2, RiddenStays
  <2> QED BY <1>1, <1>3, <2>1, <2>2, <2>3
<1>7. MarksReal' /\ SidecarReal' /\ LinksReal'
  BY <1>1 DEF SInv, MarksReal, SidecarReal, LinksReal, Scanning, InScan
<1> QED BY <1>5, <1>6, <1>7 DEF SInv

LEMMA RealBlank == Blank => SInv
<1> SUFFICES ASSUME Blank PROVE SInv
  OBVIOUS
<1>1. q \in Queries /\ pc = "next pass" /\ tau = AllUnreached /\ transit = [s \in Stops |-> NoRide]
  BY DEF Blank
<1>2. \A k \in Rounds, s \in Stops : ~(tau[k][s] < Unreached)
  <2>1. ~(Unreached < Unreached)
    BY TimeAssumption
  <2>2. \A k \in Rounds, s \in Stops : tau[k][s] = Unreached
    BY <1>1 DEF AllUnreached
  <2> QED BY <2>1, <2>2
<1>3. ArrivalsReal
  <2>1. 0 \in Rounds /\ \A k \in 1 .. q.rounds : k \in Rounds
    <3>1. \A n \in Nat : \A j \in 1 .. n : j \in 0 .. n
      OBVIOUS
    <3> QED BY <1>1, <3>1, RoundsType DEF Rounds
  <2> QED BY <1>2, <2>1 DEF ArrivalsReal
<1>4. MarksReal /\ SidecarReal /\ WalksReal /\ LinksReal
  BY <1>1 DEF MarksReal, SidecarReal, WalksReal, LinksReal, Scanning, InScan
<1> QED BY <1>3, <1>4 DEF SInv

LEMMA RealInit == Init => SInv
BY InitBlank, RealBlank

LEMMA RealStutter == SInv /\ UNCHANGED vars => SInv'
<1> SUFFICES ASSUME SInv, UNCHANGED vars PROVE SInv'
  OBVIOUS
<1>1. UNCHANGED <<q, pc, pass, round, tau, marked, transit, pending>>
  BY DEF vars
<1>2. \A k, s, at : Ridden(k, s, at) => Ridden(k, s, at)'
  <2>1. \A k, r, s : GoodRide(k, r, s) => GoodRide(k, r, s)'
    BY <1>1, RideStays
  <2>2. Rides' = Rides /\ \A r : AlightTime(r)' = AlightTime(r)
    BY <1>1, InstanceSame DEF Rides, StopsOf
  <2> QED BY <1>1, <2>1, <2>2 DEF Ridden
<1>3. \A k, s, at : Walked(k, s, at) => Walked(k, s, at)'
  BY <1>1, <1>2 DEF Walked
<1>4. \A s, at : Linked(s, at)' <=> Linked(s, at)
  BY <1>1 DEF Linked
<1>5. ArrivalsReal'
  BY <1>1, <1>2, <1>3, <1>4 DEF SInv, ArrivalsReal
<1>6. MarksReal' /\ WalksReal'
  BY <1>1, <1>2 DEF SInv, MarksReal, WalksReal, Scanning, InScan
<1>7. SidecarReal' /\ LinksReal'
  BY <1>1 DEF SInv, SidecarReal, LinksReal
<1> QED BY <1>5, <1>6, <1>7 DEF SInv

LEMMA RealNext == RInv /\ SInv /\ [Next]_vars => SInv'
<1> SUFFICES ASSUME RInv, SInv, [Next]_vars PROVE SInv'
  OBVIOUS
<1>1. CASE StartPass
  BY <1>1, RealStartPass
<1>2. ASSUME NEW a \in pending, SeedAccess(a) PROVE SInv'
  BY <1>2, RealSeedAccess
<1>3. CASE CollectPatterns
  BY <1>3, RealCollectPatterns
<1>4. ASSUME NEW p \in DOMAIN queue_position, DequeuePattern(p) PROVE SInv'
  <2>1. RInv'
    BY <1>4, InvDequeuePattern
  <2> QED BY <1>4, <2>1, RealQuiet DEF DequeuePattern, tables, Scanning, InScan
<1>5. ASSUME NEW d \in Streams, Alight(d) PROVE SInv'
  BY <1>5, RealAlight
<1>6. CASE Board
  <2>1. RInv'
    BY <1>6, InvBoard
  <2> QED BY <1>6, <2>1, RealQuiet DEF Board, tables, Scanning, InScan
<1>7. CASE StartWalking
  BY <1>7, RealStartWalking
<1>8. ASSUME NEW w \in pending, Walk(w) PROVE SInv'
  BY <1>8, RealWalk
<1>9. CASE EndRound
  <2>1. RInv'
    BY <1>9, InvEndRound
  <2> QED BY <1>9, <2>1, RealQuiet DEF EndRound, tables, Scanning, InScan
<1>10. CASE Collect
  <2>1. RInv'
    BY <1>10, InvCollect
  <2> QED BY <1>10, <2>1, RealQuiet DEF Collect, tables, Scanning, InScan
<1>11. CASE Finish
  <2>1. RInv'
    BY <1>11, InvFinish
  <2> QED BY <1>11, <2>1, RealQuiet DEF Finish, tables, Scanning, InScan
<1>12. CASE UNCHANGED vars
  BY <1>12, RealStutter
<1> QED BY <1>1, <1>2, <1>3, <1>4, <1>5, <1>6, <1>7, <1>8, <1>9, <1>10, <1>11, <1>12 DEF Next, Done

LEMMA RealAlways == Spec => []SInv
<1>1. Init => RInv /\ SInv
  BY InvInit, RealInit
<1>2. RInv /\ SInv /\ [Next]_vars => RInv' /\ SInv'
  BY InvNext, RealNext
<1> QED BY <1>1, <1>2, PTL DEF Spec

----------------------------------------------------------------------------
(* The arrivals of a finished pass, compared with those the instance       *)
(* promises (Itineraries), one ride and one footpath at a time.            *)

\* Trips that leave a stop of a line together stay together.
TwinsAgree(n) ==
  \A d \in Streams : \A t, u \in n.usable[d] :
    n.trip_pattern[t] = n.trip_pattern[u] =>
      \A board, alight \in 1 .. Len(n.pattern_stops[n.trip_pattern[t]]) :
        board < alight /\ n.departure[t][board] = n.departure[u][board]
        => n.arrival[t][alight] = n.arrival[u][alight]

\* A closed set's footpaths lead nowhere sooner than an access link does.
AccessCloses(n) ==
  n.closed => \A a \in n.access, e \in n.transfers :
    a.stop = e.from /\ a.stop \notin n.excluded /\ e.to \notin n.excluded =>
      \E b \in n.access : b.stop = e.to /\ b.duration <= a.duration + e.duration

LEMMA MinimumIs ==
  ASSUME NEW S \in SUBSET Int, NEW m \in S, \A x \in S : m <= x
  PROVE  R!Min(S) = m
<1>1. \A x \in S : (\A y \in S : x <= y) => x = m
  OBVIOUS
<1> QED BY <1>1 DEF R!Min

LEMMA MinIs ==
  ASSUME NEW S \in SUBSET Nat, S # {}
  PROVE  Min(S) \in S /\ \A i \in S : Min(S) <= i
<1>1. \E i \in S : \A j \in S : i <= j
  BY SmallestElement
<1> QED BY <1>1 DEF Min

LEMMA LeastOf ==
  ASSUME NEW S \in SUBSET Int, S # {}, NEW n \in Nat, \A i \in S : i >= -n
  PROVE  Min(S) \in S /\ \A i \in S : Min(S) <= i
<1> DEFINE above == {i + n : i \in S}
<1>1. above \in SUBSET Nat /\ above # {}
  <2>1. \A i \in Int : i >= -n => i + n \in Nat
    OBVIOUS
  <2> QED BY <2>1
<1>2. PICK b \in above : \A c \in above : b <= c
  <2> HIDE DEF above
  <2> QED BY <1>1, SmallestElement
<1>3. PICK m \in S : b = m + n
  BY <1>2
<1>4. \A i \in S : m + n <= i + n
  BY <1>2, <1>3
<1>5. ASSUME NEW i \in S  PROVE m <= i
  <2>1. m \in Int /\ i \in Int
    OBVIOUS
  <2>2. m + n <= i + n
    BY <1>4
  <2> HIDE DEF above
  <2> QED BY <2>1, <2>2
<1>6. \E m2 \in S : \A i \in S : m2 <= i
  BY <1>5
<1> QED BY <1>6 DEF Min

LEMMA DayOffsets == \A d \in Streams : R!DayOffset(d) = Offset(d)
BY DEF R!DayOffset, Offset

\* The rides of the reference, in Raptor's terms.
LEMMA PossibleRide ==
  ASSUME q \in Queries, NEW r \in R!PossibleRides(q), StopAt(r.trip, r.alight) \notin q.excluded
  PROVE  /\ Ridable(r.stream, r.trip, r.board, r.alight)
         /\ R!StopAt(q, r, r.board) = StopAt(r.trip, r.board)
         /\ R!StopAt(q, r, r.alight) = StopAt(r.trip, r.alight)
         /\ R!BoardedAt(q, r) = q.departure[r.trip][r.board] - Offset(r.stream)
         /\ R!AlightedAt(q, r) = ArrivesAt(r.stream, r.trip, r.alight)
<1>1. WellFormedTimetable(q)
  BY QueriesAssumption
<1>2. r \in R!RidesOf(q) /\ r.trip \in q.usable[r.stream] /\ r.board < r.alight
  BY DEF R!PossibleRides
<1>3. PICK d \in {0, 1}, t \in q.trips :
        r \in {[stream |-> d, trip |-> t, board |-> b, alight |-> a] :
                 b \in DOMAIN q.arrival[t], a \in DOMAIN q.arrival[t]}
  BY <1>2 DEF R!RidesOf
<1>4. PICK b \in DOMAIN q.arrival[t], a \in DOMAIN q.arrival[t] :
        r = [stream |-> d, trip |-> t, board |-> b, alight |-> a]
  BY <1>3
<1>5. r.stream = d /\ r.trip = t /\ r.board = b /\ r.alight = a
  BY <1>4
<1>6. DOMAIN q.arrival[t] = 1 .. Len(StopsOf(q.trip_pattern[t]))
  BY <1>1 DEF WellFormedTimetable, StopsOf
<1>7. d \in Streams
  BY DEF Streams
<1>8. Ridable(r.stream, r.trip, r.board, r.alight)
  BY <1>2, <1>5, <1>6, <1>7 DEF Ridable
<1>9. R!DayOffset(r.stream) = Offset(r.stream)
  BY <1>5, <1>7, DayOffsets
<1> QED BY <1>8, <1>9 DEF R!StopAt, StopAt, StopsOf, R!BoardedAt, R!AlightedAt, ArrivesAt

LEMMA RidePossible ==
  ASSUME q \in Queries, NEW d \in Streams, NEW r \in Rides, r.trip \in q.usable[d]
  PROVE  \E x \in R!PossibleRides(q) :
           x.stream = d /\ x.trip = r.trip /\ x.board = r.board /\ x.alight = r.alight
<1>1. WellFormedTimetable(q)
  BY QueriesAssumption
<1>2. /\ r.trip \in q.trips /\ r.board < r.alight
      /\ r.board \in 1 .. Len(StopsOf(q.trip_pattern[r.trip]))
      /\ r.alight \in 1 .. Len(StopsOf(q.trip_pattern[r.trip]))
  BY DEF Rides
<1>3. DOMAIN q.arrival[r.trip] = 1 .. Len(StopsOf(q.trip_pattern[r.trip]))
  BY <1>1, <1>2 DEF WellFormedTimetable, StopsOf
<1>4. d \in {0, 1}
  BY DEF Streams
<1> DEFINE x == [stream |-> d, trip |-> r.trip, board |-> r.board, alight |-> r.alight]
<1> DEFINE of(c, t) == {[stream |-> c, trip |-> t, board |-> b, alight |-> a] :
                          b \in DOMAIN q.arrival[t], a \in DOMAIN q.arrival[t]}
<1>5. x \in R!RidesOf(q)
  <2>1. x \in of(d, r.trip)
    BY <1>2, <1>3
  <2>2. R!RidesOf(q) = UNION {of(c, t) : c \in {0, 1}, t \in q.trips}
    BY DEF R!RidesOf
  <2>3. of(d, r.trip) \in {of(c, t) : c \in {0, 1}, t \in q.trips}
    BY <1>2, <1>4
  <2> HIDE DEF of, x
  <2> QED BY <2>1, <2>2, <2>3
<1>6. x.stream = d /\ x.trip = r.trip /\ x.board = r.board /\ x.alight = r.alight
  OBVIOUS
<1> HIDE DEF x
<1>7. x \in R!PossibleRides(q)
  BY <1>2, <1>5, <1>6 DEF R!PossibleRides
<1> QED BY <1>6, <1>7

\* What a ride of the round reaches is nothing new to the tables ...
LEMMA RideArrives ==
  ASSUME RInv, CInv, pc = "collect", TwinsAgree(q), NEW k \in 1 .. q.rounds,
         NEW x \in R!RideArrivals(q, best[k - 1])
  PROVE  x[1] \in Stops /\ x[2] \in Int /\ Served(k, x[1], x[2])
<1>1. q \in Queries /\ TablesOK /\ RidesServed /\ k - 1 \in Rounds
  <2>1. q \in Queries /\ TablesOK /\ RidesServed
    BY TablesTyped, ClosedServes DEF RInv, PassClosed
  <2>2. q.rounds \in Nat
    BY <2>1, RoundsType
  <2> QED BY <2>1, <2>2, RoundBefore DEF Rounds
<1>2. PICK r \in R!PossibleRides(q) :
        /\ R!StopAt(q, r, r.alight) \notin q.excluded
        /\ best[k - 1][R!StopAt(q, r, r.board)] <= R!BoardedAt(q, r)
        /\ x = <<R!StopAt(q, r, r.alight), R!AlightedAt(q, r)>>
  BY DEF R!RideArrivals
<1>3. PICK d, t, board, alight : d = r.stream /\ t = r.trip /\ board = r.board /\ alight = r.alight
  OBVIOUS
<1>4. StopAt(t, alight) \notin q.excluded
  BY <1>2, <1>3 DEF R!StopAt, StopAt, StopsOf
<1>5. /\ Ridable(d, t, board, alight)
      /\ best[k - 1][StopAt(t, board)] <= q.departure[t][board] - Offset(d)
      /\ x = <<StopAt(t, alight), ArrivesAt(d, t, alight)>>
  BY <1>1, <1>2, <1>3, <1>4, PossibleRide
<1>6. /\ StopAt(t, board) \in Stops /\ StopAt(t, alight) \in Stops /\ t \in Twins(d, t, board)
      /\ Offset(d) \in Nat /\ d \in Streams /\ t \in q.usable[d]
  BY <1>1, <1>5, RidableFacts
<1>7. q.departure[t][board] \in Nat /\ ArrivesAt(d, t, alight) \in Int
  BY <1>1, <1>5, <1>6, RidableFacts
<1>8. best[k - 1][StopAt(t, board)] + Offset(d) <= q.departure[t][board]
  <2>1. best[k - 1][StopAt(t, board)] \in Int
    BY <1>1, <1>6 DEF TablesOK
  <2> QED BY <1>5, <1>6, <1>7, <2>1
<1>9. /\ board \in 1 .. Len(StopsOf(q.trip_pattern[t])) /\ alight \in 1 .. Len(StopsOf(q.trip_pattern[t]))
      /\ board < alight
  BY <1>5 DEF Ridable
<1>10. PICK u \in Twins(d, t, board) : Served(k, StopAt(t, alight), q.arrival[u][alight] - Offset(d))
  BY <1>1, <1>4, <1>6, <1>8, <1>9 DEF RidesServed, StopAt
<1>11. q.arrival[u][alight] = q.arrival[t][alight]
  <2>1. u \in q.usable[d] /\ q.trip_pattern[u] = q.trip_pattern[t] /\ q.departure[u][board] = q.departure[t][board]
    BY DEF Twins
  <2> QED BY <1>6, <1>9, <2>1 DEF TwinsAgree, StopsOf
<1>12. Served(k, StopAt(t, alight), ArrivesAt(d, t, alight))
  BY <1>10, <1>11 DEF ArrivesAt
<1> QED BY <1>5, <1>6, <1>7, <1>12

\* ... nor is what a footpath behind it reaches.
LEMMA WalkArrives ==
  ASSUME RInv, CInv, SInv, pc = "collect", TwinsAgree(q), AccessCloses(q), NEW k \in 1 .. q.rounds,
         NEW x \in R!WalkArrivals(q, R!RideArrivals(q, best[k - 1]))
  PROVE  x[1] \in Stops /\ x[2] \in Int /\ best[k][x[1]] <= x[2]
<1>1. q \in Queries /\ TablesOK /\ BestIsPrefixMin /\ AccessServed /\ k \in Rounds /\ 0 \in Rounds /\ 0 <= k
  <2>1. q \in Queries /\ TablesOK /\ BestIsPrefixMin /\ AccessServed
    BY TablesTyped, ClosedServes DEF RInv, PassClosed
  <2>2. \A n \in Nat : \A j \in 1 .. n : j \in 0 .. n /\ 0 <= j
    OBVIOUS
  <2> QED BY <2>1, <2>2, RoundsType DEF Rounds
<1>2. PICK y \in R!RideArrivals(q, best[k - 1]) \X q.transfers :
        /\ y[2].from = y[1][1] /\ y[2].to \notin q.excluded
        /\ x = <<y[2].to, y[1][2] + y[2].duration>>
  BY DEF R!WalkArrivals
<1>3. PICK e, s, at : e \in q.transfers /\ e = y[2] /\ s = y[1][1] /\ at = y[1][2]
  BY <1>2
<1>4. s \in Stops /\ at \in Int /\ Served(k, s, at)
  BY <1>2, <1>3, RideArrives
<1>5. e.from = s /\ e.to \notin q.excluded /\ x = <<e.to, at + e.duration>>
  BY <1>2, <1>3
<1>6. e \in FootpathsFrom(s) /\ e.to \in Stops /\ e.duration \in Nat
  <2>1. e \in FootpathsFrom(s)
    BY <1>3, <1>5 DEF FootpathsFrom
  <2> QED BY <1>1, <2>1, FootpathFacts
<1>7. PICK later \in Int : later = at + e.duration
  BY <1>4, <1>6
<1>8. best[k][e.to] \in Int /\ best[k][e.to] <= Unreached /\ Unreached \in Int
  BY <1>1, <1>6, TimeAssumption DEF TablesOK
<1>9. CASE later >= Unreached
  BY <1>5, <1>6, <1>7, <1>8, <1>9
<1>10. CASE later < Unreached /\ (q.closed => at < best[0][s])
  <2>1. best[k][e.to] <= later
    BY <1>4, <1>6, <1>7, <1>10 DEF Served
  <2> QED BY <1>5, <1>6, <1>7, <2>1
<1>11. CASE later < Unreached /\ q.closed /\ ~(at < best[0][s])
  <2>1. best[0][s] = tau[0][s] /\ tau[0][s] \in Int
    <3>1. PICK i \in 0 .. 0 : best[0][s] = tau[i][s]
      BY <1>1, <1>4 DEF BestIsPrefixMin
    <3>2. i = 0
      OBVIOUS
    <3> QED BY <1>1, <1>4, <3>1, <3>2 DEF TablesOK
  <2>2. tau[0][s] <= at
    BY <1>4, <1>11, <2>1
  <2>3. tau[0][s] < Unreached
    BY <1>4, <1>6, <1>7, <1>8, <1>11, <2>1, <2>2
  <2>4. Linked(s, tau[0][s])
    BY <1>4, <2>3 DEF SInv, ArrivalsReal
  <2>5. PICK i \in 1 .. pass, a \in q.access : a.stop = s /\ tau[0][s] = q.departures[i] + a.duration
    BY <2>4 DEF Linked
  <2>6. PICK b \in q.access : b.stop = e.to /\ b.duration <= a.duration + e.duration
    BY <1>3, <1>5, <1>11, <2>4, <2>5 DEF AccessCloses, Linked
  <2>7. a.duration \in Nat /\ b.duration \in Nat /\ q.departures[i] \in Int
    <3>1. a \in [stop : Stops, duration : Nat] /\ b \in [stop : Stops, duration : Nat]
      BY <1>1, QueriesAssumption DEF WellFormedRequest
    <3>2. pass \in 0 .. Len(q.departures)
      BY DEF RInv, TypeOK
    <3>3. i \in 1 .. Len(q.departures)
      BY <1>1, <3>2, DeparturesSeq
    <3>4. q.departures[i] \in Times
      BY <1>1, <3>3, DeparturesSeq, ElementOfSeq
    <3> QED BY <3>1, <3>4 DEF Times
  <2>8. PICK sooner \in Int : sooner = q.departures[i] + b.duration
    BY <2>7
  <2>9. sooner <= later
    BY <1>4, <1>6, <1>7, <2>2, <2>5, <2>6, <2>7, <2>8
  <2>10. best[0][e.to] <= sooner
    <3>1. sooner < Unreached
      BY <1>8, <1>11, <2>9
    <3> QED BY <1>1, <1>5, <2>6, <2>8, <3>1 DEF AccessServed
  <2>11. best[k][e.to] <= best[0][e.to] /\ best[0][e.to] \in Int
    BY <1>1, <1>6, BestFalls
  <2>12. best[k][e.to] <= later
    BY <1>8, <2>9, <2>10, <2>11
  <2> QED BY <1>5, <1>6, <1>7, <2>12
<1> QED BY <1>7, <1>8, <1>9, <1>10, <1>11

\* The rides and footpaths of the reference's round find every arrival of the
\* round's own.
LEMMA RiddenArrives ==
  ASSUME RInv, NEW k \in 1 .. q.rounds, NEW s \in Stops, NEW at, Ridden(k, s, at)
  PROVE  <<s, at>> \in R!RideArrivals(q, best[k - 1])
<1>1. q \in Queries /\ TablesOK /\ BestIsPrefixMin /\ k \in Rounds /\ k > 0 /\ k - 1 \in Rounds /\ k - 1 \in Nat
  <2>1. q \in Queries /\ TablesOK /\ BestIsPrefixMin
    BY TablesTyped DEF RInv
  <2>2. q.rounds \in Nat
    BY <2>1, RoundsType
  <2>3. \A n \in Nat : \A j \in 1 .. n : j \in 0 .. n /\ j > 0 /\ j - 1 \in Nat
    OBVIOUS
  <2> QED BY <2>1, <2>2, <2>3, RoundBefore DEF Rounds
<1>2. PICK r \in Rides : GoodRide(k, r, s) /\ AlightTime(r) = at
  BY DEF Ridden
<1>3. PICK d \in Streams : Offset(d) = r.offset /\ r.trip \in q.usable[d]
  BY <1>2 DEF GoodRide, Boardable
<1>4. PICK x \in R!PossibleRides(q) :
        x.stream = d /\ x.trip = r.trip /\ x.board = r.board /\ x.alight = r.alight
  BY <1>1, <1>3, RidePossible
<1>5. StopAt(r.trip, r.alight) = s /\ s \notin q.excluded
  BY <1>2 DEF GoodRide, StopAt, Ridden
<1>6. /\ R!StopAt(q, x, x.board) = StopAt(r.trip, r.board)
      /\ R!StopAt(q, x, x.alight) = s
      /\ R!BoardedAt(q, x) = q.departure[r.trip][r.board] - Offset(d)
      /\ R!AlightedAt(q, x) = ArrivesAt(d, r.trip, r.alight)
  BY <1>1, <1>4, <1>5, PossibleRide
<1>7. /\ r.offset \in Nat /\ q.departure[r.trip][r.board] \in Nat
      /\ q.departure[r.trip][r.board] < Unreached /\ q.arrival[r.trip][r.alight] \in Nat
      /\ StopAt(r.trip, r.board) \in Stops
  <2>1. /\ r.offset \in Nat /\ q.departure[r.trip][r.board] \in Nat /\ q.arrival[r.trip][r.alight] \in Nat
        /\ q.departure[r.trip][r.board] <= q.arrival[r.trip][r.alight]
        /\ q.arrival[r.trip][r.alight] < Unreached
        /\ StopsOf(q.trip_pattern[r.trip])[r.board] \in Stops
    BY <1>1, RideFacts
  <2>2. q.departure[r.trip][r.board] < Unreached
    BY <2>1, TimeAssumption
  <2> QED BY <2>1, <2>2 DEF StopAt
<1>8. R!AlightedAt(q, x) = at
  <2>1. AlightTime(r) \in Times /\ AlightTime(r) + r.offset = q.arrival[r.trip][r.alight]
    BY <1>1, <1>2, RideTimes
  <2>2. at \in Int /\ at + r.offset = q.arrival[r.trip][r.alight]
    BY <1>2, <2>1 DEF Times
  <2> QED BY <1>3, <1>6, <1>7, <2>2 DEF ArrivesAt
<1>9. /\ best[k - 1][StopAt(r.trip, r.board)] # Unreached
      /\ best[k - 1][StopAt(r.trip, r.board)] <= q.departure[r.trip][r.board] - Offset(d)
  <2>1. PICK b \in Stops : b = StopAt(r.trip, r.board)
    BY <1>7
  <2>2. tau[k - 1][b] + r.offset <= q.departure[r.trip][r.board]
    BY <1>2, <2>1 DEF GoodRide, Boardable, StopAt
  <2>3. best[k - 1][b] <= tau[k - 1][b]
    <3>1. k - 1 \in 0 .. k - 1
      BY <1>1
    <3> QED BY <1>1, <3>1 DEF BestIsPrefixMin
  <2>4. best[k - 1][b] \in Int /\ tau[k - 1][b] \in Int /\ Unreached \in Int
    BY <1>1, TimeAssumption DEF TablesOK
  <2> QED BY <1>3, <1>7, <2>1, <2>2, <2>3, <2>4
<1> QED BY <1>4, <1>5, <1>6, <1>8, <1>9 DEF R!RideArrivals

LEMMA WalkedArrives ==
  ASSUME RInv, NEW k \in 1 .. q.rounds, NEW s \in Stops, NEW at, Walked(k, s, at)
  PROVE  <<s, at>> \in R!WalkArrivals(q, R!RideArrivals(q, best[k - 1]))
<1> DEFINE rides == R!RideArrivals(q, best[k - 1])
<1>1. PICK e \in q.transfers, sooner \in Int :
        e.to = s /\ Ridden(k, e.from, sooner) /\ at = sooner + e.duration /\ s \notin q.excluded
  BY DEF Walked
<1>2. e.from \in Stops
  <2>1. q \in Queries
    BY DEF RInv, TypeOK
  <2> QED BY <2>1, QueriesAssumption DEF WellFormedTransfers
<1>3. <<e.from, sooner>> \in rides
  BY <1>1, <1>2, RiddenArrives
<1> HIDE DEF rides
<1>4. PICK x \in rides \X q.transfers : x = <<<<e.from, sooner>>, e>>
  BY <1>3
<1>5. x[1][1] = e.from /\ x[1][2] = sooner /\ x[2] = e
  BY <1>4
<1>6. <<x[2].to, x[1][2] + x[2].duration>> \in R!WalkArrivals(q, rides)
  BY <1>1, <1>5 DEF R!WalkArrivals
<1>7. <<x[2].to, x[1][2] + x[2].duration>> = <<s, at>>
  BY <1>1, <1>5
<1> QED BY <1>6, <1>7 DEF rides

\* Round by round, the arrivals are those of the reference.
LEMMA FurtherExact ==
  ASSUME RInv, CInv, SInv, PassEnded, TwinsAgree(q), AccessCloses(q), NEW k \in 1 .. q.rounds
  PROVE  best[k] = R!Further(q, best[k - 1])
<1> DEFINE rides == R!RideArrivals(q, best[k - 1])
           arrivals == rides \cup R!WalkArrivals(q, rides)
           at(s) == {best[k - 1][s]} \cup {x[2] : x \in {x \in arrivals : x[1] = s}}
<1>1. q \in Queries /\ TablesOK /\ BestIsPrefixMin /\ k \in Rounds /\ k - 1 \in Rounds /\ k - 1 \in Nat /\ k - 1 <= k
  <2>1. q \in Queries /\ TablesOK /\ BestIsPrefixMin
    BY TablesTyped DEF RInv
  <2>2. q.rounds \in Nat
    BY <2>1, RoundsType
  <2>3. \A n \in Nat : \A j \in 1 .. n : j \in 0 .. n /\ j - 1 \in Nat /\ j - 1 <= j
    OBVIOUS
  <2> QED BY <2>1, <2>2, <2>3, RoundBefore DEF Rounds
<1>2. ASSUME NEW x \in arrivals PROVE x[1] \in Stops /\ x[2] \in Int /\ best[k][x[1]] <= x[2]
  <2>1. CASE x \in rides
    BY <2>1, RideArrives DEF Served, PassEnded
  <2>2. CASE x \in R!WalkArrivals(q, rides)
    BY <2>2, WalkArrives DEF PassEnded
  <2> QED BY <2>1, <2>2
<1>3. ASSUME NEW s \in Stops PROVE R!Min(at(s)) = best[k][s]
  <2>1. best[k][s] <= best[k - 1][s] /\ best[k][s] \in Int /\ best[k - 1][s] \in Int
    BY <1>1, BestFalls
  <2>2. \A t \in at(s) : t \in Int /\ best[k][s] <= t
    <3> HIDE DEF arrivals
    <3> QED BY <1>2, <2>1
  <2>3. best[k][s] \in at(s)
    <3>1. PICK j \in 0 .. k : best[k][s] = tau[j][s]
      BY <1>1 DEF BestIsPrefixMin
    <3>2. CASE j # k
      <4>1. j \in 0 .. k - 1
        BY <1>1, <3>1, <3>2
      <4>2. best[k - 1][s] <= tau[j][s]
        BY <1>1, <4>1 DEF BestIsPrefixMin
      <4>3. best[k][s] = best[k - 1][s]
        BY <2>1, <3>1, <4>2
      <4> QED BY <4>3
    <3>3. CASE j = k /\ ~(tau[k][s] < Unreached)
      <4>1. tau[k][s] \in 0 .. Unreached /\ best[k - 1][s] \in 0 .. Unreached /\ Unreached \in Nat
        BY <1>1, TimeAssumption DEF TablesOK
      <4>2. best[k][s] = best[k - 1][s]
        BY <2>1, <3>1, <3>3, <4>1
      <4> QED BY <4>2
    <3>4. CASE j = k /\ tau[k][s] < Unreached
      <4>1. PICK t : t = best[k][s]
        OBVIOUS
      <4>2. Ridden(k, s, t) \/ Walked(k, s, t)
        BY <3>1, <3>4, <4>1 DEF SInv, ArrivalsReal
      <4>3. <<s, t>> \in arrivals
        BY <4>2, RiddenArrives, WalkedArrives
      <4> HIDE DEF arrivals
      <4> QED BY <4>1, <4>3
    <3> QED BY <3>2, <3>3, <3>4
  <2> HIDE DEF at
  <2> QED BY <2>2, <2>3, MinimumIs
<1>4. R!Further(q, best[k - 1]) = [s \in Stops |-> R!Min(at(s))]
  BY DEF R!Further
<1>5. best[k] = [s \in Stops |-> best[k][s]]
  BY <1>1 DEF TablesOK
<1> HIDE DEF at
<1> QED BY <1>3, <1>4, <1>5

LEMMA StartedExact ==
  ASSUME RInv, CInv, SInv, PassEnded
  PROVE  best[0] = R!Started(q, Departed)
<1> DEFINE links(s) == {a \in q.access : a.stop = s /\ s \notin q.excluded}
           at(s) == {Unreached} \cup {d + a.duration : d \in Departed, a \in links(s)}
<1>1. q \in Queries /\ TablesOK /\ BestIsPrefixMin /\ AccessServed /\ 0 \in Rounds /\ Unreached \in Nat
  BY TablesTyped, ClosedServes, RoundsType, TimeAssumption DEF RInv, PassEnded, PassClosed
<1>2. ASSUME NEW i \in 1 .. pass PROVE q.departures[i] \in Nat
  <2>1. pass \in 0 .. Len(q.departures)
    BY DEF RInv, TypeOK
  <2>2. i \in 1 .. Len(q.departures)
    BY <1>1, <2>1, DeparturesSeq
  <2>3. q.departures[i] \in Times
    BY <1>1, <2>2, DeparturesSeq, ElementOfSeq
  <2> QED BY <2>3 DEF Times
<1>3. \A a \in q.access : a.duration \in Nat
  BY <1>1, QueriesAssumption DEF WellFormedRequest
<1>4. ASSUME NEW s \in Stops PROVE R!Min(at(s)) = best[0][s]
  <2>1. best[0][s] \in 0 .. Unreached /\ tau[0][s] \in 0 .. Unreached
    BY <1>1 DEF TablesOK
  <2>2. ASSUME NEW d \in Departed, NEW a \in links(s)
        PROVE  d + a.duration \in Int /\ best[0][s] <= d + a.duration
    <3>1. PICK i \in 1 .. pass : d = q.departures[i]
      BY DEF Departed
    <3>2. a \in q.access /\ a.stop = s /\ s \notin q.excluded
      OBVIOUS
    <3>3. d + a.duration \in Int
      BY <1>2, <1>3, <3>1, <3>2
    <3>4. d + a.duration < Unreached => best[0][s] <= d + a.duration
      BY <1>1, <3>1, <3>2 DEF AccessServed
    <3> QED BY <1>1, <2>1, <3>3, <3>4
  <2>3. \A t \in at(s) : t \in Int /\ best[0][s] <= t
    <3> HIDE DEF links
    <3> QED BY <1>1, <2>1, <2>2
  <2>4. best[0][s] \in at(s)
    <3>1. best[0][s] = tau[0][s]
      <4>1. PICK i \in 0 .. 0 : best[0][s] = tau[i][s]
        BY <1>1 DEF BestIsPrefixMin
      <4>2. i = 0
        OBVIOUS
      <4> QED BY <4>1, <4>2
    <3>2. CASE ~(tau[0][s] < Unreached)
      <4>1. best[0][s] = Unreached
        BY <1>1, <2>1, <3>1, <3>2
      <4> QED BY <4>1
    <3>3. CASE tau[0][s] < Unreached
      <4>1. Linked(s, tau[0][s])
        BY <3>3 DEF SInv, ArrivalsReal
      <4>2. PICK i \in 1 .. pass, a \in q.access : a.stop = s /\ tau[0][s] = q.departures[i] + a.duration
        BY <4>1 DEF Linked
      <4>3. a \in links(s) /\ q.departures[i] \in Departed
        BY <4>1, <4>2 DEF Departed, Linked
      <4> HIDE DEF links
      <4> QED BY <3>1, <4>2, <4>3
    <3> QED BY <3>2, <3>3
  <2> HIDE DEF at
  <2> QED BY <2>3, <2>4, MinimumIs
<1>5. R!Started(q, Departed) = [s \in Stops |-> R!Min(at(s))]
  BY DEF R!Started
<1>6. best[0] = [s \in Stops |-> best[0][s]]
  BY <1>1 DEF TablesOK
<1> HIDE DEF at
<1> QED BY <1>4, <1>5, <1>6

----------------------------------------------------------------------------
(* The reference's tables, round by round.                                 *)

\* A table of rounds, each made of the one before, exists.
RoundByRound(f, n, started, rounds) ==
  f = [k \in 0 .. rounds |-> IF k = 0 THEN started ELSE R!Further(n, f[k - 1])]
LEMMA TableOfRounds == \A n, started : \A rounds \in Nat : \E f : RoundByRound(f, n, started, rounds)
<1> SUFFICES ASSUME NEW n, NEW started PROVE \A rounds \in Nat : \E f : RoundByRound(f, n, started, rounds)
  OBVIOUS
<1> DEFINE Of(f, m) == f = [k \in 0 .. m |-> IF k = 0 THEN started ELSE R!Further(n, f[k - 1])]
           without == {m \in Nat : ~ \E f : Of(f, m)}
<1>1. ASSUME without # {} PROVE FALSE
  <2>1. PICK m \in without : \A i \in without : m <= i
    BY <1>1, SmallestElement
  <2>2. m # 0
    <3>1. Of([k \in 0 .. 0 |-> started], 0)
      OBVIOUS
    <3> QED BY <2>1, <3>1
  <2>3. PICK f : Of(f, m - 1)
    <3>1. m - 1 \in Nat /\ ~(m <= m - 1)
      BY <2>1, <2>2
    <3> QED BY <2>1, <3>1
  <2> DEFINE g == [k \in 0 .. m |-> IF k = m THEN R!Further(n, f[m - 1]) ELSE f[k]]
  <2>4. ASSUME NEW k \in 0 .. m
        PROVE  g[k] = IF k = 0 THEN started ELSE R!Further(n, g[k - 1])
    <3>1. m \in Nat /\ m > 0
      BY <2>1, <2>2
    <3>2. CASE k = m
      <4>1. k - 1 \in 0 .. m /\ k - 1 # m /\ k # 0
        BY <3>1, <3>2
      <4>2. g[k - 1] = f[k - 1] /\ g[k] = R!Further(n, f[m - 1])
        BY <3>2, <4>1
      <4> QED BY <3>2, <4>1, <4>2
    <3>3. CASE k # m
      <4>1. k \in 0 .. m - 1 /\ (k # 0 => k - 1 \in 0 .. m /\ k - 1 # m)
        BY <3>1, <3>3
      <4>2. g[k] = f[k] /\ (k # 0 => g[k - 1] = f[k - 1])
        BY <3>3, <4>1
      <4>3. f[k] = IF k = 0 THEN started ELSE R!Further(n, f[k - 1])
        BY <2>3, <4>1
      <4> QED BY <4>2, <4>3
    <3> QED BY <3>2, <3>3
  <2>5. g = [k \in 0 .. m |-> g[k]]
    OBVIOUS
  <2> HIDE DEF g
  <2>6. Of(g, m)
    BY <2>4, <2>5
  <2> QED BY <2>1, <2>6
<1> QED BY <1>1 DEF RoundByRound

LEMMA EarliestRounds ==
  ASSUME q \in Queries, NEW D
  PROVE  /\ R!Earliest(q, D)[0] = R!Started(q, D)
         /\ \A k \in 1 .. q.rounds : R!Earliest(q, D)[k] = R!Further(q, R!Earliest(q, D)[k - 1])
<1> DEFINE e == CHOOSE f : RoundByRound(f, q, R!Started(q, D), q.rounds)
<1>1. q.rounds \in Nat
  BY RoundsType
<1>2. RoundByRound(e, q, R!Started(q, D), q.rounds)
  BY <1>1, TableOfRounds
<1>3. R!Earliest(q, D) = [k \in 0 .. q.rounds |-> e[k]]
  BY DEF R!Earliest, R!RidesOfRound, RoundByRound
<1> HIDE DEF e
<1>4. \A k \in 0 .. q.rounds : e[k] = IF k = 0 THEN R!Started(q, D) ELSE R!Further(q, e[k - 1])
  BY <1>2 DEF RoundByRound
<1>5. 0 \in 0 .. q.rounds /\ \A k \in 1 .. q.rounds : k \in 0 .. q.rounds /\ k - 1 \in 0 .. q.rounds /\ k # 0
  <2>1. \A n \in Nat : 0 \in 0 .. n /\ \A k \in 1 .. n : k \in 0 .. n /\ k - 1 \in 0 .. n /\ k # 0
    OBVIOUS
  <2> QED BY <2>1, RoundsType
<1> QED BY <1>3, <1>4, <1>5

LEMMA TablesExact ==
  ASSUME RInv, CInv, SInv, PassEnded, TwinsAgree(q), AccessCloses(q)
  PROVE  \A k \in Rounds : best[k] = EarliestArrival(Departed)[k]
<1> DEFINE earliest == R!Earliest(q, Departed)
           others == {k \in 0 .. q.rounds : best[k] # earliest[k]}
<1>1. q \in Queries /\ q.rounds \in Nat
  <2>1. q \in Queries
    BY DEF RInv, TypeOK
  <2> QED BY <2>1, RoundsType
<1>2. earliest[0] = R!Started(q, Departed) /\ \A k \in 1 .. q.rounds : earliest[k] = R!Further(q, earliest[k - 1])
  BY <1>1, EarliestRounds
<1> HIDE DEF earliest
<1>3. best[0] = earliest[0]
  BY <1>2, StartedExact
<1>4. ASSUME NEW k \in 1 .. q.rounds, best[k - 1] = earliest[k - 1] PROVE best[k] = earliest[k]
  <2>1. best[k] = R!Further(q, best[k - 1])
    BY FurtherExact
  <2> QED BY <1>2, <1>4, <2>1
<1>5. ASSUME others # {} PROVE FALSE
  <2>1. others \in SUBSET Nat
    BY <1>1
  <2>2. PICK k \in others : \A j \in others : k <= j
    <3> HIDE DEF others
    <3> QED BY <1>5, <2>1, SmallestElement
  <2>3. k \in 0 .. q.rounds /\ best[k] # earliest[k] /\ k # 0
    BY <1>3, <2>2
  <2>4. k \in 1 .. q.rounds /\ k - 1 \in 0 .. q.rounds /\ ~(k <= k - 1)
    BY <1>1, <2>3
  <2>5. best[k - 1] = earliest[k - 1]
    BY <2>2, <2>4
  <2> QED BY <1>4, <2>3, <2>4, <2>5
<1> QED BY <1>5 DEF Rounds, EarliestArrival, earliest

\* A finished pass has found the earliest arrivals there are, by as many rides
\* as there may be, on every instance whose trips stay together once they have
\* left a stop together, and whose access links are as closed as its footpaths
\* say they are: whatever the scan order, no mark, pruning, sidecar or early
\* exit loses an arrival, and none is better than a journey's
\* (search.rs, run_rounds).
THEOREM RaptorPassExact == Spec => [](TwinsAgree(q) /\ AccessCloses(q) => PassExact)
<1>1. RInv /\ CInv /\ SInv => (TwinsAgree(q) /\ AccessCloses(q) => PassExact)
  BY TablesExact DEF PassExact
<1> QED BY <1>1, InvAlways, ClosedAlways, RealAlways, PTL

----------------------------------------------------------------------------
(* What the passes have emitted.                                           *)

\* Has the pass been asked for a journey of k rides?
Collected(k) == pc \in {"next pass", "done"} \/ (pc = "collect" /\ k < round)

\* The thresholds are the best arrivals emitted; a journey's departure is that
\* of the pass that emitted it; and every arrival at an egress stop has been
\* offered to the thresholds, or was found by the pass at work, before walking.
BarsMet == \A j \in journeys, k \in Rounds : j.rides <= k => thresholds[k] <= j.arrival
BarsEmitted ==
  \A k \in Rounds : thresholds[k] < Unreached => \E j \in journeys : j.rides <= k /\ j.arrival <= thresholds[k]
EmittedInTurn ==
  \A j \in journeys : \E i \in 1 .. pass : j.departure = q.departures[i] /\ (i = pass => Collected(j.rides))
OffersTaken ==
  \A k \in 1 .. q.rounds : \A e \in Egresses(k) :
    \/ thresholds[k] <= ArrivalBy(k, e)
    \/ pc \in InRound /\ ~Collected(k) /\ tau[k][e.stop] < best[0][e.stop]

EInv == BarsMet /\ BarsEmitted /\ EmittedInTurn /\ OffersTaken /\ JourneysPareto

LEMMA FromOne == \A n \in Nat : \A i \in 1 .. n : i \in Int /\ 1 <= i /\ i \in 0 .. n
  OBVIOUS

\* Where nothing is emitted, journeys stay what they are, if those of the
\* pass at work count as emitted still.
LEMMA EmittedStays ==
  ASSUME RInv, EInv, RInv', q' = q, UNCHANGED emitted, pass' = pass \/ pass' = pass + 1,
         pass' = pass => \A k \in Rounds : Collected(k) => Collected(k)'
  PROVE  BarsMet' /\ BarsEmitted' /\ EmittedInTurn' /\ JourneysPareto'
<1>1. Rounds' = Rounds /\ q \in Queries /\ pass \in Nat /\ thresholds' = thresholds /\ journeys' = journeys
  <2>1. q \in Queries /\ pass \in 0 .. Len(q.departures)
    BY DEF RInv, TypeOK
  <2>2. pass \in Nat
    BY <2>1, DeparturesSeq
  <2> QED BY <2>1, <2>2 DEF Rounds, emitted
<1>2. BarsMet' /\ BarsEmitted'
  BY <1>1 DEF EInv, BarsMet, BarsEmitted
<1>3. EmittedInTurn'
  <2> SUFFICES ASSUME NEW j \in journeys
               PROVE  \E i \in 1 .. pass' : j.departure = q.departures[i] /\ (i = pass' => Collected(j.rides)')
    BY <1>1 DEF EmittedInTurn, Collected
  <2>1. PICK i \in 1 .. pass : j.departure = q.departures[i] /\ (i = pass => Collected(j.rides))
    BY DEF EInv, EmittedInTurn
  <2>2. i \in 1 .. pass'
    BY <1>1, <2>1
  <2>3. j.rides \in Rounds
    <3>1. j.rides \in 1 .. q.rounds
      BY DEF RInv, TypeOK
    <3>2. \A n \in Nat : \A k \in 1 .. n : k \in 0 .. n
      OBVIOUS
    <3> QED BY <1>1, <3>1, <3>2, RoundsType DEF Rounds
  <2>4. i = pass' => pass' = pass
    BY <1>1, <2>1
  <2> QED BY <2>1, <2>2, <2>3, <2>4
<1>4. JourneysPareto'
  BY <1>1 DEF EInv, JourneysPareto, R!Undominated, R!BeatWalking
<1> QED BY <1>2, <1>3, <1>4

\* Where no arrival changes either, what was offered stays offered.
LEMMA OffersStay ==
  ASSUME RInv, EInv, q' = q, UNCHANGED <<tau, best, thresholds>>,
         \A k \in 1 .. q.rounds : pc \in InRound /\ ~Collected(k) => pc' \in InRound /\ ~Collected(k)'
  PROVE  OffersTaken'
<1>1. \A k \in 1 .. q.rounds : Egresses(k)' = Egresses(k) /\ \A e \in Egresses(k) : ArrivalBy(k, e)' = ArrivalBy(k, e)
  BY DEF Egresses, ArrivalBy
<1> SUFFICES ASSUME NEW k \in 1 .. q.rounds, NEW e \in Egresses(k)
             PROVE  \/ thresholds'[k] <= ArrivalBy(k, e)
                    \/ pc' \in InRound /\ ~Collected(k)' /\ tau'[k][e.stop] < best'[0][e.stop]
  BY <1>1 DEF OffersTaken
<1> QED BY DEF EInv, OffersTaken

LEMMA NoneCollected ==
  ASSUME q \in Queries, pc' \in InRound, pc' = "collect" => round' = 1
  PROVE  \A k \in 1 .. q.rounds : ~Collected(k)'
<1>1. CASE pc' # "collect"
  BY <1>1 DEF Collected, InRound, InScan
<1>2. CASE pc' = "collect" /\ round' = 1
  BY <1>2, FromOne, RoundsType DEF Collected
<1> QED BY <1>1, <1>2

\* The steps that leave arrivals and journeys alone, but for those that end a
\* pass or begin one.
LEMMA EmittedQuiet ==
  ASSUME RInv, EInv, RInv', q' = q, UNCHANGED <<tau, best, pass>>, UNCHANGED emitted, pc # "collect", pc # "next pass", pc # "done",
         pc' \in InRound, pc' = "collect" => round' = 1
  PROVE  EInv'
<1>1. \A k \in Rounds : ~Collected(k)
  BY DEF Collected
<1>2. q \in Queries
  BY DEF RInv, TypeOK
<1>3. OffersTaken'
  BY <1>2, NoneCollected, OffersStay DEF emitted
<1> QED BY <1>1, <1>3, EmittedStays DEF EInv

LEMMA EmittedStartPass == RInv /\ EInv /\ StartPass => EInv'
<1> SUFFICES ASSUME RInv, EInv, StartPass PROVE EInv'
  OBVIOUS
<1>1. /\ RInv' /\ q' = q /\ UNCHANGED <<tau, best, emitted>> /\ pass' = pass + 1
      /\ pc = "next pass" /\ pc' = "access"
  BY InvStartPass DEF StartPass
<1>2. OffersTaken'
  BY <1>1, OffersStay DEF emitted, InRound, InScan
<1>3. pass \in Nat
  <2>1. q \in Queries /\ pass \in 0 .. Len(q.departures)
    BY DEF RInv, TypeOK
  <2> QED BY <2>1, DeparturesSeq
<1>4. pass' # pass
  <2>1. pass' = pass + 1
    BY <1>1
  <2> QED BY <1>3, <2>1
<1> QED BY <1>1, <1>2, <1>4, EmittedStays DEF EInv

LEMMA EmittedFinish == RInv /\ EInv /\ Finish => EInv'
<1> SUFFICES ASSUME RInv, EInv, Finish PROVE EInv'
  OBVIOUS
<1>1. /\ RInv' /\ q' = q /\ UNCHANGED <<tau, best, emitted, pass>> /\ pc = "next pass" /\ pc' = "done"
  BY InvFinish DEF Finish, tables
<1>2. OffersTaken'
  BY <1>1, OffersStay DEF emitted, InRound, InScan
<1>3. \A k \in Rounds : Collected(k) => Collected(k)'
  BY <1>1 DEF Collected
<1> QED BY <1>1, <1>2, <1>3, EmittedStays DEF EInv

LEMMA EmittedStutter == RInv /\ EInv /\ UNCHANGED vars => EInv'
<1> SUFFICES ASSUME RInv, EInv, UNCHANGED vars PROVE EInv'
  OBVIOUS
<1>1. RInv' /\ q' = q /\ UNCHANGED <<tau, best, emitted, pass, pc, round>>
  BY InvStutter DEF vars, emitted
<1>2. \A k : Collected(k)' = Collected(k)
  BY <1>1 DEF Collected
<1>3. OffersTaken'
  BY <1>1, <1>2, OffersStay DEF emitted
<1> QED BY <1>1, <1>2, <1>3, EmittedStays DEF EInv

\* A write of a round lowers an arrival below what walking there takes.
LEMMA RecordOffers ==
  ASSUME RInv, q' = q, NEW k \in Rounds, NEW s \in Stops, NEW arrival \in Times,
         NEW l, NEW contested \in BOOLEAN, Record(k, s, arrival, l, contested), NEW j \in 1 .. q.rounds, NEW u \in Stops
  PROVE  \/ tau'[j][u] = tau[j][u] /\ (k > 0 => best'[0] = best[0])
         \/ k > 0 /\ best'[0] = best[0] /\ tau'[j][u] < best[0][u]
<1>1. q \in Queries /\ TablesOK /\ BestIsPrefixMin /\ k \in Nat /\ 0 \in Rounds /\ j \in Rounds /\ j > 0 /\ 0 <= k
  <2>1. q \in Queries /\ TablesOK /\ BestIsPrefixMin
    BY TablesTyped DEF RInv
  <2>2. \A n \in Nat : \A i \in 1 .. n : i \in 0 .. n /\ i > 0
    OBVIOUS
  <2>3. k \in Nat /\ 0 <= k
    BY <2>1, RoundsType DEF Rounds
  <2> QED BY <2>1, <2>2, <2>3, RoundsType DEF Rounds
<1>2. CASE Improves(k, s, arrival)
  <2>1. tau' = [tau EXCEPT ![k][s] = arrival] /\ best' = Lowered(k, s, arrival)
    BY <1>2 DEF Record
  <2>2. tau'[j][u] = IF j = k /\ u = s THEN arrival ELSE tau[j][u]
    BY <1>1, <2>1 DEF TablesOK
  <2>3. k > 0 => best'[0] = best[0]
    BY <1>1, <2>1 DEF Lowered
  <2>4. arrival < best[0][s]
    <3>1. arrival < best[k][s]
      BY <1>2 DEF Improves
    <3>2. best[k][s] <= best[0][s] /\ best[k][s] \in Int /\ best[0][s] \in Int
      BY <1>1, BestFalls
    <3> QED BY <3>1, <3>2 DEF Times
  <2> QED BY <1>1, <2>2, <2>3, <2>4
<1>3. CASE ~Improves(k, s, arrival)
  <2>1. tau' = tau /\ best' = best
    BY <1>3 DEF Record, tables
  <2> QED BY <2>1
<1> QED BY <1>2, <1>3

\* The relaxations of a round take nothing back.
LEMMA EmittedRecord ==
  ASSUME RInv, EInv, RInv', q' = q, UNCHANGED <<emitted, pass>>, pc \in InRound, pc # "collect", pc' \in InRound, pc' # "collect",
         NEW s \in Stops, NEW arrival \in Nat, NEW l \in Labels, NEW contested \in BOOLEAN,
         UNCHANGED tables \/ (arrival \in Times /\ Record(round, s, arrival, l, contested))
  PROVE  EInv'
<1>1. q \in Queries /\ TablesOK /\ round \in Rounds /\ round > 0 /\ Rounds' = Rounds
  BY TablesTyped DEF RInv, TypeOK, Rounds
<1>2. \A k : ~Collected(k) /\ ~Collected(k)'
  BY DEF Collected, InRound, InScan
<1>3. CASE UNCHANGED tables
  <2>1. OffersTaken'
    BY <1>2, <1>3, OffersStay DEF tables, emitted
  <2> QED BY <1>2, <2>1, EmittedStays DEF EInv
<1>4. CASE arrival \in Times /\ Record(round, s, arrival, l, contested)
  <2>1. OffersTaken'
    <3> SUFFICES ASSUME NEW k \in 1 .. q.rounds, NEW e \in Egresses(k)'
                 PROVE  \/ thresholds[k] <= ArrivalBy(k, e)'
                        \/ tau'[k][e.stop] < best'[0][e.stop]
      BY <1>2 DEF OffersTaken, emitted
    <3>1. e \in q.egress /\ e.stop \in Stops
      BY <1>1, QueriesAssumption DEF Egresses, WellFormedRequest
    <3>2. CASE tau'[k][e.stop] = tau[k][e.stop] /\ best'[0] = best[0]
      <4>1. e \in Egresses(k) /\ ArrivalBy(k, e)' = ArrivalBy(k, e)
        BY <3>2 DEF Egresses, ArrivalBy
      <4> QED BY <3>2, <4>1 DEF EInv, OffersTaken
    <3> QED BY <1>1, <1>4, <3>1, <3>2, RecordOffers
  <2> QED BY <1>2, <2>1, EmittedStays DEF EInv
<1> QED BY <1>3, <1>4

LEMMA EmittedSeedAccess ==
  ASSUME RInv, EInv, NEW a \in pending, SeedAccess(a)
  PROVE  EInv'
<1>1. /\ RInv' /\ q' = q /\ UNCHANGED <<emitted, pass, pc, round>> /\ pc = "access" /\ q \in Queries /\ TablesOK
  BY InvSeedAccess, TablesTyped DEF SeedAccess, RInv
<1>2. \A k : Collected(k)' = Collected(k)
  BY <1>1 DEF Collected
<1>3. \A k \in 1 .. q.rounds, s \in Stops : tau'[k][s] = tau[k][s]
  <2>1. \A n \in Nat : \A i \in 1 .. n : i \in 0 .. n /\ i # 0
    OBVIOUS
  <2>2. \A k \in 1 .. q.rounds : k \in Rounds /\ k # 0
    BY <1>1, <2>1, RoundsType DEF Rounds
  <2>3. \A j \in Rounds : j # 0 => tau'[j] = tau[j]
    BY <1>1, SeedRelaxes, RelaxTables
  <2> QED BY <2>2, <2>3
<1>4. OffersTaken'
  <2> SUFFICES ASSUME NEW k \in 1 .. q.rounds, NEW e \in Egresses(k)'
               PROVE  thresholds[k] <= ArrivalBy(k, e)'
    BY <1>1 DEF OffersTaken, emitted
  <2>1. e \in q.egress /\ e.stop \in Stops
    BY <1>1, QueriesAssumption DEF Egresses, WellFormedRequest
  <2>2. e \in Egresses(k) /\ ArrivalBy(k, e)' = ArrivalBy(k, e)
    BY <1>1, <1>3, <2>1 DEF Egresses, ArrivalBy
  <2> QED BY <1>1, <2>2 DEF EInv, OffersTaken, InRound, InScan
<1> QED BY <1>1, <1>2, <1>4, EmittedStays DEF EInv

\* The best of a round's offers is as good as any other of them.
LEMMA BestOffer ==
  ASSUME RInv, NEW k \in 1 .. q.rounds, NEW e \in Egresses(k)
  PROVE  /\ ArrivalBy(k, e) \in Times
         /\ \E f \in BestEgresses(k) : ArrivalBy(k, f) <= ArrivalBy(k, e)
<1>1. q \in Queries /\ TablesOK /\ k \in Rounds
  <2>1. q \in Queries /\ TablesOK
    BY TablesTyped DEF RInv
  <2>2. \A n \in Nat : \A i \in 1 .. n : i \in 0 .. n
    OBVIOUS
  <2> QED BY <2>1, <2>2, RoundsType DEF Rounds
<1>2. ASSUME NEW f \in Egresses(k) PROVE ArrivalBy(k, f) \in Times
  <2>1. f \in q.egress /\ tau[k][f.stop] + f.duration < Unreached
    BY DEF Egresses
  <2>2. f.stop \in Stops /\ f.duration \in Nat
    BY <1>1, <2>1, QueriesAssumption DEF WellFormedRequest
  <2>3. tau[k][f.stop] \in 0 .. Unreached
    BY <1>1, <2>2 DEF TablesOK
  <2> QED BY <2>1, <2>2, <2>3, TimeAssumption DEF ArrivalBy, Times
<1> DEFINE arrivals == {ArrivalBy(k, f) : f \in Egresses(k)}
<1>3. PICK least \in arrivals : \A a \in arrivals : least <= a
  <2>1. arrivals \in SUBSET Nat
    BY <1>2, TimeAssumption DEF Times
  <2>2. arrivals # {}
    OBVIOUS
  <2> HIDE DEF arrivals
  <2> QED BY <2>1, <2>2, SmallestElement
<1>4. PICK f \in Egresses(k) : least = ArrivalBy(k, f)
  BY <1>3
<1>5. f \in BestEgresses(k)
  BY <1>3, <1>4 DEF BestEgresses
<1> QED BY <1>2, <1>3, <1>4, <1>5

\* What a round of collect is about, and what it leaves behind.
LEMMA CollectHere ==
  ASSUME RInv, Collect
  PROVE  /\ q \in Queries /\ TablesOK /\ q' = q /\ UNCHANGED <<tau, best, pass>>
         /\ pc = "collect" /\ pc' \in {"collect", "next pass"}
         /\ round \in 1 .. q.rounds /\ round \in Rounds /\ pass \in 1 .. Len(q.departures) /\ Now \in Times
         /\ \A k \in 1 .. q.rounds : Collected(k) => Collected(k)'
         /\ \A k \in 1 .. q.rounds : Collected(k)' => k <= round
         /\ \A k \in 1 .. q.rounds : k = round => Collected(k)'
<1>1. /\ q \in Queries /\ TablesOK /\ q' = q /\ UNCHANGED <<tau, best, pass>>
      /\ pc = "collect" /\ pc' \in {"collect", "next pass"}
  BY TablesTyped DEF RInv, Collect, tables
<1>2. round \in 1 .. q.rounds /\ round \in Rounds /\ q.rounds \in Nat
  <2>1. q.rounds \in Nat /\ round \in 0 .. q.rounds /\ round > 0
    BY <1>1, RoundsType DEF RInv, TypeOK, Rounds, InRound
  <2> QED BY <2>1 DEF Rounds
<1>3. pass \in 1 .. Len(q.departures)
  <2>1. pass \in 0 .. Len(q.departures) /\ pass > 0
    BY <1>1 DEF RInv, TypeOK, InRound
  <2>2. Len(q.departures) \in Nat
    BY <1>1, DeparturesSeq
  <2> QED BY <2>1, <2>2
<1>4. Now \in Times
  BY <1>1, <1>3, DeparturesSeq, ElementOfSeq DEF Now
<1>5. \/ round = q.rounds /\ pc' = "next pass" /\ round' = round
      \/ round # q.rounds /\ pc' = "collect" /\ round' = round + 1
  BY <1>1 DEF Collect
<1>6. ASSUME NEW k \in 1 .. q.rounds
      PROVE  /\ k <= round => Collected(k)'
             /\ Collected(k)' => k <= round
  <2>1. k \in Int /\ round \in Int /\ k <= q.rounds
    BY <1>2
  <2>2. CASE round = q.rounds /\ pc' = "next pass"
    BY <2>1, <2>2 DEF Collected
  <2>3. CASE pc' = "collect" /\ round' = round + 1
    BY <2>1, <2>3 DEF Collected
  <2> QED BY <1>5, <2>2, <2>3
<1>7. \A k : Collected(k) => k < round
  BY <1>1 DEF Collected
<1>8. \A k \in 1 .. q.rounds : k <= round <=> k < round \/ k = round
  BY <1>2
<1> QED BY <1>1, <1>2, <1>3, <1>4, <1>6, <1>7, <1>8

\* A round that emits nothing had nothing better to offer.
LEMMA EmittedNothing ==
  ASSUME RInv, EInv, Collect, EmitNothing
  PROVE  EInv'
<1>1. RInv'
  BY InvCollect
<1>2. \A k \in Rounds : Collected(k) => Collected(k)'
  <2>1. Collected(0)'
    <3>1. \A n \in Nat : \A i \in 1 .. n : 0 < i /\ 0 < i + 1
      OBVIOUS
    <3>2. 0 < round /\ 0 < round + 1
      BY <3>1, CollectHere, RoundsType
    <3> QED BY <3>2 DEF Collect, Collected
  <2>2. \A n \in Nat : \A k \in 0 .. n : k = 0 \/ k \in 1 .. n
    OBVIOUS
  <2> QED BY <2>1, <2>2, CollectHere, RoundsType DEF Rounds
<1>3. OffersTaken'
  <2> SUFFICES ASSUME NEW k \in 1 .. q.rounds, NEW e \in Egresses(k)
               PROVE  \/ thresholds[k] <= ArrivalBy(k, e)
                      \/ pc' \in InRound /\ ~Collected(k)' /\ tau[k][e.stop] < best[0][e.stop]
    BY CollectHere DEF OffersTaken, EmitNothing, emitted, Egresses, ArrivalBy
  <2>1. CASE k = round
    <3>1. PICK f \in BestEgresses(k) : ArrivalBy(k, f) <= ArrivalBy(k, e)
      BY BestOffer
    <3>2. ArrivalBy(k, f) \in Int /\ ArrivalBy(k, e) \in Int
      <4>1. f \in Egresses(k)
        BY <3>1 DEF BestEgresses
      <4> QED BY <4>1, BestOffer DEF Times
    <3>3. ~(ArrivalBy(k, f) < thresholds[k])
      BY <2>1, <3>1 DEF EmitNothing, Beats
    <3>4. thresholds[k] \in Int
      <4>1. thresholds \in [Rounds -> 0 .. Unreached] /\ k \in Rounds
        BY <2>1, CollectHere DEF RInv, TypeOK
      <4> QED BY <4>1
    <3> QED BY <3>1, <3>2, <3>3, <3>4
  <2>2. CASE k # round /\ Collected(k)
    BY <2>2 DEF EInv, OffersTaken
  <2>3. CASE k # round /\ ~Collected(k)
    <3>1. ~(k <= round)
      <4>1. \A n \in Nat : \A i \in 1 .. n : i \in Int
        OBVIOUS
      <4>2. k \in Int /\ round \in Int
        BY <4>1, CollectHere, RoundsType
      <4>3. ~(k < round)
        BY <2>3, CollectHere DEF Collected
      <4> QED BY <2>3, <4>2, <4>3
    <3>2. ~Collected(k)'
      BY <3>1, CollectHere
    <3>3. pc' \in InRound
      BY <3>2, CollectHere DEF Collected, InRound
    <3> QED BY <3>2, <3>3 DEF EInv, OffersTaken
  <2> QED BY <2>1, <2>2, <2>3
<1> QED BY <1>1, <1>2, <1>3, CollectHere, EmittedStays DEF EInv, EmitNothing

\* An emitted journey leaves no later than those before it, and arrives sooner
\* than those of as few rides.
LEMMA EmittedUndominated ==
  ASSUME RInv, EInv, Collect, NEW n, n.departure = Now, n.rides = round, n.arrival \in Times, Beats(n.arrival)
  PROVE  R!Undominated(journeys \cup {n})
<1>1. ASSUME NEW j \in journeys
      PROVE  /\ ~(n.departure >= j.departure /\ n.arrival <= j.arrival /\ n.rides <= j.rides)
             /\ ~(j.departure >= n.departure /\ j.arrival <= n.arrival /\ j.rides <= n.rides)
  <2>1. PICK i \in 1 .. pass : j.departure = q.departures[i] /\ (i = pass => Collected(j.rides))
    BY DEF EInv, EmittedInTurn
  <2>2. /\ q \in Queries /\ pass \in 1 .. Len(q.departures) /\ Now \in Times /\ pc = "collect"
        /\ round \in 1 .. q.rounds /\ round \in Rounds /\ q.rounds \in Nat /\ Len(q.departures) \in Nat
    BY CollectHere, RoundsType, DeparturesSeq
  <2>3. j.departure \in Times /\ j.arrival \in Times /\ j.rides \in Int /\ round \in Int
    <3>1. j.departure \in Times /\ j.arrival \in Times /\ j.rides \in 1 .. q.rounds
      BY DEF RInv, TypeOK
    <3> QED BY <2>2, <3>1, FromOne
  <2>4. CASE i = pass
    <3>1. j.departure = Now /\ j.rides < round
      BY <2>1, <2>2, <2>4 DEF Collected, Now
    <3>2. thresholds[round] <= j.arrival
      BY <2>2, <2>3, <3>1 DEF EInv, BarsMet
    <3>3. thresholds[round] \in Int
      <4>1. thresholds \in [Rounds -> 0 .. Unreached]
        BY DEF RInv, TypeOK
      <4> QED BY <2>2, <4>1
    <3> QED BY <2>3, <3>1, <3>2, <3>3 DEF Beats, Times
  <2>5. CASE i # pass
    <3>1. i < pass /\ i \in 1 .. Len(q.departures)
      BY <2>1, <2>2, <2>5
    <3>2. Now < j.departure
      BY <2>1, <2>2, <3>1, QueriesAssumption DEF WellFormedRequest, Now
    <3>3. j.rides <= round => thresholds[round] <= j.arrival
      BY <2>2 DEF EInv, BarsMet
    <3>4. thresholds[round] \in Int
      <4>1. thresholds \in [Rounds -> 0 .. Unreached]
        BY DEF RInv, TypeOK
      <4> QED BY <2>2, <4>1
    <3> QED BY <2>2, <2>3, <3>2, <3>3, <3>4 DEF Beats, Times
  <2> QED BY <2>4, <2>5
<1>2. \A i, j \in journeys : /\ i.departure >= j.departure /\ i.arrival <= j.arrival /\ i.rides <= j.rides
                             => i = j
  BY DEF EInv, JourneysPareto, R!Undominated
<1> QED BY <1>1, <1>2 DEF R!Undominated

\* It was found by the pass at work, so it beats walking to its egress stop.
LEMMA EmittedBeatsWalking ==
  ASSUME RInv, CInv, EInv, Collect, NEW e \in Egresses(round), Beats(ArrivalBy(round, e)),
         NEW a \in q.access, a.stop = e.stop
  PROVE  ArrivalBy(round, e) < Now + a.duration + e.duration
<1>1. /\ q \in Queries /\ TablesOK /\ pass \in 1 .. Len(q.departures) /\ Now \in Times /\ pc = "collect"
      /\ round \in 1 .. q.rounds /\ round \in Rounds
  BY CollectHere
<1>2. /\ e \in q.egress /\ e.stop \notin q.excluded /\ e.stop \in Stops /\ e.duration \in Nat /\ a.duration \in Nat
      /\ tau[round][e.stop] + e.duration < Unreached
  BY <1>1, QueriesAssumption DEF Egresses, WellFormedRequest
<1>3. tau[round][e.stop] \in 0 .. Unreached /\ best[0][e.stop] \in 0 .. Unreached /\ Unreached \in Nat
  BY <1>1, <1>2, RoundsType, TimeAssumption DEF TablesOK
<1>4. tau[round][e.stop] < best[0][e.stop]
  <2>1. ~(thresholds[round] <= ArrivalBy(round, e))
    <3>1. thresholds[round] \in Int
      <4>1. thresholds \in [Rounds -> 0 .. Unreached]
        BY DEF RInv, TypeOK
      <4> QED BY <1>1, <4>1
    <3>2. ArrivalBy(round, e) \in Int
      BY <1>2, <1>3 DEF ArrivalBy
    <3> QED BY <3>1, <3>2 DEF Beats
  <2> QED BY <1>1, <2>1 DEF EInv, OffersTaken
<1>5. Now + a.duration < Unreached => best[0][e.stop] <= Now + a.duration
  <2>1. AccessServed
    BY <1>1, ClosedServes DEF PassClosed
  <2>2. pass \in 1 .. pass
    BY <1>1, DeparturesSeq
  <2> QED BY <1>2, <2>1, <2>2 DEF AccessServed, Now
<1>6. PICK t, walk, now, duration, end \in Nat :
        /\ t = tau[round][e.stop] /\ walk = a.duration /\ now = Now /\ duration = e.duration /\ end = Unreached
  <2>1. Now \in Nat
    BY <1>1 DEF Times
  <2>2. tau[round][e.stop] \in Nat
    BY <1>3
  <2> QED BY <1>2, <1>3, <2>1, <2>2
<1>7. PICK bound \in Nat : bound = best[0][e.stop]
  BY <1>3
<1>8. t + duration < end /\ t < bound /\ (now + walk < end => bound <= now + walk)
  BY <1>2, <1>4, <1>5, <1>6, <1>7
<1>9. t + duration < now + walk + duration
  BY <1>6, <1>7, <1>8
<1> QED BY <1>6, <1>9 DEF ArrivalBy

LEMMA EmittedJourney ==
  ASSUME RInv, CInv, EInv, Collect, EmitJourney
  PROVE  EInv'
<1>1. PICK e \in BestEgresses(round) :
        /\ Beats(ArrivalBy(round, e))
        /\ thresholds' = [k \in Rounds |-> Bar(k, ArrivalBy(round, e))]
        /\ journeys' = journeys \cup {[departure |-> Now, arrival |-> ArrivalBy(round, e), rides |-> round,
                                       egress |-> e, legs |-> Legs[<<round, e.stop>>]]}
  BY DEF EmitJourney
<1> DEFINE arrival == ArrivalBy(round, e)
           n == [departure |-> Now, arrival |-> arrival, rides |-> round, egress |-> e, legs |-> Legs[<<round, e.stop>>]]
<1>2. /\ n.departure = Now /\ n.arrival = arrival /\ n.rides = round /\ n.egress = e /\ journeys' = journeys \cup {n}
  BY <1>1
<1> HIDE DEF n
<1>3. /\ q \in Queries /\ q' = q /\ pass' = pass /\ Rounds' = Rounds /\ round \in Rounds /\ round \in 1 .. q.rounds
      /\ pass \in 1 .. Len(q.departures) /\ q.rounds \in Nat /\ Rounds \subseteq Nat /\ pass \in Nat /\ pc = "collect"
      /\ tau' = tau /\ best' = best
  <2>1. /\ q \in Queries /\ q' = q /\ pass' = pass /\ round \in Rounds /\ round \in 1 .. q.rounds
        /\ pass \in 1 .. Len(q.departures) /\ pc = "collect" /\ tau' = tau /\ best' = best
    BY CollectHere
  <2>2. q.rounds \in Nat /\ Rounds \subseteq Nat /\ Len(q.departures) \in Nat
    BY <2>1, RoundsType, DeparturesSeq
  <2>3. pass \in Nat
    BY <2>1, <2>2
  <2> QED BY <2>1, <2>2, <2>3 DEF Rounds
<1>4. e \in Egresses(round) /\ arrival \in Times
  BY <1>1, <1>3, BestOffer DEF BestEgresses
<1> HIDE DEF arrival
<1>5. \A k \in Rounds : /\ thresholds[k] \in 0 .. Unreached
                        /\ thresholds'[k] = IF k >= round /\ arrival < thresholds[k] THEN arrival ELSE thresholds[k]
  BY <1>1 DEF RInv, TypeOK, Bar, arrival
<1>6. \A k \in Rounds : /\ thresholds'[k] <= thresholds[k]
                        /\ k >= round => thresholds'[k] <= arrival
  BY <1>4, <1>5, TimeAssumption DEF Times
<1>7. BarsMet'
  <2> SUFFICES ASSUME NEW j \in journeys \cup {n}, NEW k \in Rounds, j.rides <= k PROVE thresholds'[k] <= j.arrival
    BY <1>2, <1>3 DEF BarsMet
  <2>1. CASE j = n
    BY <1>2, <1>3, <1>6, <2>1
  <2>2. CASE j \in journeys
    <3>1. thresholds[k] <= j.arrival
      BY <2>2 DEF EInv, BarsMet
    <3>2. j.arrival \in Times
      BY <2>2 DEF RInv, TypeOK
    <3>3. thresholds'[k] <= thresholds[k] /\ thresholds[k] \in Int /\ thresholds'[k] \in Int
      BY <1>4, <1>5, <1>6 DEF Times
    <3> QED BY <3>1, <3>2, <3>3 DEF Times
  <2> QED BY <2>1, <2>2
<1>8. BarsEmitted'
  <2> SUFFICES ASSUME NEW k \in Rounds, thresholds'[k] < Unreached
               PROVE  \E j \in journeys \cup {n} : j.rides <= k /\ j.arrival <= thresholds'[k]
    BY <1>2, <1>3 DEF BarsEmitted
  <2>1. CASE thresholds'[k] = thresholds[k]
    BY <2>1 DEF EInv, BarsEmitted
  <2>2. CASE thresholds'[k] # thresholds[k]
    BY <1>2, <1>3, <1>4, <1>5, <2>2 DEF Times
  <2> QED BY <2>1, <2>2
<1>9. EmittedInTurn'
  <2> SUFFICES ASSUME NEW j \in journeys \cup {n}
               PROVE  \E i \in 1 .. pass : j.departure = q.departures[i] /\ (i = pass => Collected(j.rides)')
    BY <1>2, <1>3 DEF EmittedInTurn, Collected
  <2>1. CASE j \in journeys
    <3>1. PICK i \in 1 .. pass : j.departure = q.departures[i] /\ (i = pass => Collected(j.rides))
      BY <2>1 DEF EInv, EmittedInTurn
    <3>2. j.rides \in 1 .. q.rounds
      BY <2>1 DEF RInv, TypeOK
    <3> QED BY <3>1, <3>2, CollectHere
  <2>2. CASE j = n
    <3>1. Collected(j.rides)'
      <4>1. j.rides = round
        BY <1>2, <2>2
      <4> QED BY <1>3, <4>1, CollectHere
    <3>2. pass \in 1 .. pass
      BY <1>3, DeparturesSeq
    <3> QED BY <1>2, <2>2, <3>1, <3>2 DEF Now
  <2> QED BY <2>1, <2>2
<1>10. OffersTaken'
  <2> SUFFICES ASSUME NEW k \in 1 .. q.rounds, NEW f \in Egresses(k)
               PROVE  \/ thresholds'[k] <= ArrivalBy(k, f)
                      \/ pc' \in InRound /\ ~Collected(k)' /\ tau[k][f.stop] < best[0][f.stop]
    BY <1>3 DEF OffersTaken, Egresses, ArrivalBy
  <2>1. k \in Rounds /\ k \in Int /\ round \in Int /\ ArrivalBy(k, f) \in Times
    BY <1>3, BestOffer, FromOne DEF Rounds
  <2>2. thresholds'[k] \in Int /\ thresholds[k] \in Int /\ thresholds'[k] <= thresholds[k]
    BY <1>4, <1>5, <1>6, <2>1 DEF Times
  <2>3. CASE k = round
    <3>1. arrival <= ArrivalBy(k, f)
      BY <1>1, <2>3 DEF BestEgresses, arrival
    <3>2. thresholds'[k] <= arrival
      BY <1>6, <2>1, <2>3
    <3> QED BY <1>4, <2>1, <2>2, <3>1, <3>2 DEF Times
  <2>4. CASE thresholds[k] <= ArrivalBy(k, f)
    BY <2>1, <2>2, <2>4 DEF Times
  <2>5. CASE k # round /\ ~(thresholds[k] <= ArrivalBy(k, f))
    <3>1. ~Collected(k) /\ tau[k][f.stop] < best[0][f.stop]
      BY <2>5 DEF EInv, OffersTaken
    <3>2. ~(k <= round)
      BY <1>3, <2>1, <2>5, <3>1 DEF Collected
    <3>3. ~Collected(k)'
      BY <3>2, CollectHere
    <3>4. pc' \in InRound
      BY <3>3, CollectHere DEF Collected, InRound
    <3> QED BY <3>1, <3>3, <3>4
  <2> QED BY <2>3, <2>4, <2>5
<1>11. R!Undominated(journeys')
  BY <1>1, <1>2, <1>4, EmittedUndominated DEF arrival
<1>12. R!BeatWalking(q, journeys')
  <2> SUFFICES ASSUME NEW j \in journeys \cup {n}, NEW a \in q.access, a.stop = j.egress.stop
               PROVE  j.arrival < j.departure + a.duration + j.egress.duration
    BY <1>2 DEF R!BeatWalking
  <2>1. CASE j \in journeys
    BY <2>1 DEF EInv, JourneysPareto, R!BeatWalking
  <2>2. CASE j = n
    BY <1>1, <1>2, <1>4, <2>2, EmittedBeatsWalking DEF arrival
  <2> QED BY <2>1, <2>2
<1>13. JourneysPareto'
  <2>1. R!BeatWalking(q, journeys)'
    BY <1>3, <1>12 DEF R!BeatWalking
  <2>2. R!Undominated(journeys)'
    BY <1>11 DEF R!Undominated
  <2> QED BY <2>1, <2>2 DEF JourneysPareto
<1> QED BY <1>7, <1>8, <1>9, <1>10, <1>13 DEF EInv

LEMMA EmittedInit == Init => EInv
<1> SUFFICES ASSUME Init PROVE EInv
  OBVIOUS
<1>1. journeys = {} /\ q \in Queries /\ thresholds = [k \in Rounds |-> Unreached] /\ tau = AllUnreached
  BY DEF Init
<1>2. BarsMet /\ BarsEmitted /\ EmittedInTurn /\ JourneysPareto
  BY <1>1, TimeAssumption DEF BarsMet, BarsEmitted, EmittedInTurn, JourneysPareto, R!Undominated, R!BeatWalking
<1>3. OffersTaken
  <2> SUFFICES ASSUME NEW k \in 1 .. q.rounds, NEW e \in Egresses(k) PROVE FALSE
    BY DEF OffersTaken
  <2>1. k \in Rounds
    BY <1>1, FromOne, RoundsType DEF Rounds
  <2>2. e.stop \in Stops
    BY <1>1, QueriesAssumption DEF Egresses, WellFormedRequest
  <2> QED BY <1>1, <2>1, <2>2 DEF AllUnreached, Egresses
<1> QED BY <1>2, <1>3 DEF EInv

LEMMA EmittedNext == RInv /\ CInv /\ EInv /\ [Next]_vars => EInv'
<1> SUFFICES ASSUME RInv, CInv, EInv, [Next]_vars PROVE EInv'
  OBVIOUS
<1>1. RInv' /\ round \in Rounds
  BY InvNext DEF RInv, TypeOK
<1>2. CASE StartPass
  BY <1>2, EmittedStartPass
<1>3. CASE \E a \in pending : SeedAccess(a)
  BY <1>3, EmittedSeedAccess
<1>4. CASE CollectPatterns
  BY <1>1, <1>4, EmittedQuiet DEF CollectPatterns, tables, InRound
<1>5. CASE \E p \in DOMAIN queue_position : DequeuePattern(p)
  BY <1>1, <1>5, EmittedQuiet DEF DequeuePattern, tables, InRound, InScan
<1>6. CASE \E stream \in Streams : Alight(stream)
  <2>1. PICK d \in Streams : Alight(d)
    BY <1>6
  <2>2. PICK l \in Labels, arrival \in Nat, contested \in BOOLEAN :
           \/ UNCHANGED tables
           \/ /\ arrival \in Times
              /\ Explains(round, StopHere, arrival, l)
              /\ Record(round, StopHere, arrival, l, contested)
    BY <2>1, AlightRelaxes
  <2>3. /\ q' = q /\ UNCHANGED <<emitted, pass>> /\ pc \in InScan /\ pc' \in InScan /\ StopHere \in Stops
    BY <2>1, ScanHere DEF Alight, InScan
  <2>4. pc \in InRound /\ pc # "collect" /\ pc' \in InRound /\ pc' # "collect"
    BY <2>3 DEF InRound, InScan
  <2> QED BY <1>1, <2>2, <2>3, <2>4, EmittedRecord
<1>7. CASE Board
  BY <1>1, <1>7, EmittedQuiet DEF Board, tables, InRound, InScan
<1>8. CASE StartWalking
  BY <1>1, <1>8, EmittedQuiet DEF StartWalking, tables, InRound, InScan
<1>9. CASE \E w \in pending : Walk(w)
  <2>1. PICK w \in pending : Walk(w)
    BY <1>9
  <2>2. PICK l \in Labels, arrival \in Nat, contested \in BOOLEAN :
           /\ round \in Rounds /\ w.to \in Stops
           /\ \/ UNCHANGED tables
              \/ /\ arrival \in Times
                 /\ Explains(round, w.to, arrival, l)
                 /\ Record(round, w.to, arrival, l, contested)
    BY <2>1, WalkRelaxes
  <2>3. q' = q /\ UNCHANGED <<emitted, pass>> /\ pc = "walk" /\ pc' = "walk"
    BY <2>1 DEF Walk
  <2>4. pc \in InRound /\ pc # "collect" /\ pc' \in InRound /\ pc' # "collect"
    BY <2>3 DEF InRound
  <2> QED BY <1>1, <2>2, <2>3, <2>4, EmittedRecord
<1>10. CASE EndRound
  BY <1>1, <1>10, EmittedQuiet DEF EndRound, tables, InRound
<1>11. CASE Collect
  BY <1>11, EmittedNothing, EmittedJourney DEF Collect
<1>12. CASE Finish
  BY <1>12, EmittedFinish
<1>13. CASE Done \/ UNCHANGED vars
  BY <1>13, EmittedStutter DEF Done
<1> QED BY <1>2, <1>3, <1>4, <1>5, <1>6, <1>7, <1>8, <1>9, <1>10, <1>11, <1>12, <1>13 DEF Next

LEMMA EmittedAlways == Spec => []EInv
<1>1. Init => RInv /\ CInv /\ EInv
  BY InvInit, ClosedInit, EmittedInit
<1>2. RInv /\ CInv /\ EInv /\ [Next]_vars => RInv' /\ CInv' /\ EInv'
  BY InvNext, ClosedNext, EmittedNext
<1> QED BY <1>1, <1>2, PTL DEF Spec

\* The journeys emitted are a Pareto frontier, whatever the passes before left
\* in the tables: an arrival of a later departure is offered only once, and
\* none that walking to its egress stop would beat is (search.rs, collect).
THEOREM RaptorJourneysPareto == Spec => []JourneysPareto
<1>1. EInv => JourneysPareto
  BY DEF EInv
<1> QED BY <1>1, EmittedAlways, PTL

----------------------------------------------------------------------------
(* An instant of the window, compared with the passes of its candidates.   *)

LEMMA LeastIs ==
  ASSUME NEW S \in SUBSET Nat, S # {}
  PROVE  R!Min(S) \in S /\ \A x \in S : R!Min(S) <= x
<1>1. PICK m \in S : \A x \in S : m <= x
  BY SmallestElement
<1>2. R!Min(S) = m
  BY <1>1, MinimumIs
<1> QED BY <1>1, <1>2

\* A ride of the reference leaves no earlier than its stop is reached, and
\* arrives no earlier than it leaves.
LEMMA RideArrivalTimes ==
  ASSUME q \in Queries, NEW g \in [Stops -> Nat], NEW x \in R!RideArrivals(q, g)
  PROVE  x[2] \in Nat
<1>1. PICK r \in R!PossibleRides(q) :
        /\ R!StopAt(q, r, r.alight) \notin q.excluded
        /\ g[R!StopAt(q, r, r.board)] <= R!BoardedAt(q, r)
        /\ x[2] = R!AlightedAt(q, r)
  BY DEF R!RideArrivals
<1>2. PICK d, t, board, alight : d = r.stream /\ t = r.trip /\ board = r.board /\ alight = r.alight
  OBVIOUS
<1>3. StopAt(t, alight) \notin q.excluded
  BY <1>1, <1>2 DEF R!StopAt, StopAt, StopsOf
<1>4. /\ Ridable(d, t, board, alight)
      /\ g[StopAt(t, board)] <= q.departure[t][board] - Offset(d)
      /\ x[2] = ArrivesAt(d, t, alight)
  BY <1>1, <1>2, <1>3, PossibleRide
<1>5. /\ t \in q.trips /\ StopAt(t, board) \in Stops /\ Offset(d) \in Nat /\ t \in Twins(d, t, board)
      /\ board < alight
  BY <1>4, RidableFacts
<1>6. q.departure[t][board] \in Nat /\ q.arrival[t][alight] \in Nat
  BY <1>4, <1>5, RidableFacts
<1>7. q.departure[t][board] <= q.arrival[t][alight]
  BY <1>4, <1>5, QueriesAssumption DEF WellFormedTimetable, Ridable, StopsOf
<1>8. g[StopAt(t, board)] \in Nat
  BY <1>5
<1> QED BY <1>4, <1>5, <1>6, <1>7, <1>8 DEF ArrivesAt

LEMMA FurtherIs ==
  ASSUME q \in Queries, NEW g \in [Stops -> Nat], NEW s \in Stops
  PROVE  LET rides == R!RideArrivals(q, g)
             at == R!Further(q, g)[s]
         IN  /\ at \in Nat /\ at <= g[s]
             /\ at # g[s] => <<s, at>> \in rides \cup R!WalkArrivals(q, rides)
             /\ \A x \in rides \cup R!WalkArrivals(q, rides) : x[1] = s => at <= x[2]
<1> DEFINE rides == R!RideArrivals(q, g)
           arrivals == rides \cup R!WalkArrivals(q, rides)
           times == {g[s]} \cup {x[2] : x \in {x \in arrivals : x[1] = s}}
<1>1. R!Further(q, g)[s] = R!Min(times)
  BY DEF R!Further
<1>2. ASSUME NEW x \in arrivals PROVE x[2] \in Nat /\ x = <<x[1], x[2]>>
  <2>1. CASE x \in rides
    BY <2>1, RideArrivalTimes DEF R!RideArrivals
  <2>2. CASE x \in R!WalkArrivals(q, rides)
    <3>1. PICK y \in rides \X q.transfers : x = <<y[2].to, y[1][2] + y[2].duration>>
      BY <2>2 DEF R!WalkArrivals
    <3>2. y[1][2] \in Nat /\ y[2].duration \in Nat
      <4>1. y[1] \in rides /\ y[2] \in q.transfers
        BY <3>1
      <4> QED BY <4>1, RideArrivalTimes, QueriesAssumption DEF WellFormedTransfers
    <3> QED BY <3>1, <3>2
  <2> QED BY <2>1, <2>2
<1> HIDE DEF arrivals
<1>3. times \in SUBSET Nat /\ g[s] \in times
  BY <1>2
<1>4. R!Min(times) \in times /\ \A t \in times : R!Min(times) <= t
  BY <1>3, LeastIs
<1>5. R!Min(times) # g[s] => <<s, R!Min(times)>> \in arrivals
  BY <1>2, <1>4
<1>6. \A x \in arrivals : x[1] = s => R!Min(times) <= x[2]
  BY <1>4
<1> HIDE DEF times
<1> QED BY <1>1, <1>3, <1>4, <1>5, <1>6 DEF arrivals

LEMMA StartedIs ==
  ASSUME q \in Queries, NEW d \in Nat
  PROVE  /\ R!Started(q, {d}) \in [Stops -> Nat]
         /\ \A s \in Stops :
              LET at == R!Started(q, {d})[s] IN
              /\ at <= Unreached
              /\ at # Unreached => \E a \in q.access : a.stop = s /\ s \notin q.excluded /\ at = d + a.duration
              /\ \A a \in q.access : a.stop = s /\ s \notin q.excluded => at <= d + a.duration
<1> DEFINE links(s) == {a \in q.access : a.stop = s /\ s \notin q.excluded}
           times(s) == {Unreached} \cup {c + a.duration : c \in {d}, a \in links(s)}
<1>1. R!Started(q, {d}) = [s \in Stops |-> R!Min(times(s))]
  BY DEF R!Started
<1>2. \A a \in q.access : a.duration \in Nat
  BY QueriesAssumption DEF WellFormedRequest
<1>3. ASSUME NEW s \in Stops
      PROVE  /\ R!Min(times(s)) \in Nat /\ R!Min(times(s)) <= Unreached
             /\ R!Min(times(s)) # Unreached => \E a \in links(s) : R!Min(times(s)) = d + a.duration
             /\ \A a \in links(s) : R!Min(times(s)) <= d + a.duration
  <2>1. times(s) \in SUBSET Nat /\ Unreached \in times(s)
    BY <1>2, TimeAssumption
  <2>2. R!Min(times(s)) \in times(s) /\ \A t \in times(s) : R!Min(times(s)) <= t
    <3> HIDE DEF times
    <3> QED BY <2>1, LeastIs
  <2>3. \A a \in links(s) : d + a.duration \in times(s)
    OBVIOUS
  <2>4. R!Min(times(s)) # Unreached => \E a \in links(s) : R!Min(times(s)) = d + a.duration
    BY <2>2
  <2> HIDE DEF times, links
  <2> QED BY <2>1, <2>2, <2>3, <2>4
<1> HIDE DEF times
<1>4. \A s \in Stops : R!Started(q, {d})[s] = R!Min(times(s))
  BY <1>1
<1>5. R!Started(q, {d}) \in [Stops -> Nat]
  BY <1>1, <1>3
<1>6. ASSUME NEW s \in Stops
      PROVE  LET at == R!Started(q, {d})[s] IN
             /\ at <= Unreached
             /\ at # Unreached => \E a \in q.access : a.stop = s /\ s \notin q.excluded /\ at = d + a.duration
             /\ \A a \in q.access : a.stop = s /\ s \notin q.excluded => at <= d + a.duration
  BY <1>3, <1>4
<1> QED BY <1>5, <1>6

----------------------------------------------------------------------------
(* Every instant of the window is answered by the passes of its candidates. *)

\* The candidates of n cover D: whatever can be boarded straight from the
\* origin, leaving at an instant of D, a candidate no earlier is in time for.
Covers(n, D) ==
  /\ D \subseteq Nat
  /\ \A d \in D :
       /\ \E c \in 1 .. Len(n.departures) : d <= n.departures[c]
       /\ \A a \in n.access, stream \in Streams : \A t \in n.usable[stream] :
            \A i \in 1 .. Len(n.departure[t]) - 1 :
              /\ n.pattern_stops[n.trip_pattern[t]][i] = a.stop
              /\ d + a.duration <= n.departure[t][i] - Offset(stream)
              => \E c \in 1 .. Len(n.departures) :
                   d <= n.departures[c] /\ n.departures[c] + a.duration <= n.departure[t][i] - Offset(stream)

\* The candidates at d or later are those up to the i-th.
LastFor(i, d) == \A c \in 1 .. Len(q.departures) : d <= q.departures[c] <=> c <= i

\* What the tables are to a single departure's, after the pass of the last of
\* its candidates: as good, or the departure has not left the access stop.
AsGood(k, g, d) ==
  /\ g \in [Stops -> Nat]
  /\ \A s \in Stops : /\ g[s] <= R!Started(q, {d})[s]
                      /\ best[k][s] <= g[s] \/ g[s] = R!Started(q, {d})[s]

LEMMA InstantRides ==
  ASSUME RInv, CInv, pc = "collect", Covers(q, q.window), NEW d \in q.window, LastFor(pass, d),
         NEW k \in Rounds, NEW g, AsGood(k, g, d)
  PROVE  R!RideArrivals(q, g) \subseteq R!RideArrivals(q, best[k])
<1> SUFFICES ASSUME NEW x \in R!RideArrivals(q, g) PROVE x \in R!RideArrivals(q, best[k])
  OBVIOUS
<1>1. PICK r \in R!PossibleRides(q) :
        /\ R!StopAt(q, r, r.alight) \notin q.excluded
        /\ g[R!StopAt(q, r, r.board)] # Unreached
        /\ g[R!StopAt(q, r, r.board)] <= R!BoardedAt(q, r)
        /\ x = <<R!StopAt(q, r, r.alight), R!AlightedAt(q, r)>>
  BY DEF R!RideArrivals
<1>2. PICK stream, t, board, alight : stream = r.stream /\ t = r.trip /\ board = r.board /\ alight = r.alight
  OBVIOUS
<1>3. q \in Queries /\ TablesOK /\ AccessServed /\ 0 \in Rounds /\ 0 <= k /\ Unreached \in Nat /\ d \in Nat
  <2>1. q \in Queries /\ TablesOK /\ AccessServed
    BY TablesTyped, ClosedServes DEF RInv, PassClosed
  <2>2. 0 <= k
    BY <2>1, RoundsType DEF Rounds
  <2> QED BY <2>1, <2>2, RoundsType, TimeAssumption DEF Covers
<1>4. StopAt(t, alight) \notin q.excluded
  BY <1>1, <1>2 DEF R!StopAt, StopAt, StopsOf
<1>5. /\ Ridable(stream, t, board, alight)
      /\ R!StopAt(q, r, r.board) = StopAt(t, board)
      /\ R!BoardedAt(q, r) = q.departure[t][board] - Offset(stream)
  BY <1>1, <1>2, <1>3, <1>4, PossibleRide
<1>6. PICK u \in Stops, at \in Int : u = StopAt(t, board) /\ at = q.departure[t][board] - Offset(stream)
  <2>1. StopAt(t, board) \in Stops /\ Offset(stream) \in Nat /\ t \in Twins(stream, t, board)
    BY <1>3, <1>5, RidableFacts
  <2>2. q.departure[t][board] \in Nat
    BY <1>3, <1>5, <2>1, RidableFacts
  <2> QED BY <2>1, <2>2
<1>7. g[u] \in Nat /\ g[u] # Unreached /\ g[u] <= at
  BY <1>1, <1>5, <1>6 DEF AsGood
<1>8. at < Unreached
  <2>1. q.departure[t][board] \in Nat /\ q.departure[t][board] < Unreached /\ Offset(stream) \in Nat
    <3>1. t \in q.trips /\ board \in 1 .. Len(StopsOf(q.trip_pattern[t])) /\ Offset(stream) \in Nat /\ t \in Twins(stream, t, board)
      BY <1>3, <1>5, RidableFacts DEF Ridable
    <3>2. q.departure[t][board] \in Nat
      BY <1>3, <1>5, <3>1, RidableFacts
    <3> QED BY <1>3, <3>1, <3>2, QueriesAssumption DEF WellFormedTimetable, StopsOf
  <2> QED BY <1>3, <1>6, <2>1
<1>9. best[k][u] \in Int /\ best[0][u] \in Int /\ best[k][u] <= best[0][u]
  BY <1>3, <1>6, BestFalls
<1>10. best[k][u] <= at
  <2>1. CASE best[k][u] <= g[u]
    BY <1>6, <1>7, <1>9, <2>1
  <2>2. CASE g[u] = R!Started(q, {d})[u]
    <3>1. PICK a \in q.access : a.stop = u /\ u \notin q.excluded /\ g[u] = d + a.duration
      BY <1>3, <1>6, <1>7, <2>2, StartedIs
    <3>2. /\ stream \in Streams /\ t \in q.usable[stream] /\ board \in 1 .. Len(q.departure[t]) - 1
      <4>1. /\ stream \in Streams /\ t \in q.usable[stream] /\ t \in q.trips /\ board < alight
            /\ board \in 1 .. Len(StopsOf(q.trip_pattern[t])) /\ alight \in 1 .. Len(StopsOf(q.trip_pattern[t]))
        BY <1>3, <1>5, RidableFacts DEF Ridable
      <4>2. Len(q.departure[t]) = Len(StopsOf(q.trip_pattern[t])) /\ Len(StopsOf(q.trip_pattern[t])) \in Nat
        BY <1>3, <4>1, QueriesAssumption DEF WellFormedTimetable, StopsOf
      <4> QED BY <4>1, <4>2
    <3>3. q.pattern_stops[q.trip_pattern[t]][board] = a.stop /\ d + a.duration <= q.departure[t][board] - Offset(stream)
      BY <1>6, <1>7, <3>1 DEF StopAt, StopsOf
    <3>4. PICK c \in 1 .. Len(q.departures) :
            d <= q.departures[c] /\ q.departures[c] + a.duration <= q.departure[t][board] - Offset(stream)
      BY <3>2, <3>3 DEF Covers
    <3>5. c \in 1 .. pass
      <4>1. c <= pass
        BY <3>4 DEF LastFor
      <4>2. pass \in 0 .. Len(q.departures) /\ Len(q.departures) \in Nat
        BY <1>3, DeparturesSeq DEF RInv, TypeOK
      <4> QED BY <4>1, <4>2
    <3>6. best[0][u] <= q.departures[c] + a.duration
      <4>1. q.departures[c] + a.duration < Unreached
        <5>1. q.departures[c] \in Times /\ a.duration \in Nat
          BY <1>3, DeparturesSeq, ElementOfSeq, QueriesAssumption DEF WellFormedRequest
        <5> QED BY <1>3, <1>6, <1>8, <3>4, <5>1 DEF Times
      <4> QED BY <1>3, <3>1, <3>5, <4>1 DEF AccessServed
    <3>7. q.departures[c] + a.duration \in Int /\ q.departures[c] + a.duration <= at
      <4>1. q.departures[c] \in Times /\ a.duration \in Nat
        BY <1>3, DeparturesSeq, ElementOfSeq, QueriesAssumption DEF WellFormedRequest
      <4> QED BY <1>6, <3>4, <4>1 DEF Times
    <3> QED BY <1>6, <1>9, <3>6, <3>7
  <2> QED BY <1>6, <2>1, <2>2 DEF AsGood
<1>11. best[k][u] # Unreached
  BY <1>3, <1>6, <1>8, <1>9, <1>10
<1> QED BY <1>1, <1>5, <1>6, <1>10, <1>11 DEF R!RideArrivals

\* One round more keeps the tables as good.
LEMMA InstantRound ==
  ASSUME RInv, CInv, SInv, pc = "collect", TwinsAgree(q), AccessCloses(q), Covers(q, q.window),
         NEW d \in q.window, LastFor(pass, d), NEW k \in 1 .. q.rounds, NEW g, AsGood(k - 1, g, d)
  PROVE  AsGood(k, R!Further(q, g), d)
<1>1. q \in Queries /\ TablesOK /\ k \in Rounds /\ k - 1 \in Rounds /\ k - 1 <= k
  <2>1. q \in Queries /\ TablesOK
    BY TablesTyped DEF RInv
  <2>2. \A n \in Nat : \A j \in 1 .. n : j \in 0 .. n /\ j - 1 <= j
    OBVIOUS
  <2> QED BY <2>1, <2>2, RoundsType, RoundBefore DEF Rounds
<1>2. g \in [Stops -> Nat] /\ d \in Nat /\ R!Started(q, {d}) \in [Stops -> Nat]
  BY <1>1, StartedIs DEF AsGood, Covers
<1> DEFINE rides == R!RideArrivals(q, best[k - 1])
<1>3. R!RideArrivals(q, g) \subseteq rides
  BY <1>1, InstantRides
<1>4. R!WalkArrivals(q, R!RideArrivals(q, g)) \subseteq R!WalkArrivals(q, rides)
  BY <1>3 DEF R!WalkArrivals
<1>5. \A x \in rides : best[k][x[1]] <= x[2]
  BY RideArrives DEF Served
<1>6. \A x \in R!WalkArrivals(q, rides) : best[k][x[1]] <= x[2]
  BY WalkArrives
<1> HIDE DEF rides
<1>7. ASSUME NEW s \in Stops
      PROVE  /\ R!Further(q, g)[s] \in Nat
             /\ R!Further(q, g)[s] <= R!Started(q, {d})[s]
             /\ best[k][s] <= R!Further(q, g)[s] \/ R!Further(q, g)[s] = R!Started(q, {d})[s]
  <2>1. PICK at : at = R!Further(q, g)[s]
    OBVIOUS
  <2>2. at \in Nat /\ at <= g[s] /\ (at # g[s] => <<s, at>> \in rides \cup R!WalkArrivals(q, rides))
    BY <1>1, <1>2, <1>3, <1>4, <2>1, FurtherIs
  <2>3. g[s] \in Nat /\ R!Started(q, {d})[s] \in Nat /\ g[s] <= R!Started(q, {d})[s]
    BY <1>2 DEF AsGood
  <2>4. best[k][s] <= best[k - 1][s] /\ best[k][s] \in Int /\ best[k - 1][s] \in Int
    BY <1>1, BestFalls
  <2>5. CASE at = g[s]
    BY <2>1, <2>3, <2>4, <2>5, SMTT(30) DEF AsGood
  <2>6. CASE at # g[s]
    <3>1. best[k][s] <= at
      BY <1>5, <1>6, <2>2, <2>6
    <3> QED BY <2>1, <2>2, <2>3, <3>1
  <2> QED BY <2>5, <2>6
<1>8. R!Further(q, g) \in [Stops -> Nat]
  <2>1. \A s \in Stops : R!Further(q, g)[s] \in Nat
    BY <1>7
  <2> QED BY <2>1 DEF R!Further
<1> QED BY <1>7, <1>8 DEF AsGood

LEMMA InstantAsGood ==
  ASSUME RInv, CInv, SInv, pc = "collect", TwinsAgree(q), AccessCloses(q), Covers(q, q.window),
         NEW d \in q.window, LastFor(pass, d)
  PROVE  \A k \in Rounds : AsGood(k, R!Earliest(q, {d})[k], d)
<1>1. q \in Queries /\ q.rounds \in Nat /\ d \in Nat
  <2>1. q \in Queries
    BY DEF RInv, TypeOK
  <2>2. d \in Nat
    BY DEF Covers
  <2> QED BY <2>1, <2>2, RoundsType
<1> DEFINE earliest == R!Earliest(q, {d})
           worse == {k \in 0 .. q.rounds : ~AsGood(k, earliest[k], d)}
<1>2. AsGood(0, earliest[0], d)
  <2>1. earliest[0] = R!Started(q, {d})
    BY <1>1, EarliestRounds
  <2>2. R!Started(q, {d}) \in [Stops -> Nat]
    BY <1>1, StartedIs
  <2>3. \A n \in Nat : n <= n
    OBVIOUS
  <2>4. \A s \in Stops : earliest[0][s] <= R!Started(q, {d})[s]
    BY <2>1, <2>2, <2>3
  <2> QED BY <2>1, <2>2, <2>4 DEF AsGood
<1>3. ASSUME NEW k \in 1 .. q.rounds, AsGood(k - 1, earliest[k - 1], d) PROVE AsGood(k, earliest[k], d)
  <2>1. earliest[k] = R!Further(q, earliest[k - 1])
    BY <1>1, EarliestRounds
  <2> HIDE DEF earliest
  <2> QED BY <1>3, <2>1, InstantRound
<1> HIDE DEF earliest
<1>4. worse \in SUBSET Nat
  BY <1>1
<1>5. ASSUME worse # {} PROVE FALSE
  <2>1. PICK k \in worse : \A j \in worse : k <= j
    <3> HIDE DEF worse
    <3> QED BY <1>4, <1>5, SmallestElement
  <2>2. k \in 0 .. q.rounds /\ ~AsGood(k, earliest[k], d) /\ k # 0
    BY <1>2, <2>1
  <2>3. k \in 1 .. q.rounds /\ k - 1 \in 0 .. q.rounds /\ ~(k <= k - 1)
    BY <1>1, <2>2
  <2>4. AsGood(k - 1, earliest[k - 1], d)
    BY <2>1, <2>3
  <2> QED BY <1>3, <2>2, <2>3, <2>4
<1> QED BY <1>5 DEF Rounds, earliest

----------------------------------------------------------------------------
(* Every instant is answered once the pass of its last candidate is.       *)

\* What Complete asks of an instant and a number of rides.
Answered(d, k) ==
  LET earliest == R!Earliest(q, {d}) IN
  \A e \in q.egress :
    /\ earliest[k][e.stop] < earliest[0][e.stop]
    /\ earliest[k][e.stop] + e.duration < Unreached
    => \E j \in journeys : /\ j.departure >= d
                           /\ j.arrival <= earliest[k][e.stop] + e.duration
                           /\ j.rides <= k
Asked(i, k) == i < pass \/ Collected(k)
AnsweredInTurn ==
  \A d \in q.window, i \in 1 .. pass : LastFor(i, d) =>
    \A k \in 1 .. q.rounds : Asked(i, k) => Answered(d, k)
FInv ==
  /\ TwinsAgree(q) /\ AccessCloses(q) /\ Covers(q, q.window) => AnsweredInTurn
  /\ pc = "done" => pass = Len(q.departures)

\* An answer stays one.
LEMMA AnswerStays ==
  ASSUME q' = q, journeys \subseteq journeys', NEW d, NEW k, Answered(d, k)
  PROVE  Answered(d, k)'
BY DEF Answered

LEMMA AnswersStay ==
  ASSUME q' = q, journeys' = journeys, FInv, pc' = "done" => pass' = Len(q'.departures),
         \A i \in 1 .. pass' : \A k \in 1 .. q.rounds : Asked(i, k)' => i \in 1 .. pass /\ Asked(i, k)
  PROVE  FInv'
<1> SUFFICES ASSUME TwinsAgree(q), AccessCloses(q), Covers(q, q.window),
                    NEW d \in q.window, NEW i \in 1 .. pass', LastFor(i, d), NEW k \in 1 .. q.rounds, Asked(i, k)'
             PROVE  Answered(d, k)'
  BY DEF FInv, AnsweredInTurn, LastFor
<1>1. i \in 1 .. pass /\ Asked(i, k)
  OBVIOUS
<1>2. Answered(d, k)
  BY <1>1 DEF FInv, AnsweredInTurn
<1> QED BY <1>2, AnswerStays

\* The steps within a pass, before it is asked.
LEMMA AnsweredQuiet ==
  ASSUME RInv, FInv, q' = q, journeys' = journeys, pass' = pass, pc' # "next pass", pc' # "done",
         pc' = "collect" => round' = 1
  PROVE  FInv'
<1>1. q \in Queries
  BY DEF RInv, TypeOK
<1>2. \A k \in 1 .. q.rounds : ~Collected(k)'
  <2>1. CASE pc' # "collect"
    BY <2>1 DEF Collected
  <2>2. CASE pc' = "collect" /\ round' = 1
    BY <1>1, <2>2, FromOne, RoundsType DEF Collected
  <2> QED BY <2>1, <2>2
<1> QED BY <1>2, AnswersStay DEF Asked

LEMMA AnsweredStartPass == RInv /\ FInv /\ StartPass => FInv'
<1> SUFFICES ASSUME RInv, FInv, StartPass PROVE FInv'
  OBVIOUS
<1>1. /\ q \in Queries /\ q' = q /\ journeys' = journeys /\ pass' = pass + 1
      /\ pc = "next pass" /\ pc' = "access"
  BY DEF StartPass, emitted, RInv, TypeOK
<1>2. pass \in Nat
  <2>1. q \in Queries /\ pass \in 0 .. Len(q.departures)
    BY DEF RInv, TypeOK
  <2>2. Len(q.departures) \in Nat
    BY <2>1, DeparturesSeq
  <2> QED BY <2>1, <2>2
<1>3. \A k : ~Collected(k)'
  BY <1>1 DEF Collected
<1>4. \A i \in 1 .. pass' : \A k \in 1 .. q.rounds : Asked(i, k)' => i \in 1 .. pass /\ Asked(i, k)
  <2> SUFFICES ASSUME NEW i \in 1 .. pass + 1, i < pass + 1 PROVE i \in 1 .. pass
    BY <1>1, <1>3 DEF Asked, Collected
  <2> QED BY <1>2
<1> QED BY <1>1, <1>4, AnswersStay

LEMMA AnsweredFinish == RInv /\ FInv /\ Finish => FInv'
<1> SUFFICES ASSUME RInv, FInv, Finish PROVE FInv'
  OBVIOUS
<1>1. /\ q' = q /\ journeys' = journeys /\ pass' = pass /\ pc = "next pass" /\ pass = Len(q.departures)
  BY DEF Finish, emitted, tables
<1> QED BY <1>1, AnswersStay DEF Asked, Collected

LEMMA AnsweredStutter == FInv /\ UNCHANGED vars => FInv'
<1> SUFFICES ASSUME FInv, UNCHANGED vars PROVE FInv'
  OBVIOUS
<1>1. q' = q /\ journeys' = journeys /\ pass' = pass /\ pc' = pc /\ round' = round
  BY DEF vars, emitted
<1>2. pc' = "done" => pass' = Len(q'.departures)
  BY <1>1 DEF FInv
<1> QED BY <1>1, <1>2, AnswersStay DEF Asked, Collected

\* Once a pass is asked for a number of rides, its journeys are as good as the
\* instants it is the last for have it: the arrival is one of the tables', and
\* no access link brings it about.
LEMMA CollectAnswers ==
  ASSUME RInv, CInv, SInv, RInv', EInv', Collect, TwinsAgree(q), AccessCloses(q), Covers(q, q.window),
         NEW d \in q.window, LastFor(pass, d)
  PROVE  \A k : k = round => Answered(d, k)'
<1>1. /\ q \in Queries /\ TablesOK /\ q' = q /\ tau' = tau /\ pass' = pass /\ pc = "collect"
      /\ round \in 1 .. q.rounds /\ round \in Rounds /\ pass \in 1 .. Len(q.departures) /\ q.rounds \in Nat
      /\ Len(q.departures) \in Nat /\ d \in Nat
  <2>1. d \in Nat
    BY DEF Covers
  <2> QED BY <2>1, CollectHere, RoundsType, DeparturesSeq
<1> DEFINE g == R!Earliest(q, {d})[round]
           started == R!Started(q, {d})
<1>2. R!Earliest(q, {d})[0] = started
  BY <1>1, EarliestRounds
<1>3. AsGood(round, g, d)
  BY <1>1, InstantAsGood
<1> HIDE DEF g
<1> SUFFICES ASSUME NEW e \in q.egress, g[e.stop] < started[e.stop], g[e.stop] + e.duration < Unreached,
                    NEW later, later = round
             PROVE  \E n \in journeys' : /\ n.departure >= d
                                         /\ n.arrival <= g[e.stop] + e.duration
                                         /\ n.rides <= later
  <2> USE DEF g
  <2> HIDE DEF started
  <2> QED BY <1>1, <1>2 DEF Answered
<1>4. e.stop \in Stops /\ e.duration \in Nat
  BY <1>1, QueriesAssumption DEF WellFormedRequest
<1>5. PICK s \in Stops : s = e.stop
  BY <1>4
<1>6. g[s] \in Nat /\ started[s] \in Nat /\ started[s] <= Unreached /\ g[s] < started[s]
  BY <1>1, <1>3, <1>5, StartedIs DEF AsGood
<1>7. best[round][s] <= g[s]
  BY <1>3, <1>5, <1>6 DEF AsGood
<1>8. PICK k \in 0 .. round : best[round][s] = tau[k][s]
  BY <1>1 DEF RInv, BestIsPrefixMin
<1>9. k \in Rounds /\ k \in Nat /\ k <= round /\ round \in Nat
  BY <1>1, <1>8 DEF Rounds
<1>10. tau[k][s] \in 0 .. Unreached /\ tau[k][s] <= g[s] /\ tau[k][s] < Unreached
  BY <1>1, <1>6, <1>7, <1>8, <1>9, TimeAssumption DEF TablesOK
<1>11. ASSUME NEW i \in 1 .. pass PROVE q.departures[i] \in Nat /\ d <= q.departures[i]
  <2>1. i \in 1 .. Len(q.departures) /\ i <= pass
    BY <1>1
  <2>2. d <= q.departures[i]
    BY <2>1 DEF LastFor
  <2>3. q.departures \in Seq(Times)
    BY <1>1, DeparturesSeq
  <2>4. q.departures[i] \in Times
    BY <2>1, <2>3, ElementOfSeq
  <2> QED BY <2>2, <2>4 DEF Times
<1>12. k # 0
  <2> SUFFICES ASSUME k = 0 PROVE FALSE
    OBVIOUS
  <2>1. Linked(s, tau[k][s])
    BY <1>5, <1>10 DEF SInv, ArrivalsReal
  <2>2. PICK i \in 1 .. pass, a \in q.access : a.stop = s /\ s \notin q.excluded /\ tau[k][s] = q.departures[i] + a.duration
    BY <2>1 DEF Linked
  <2>3. a.duration \in Nat
    BY <1>1, QueriesAssumption DEF WellFormedRequest
  <2>4. started[s] <= d + a.duration
    BY <1>1, <2>2, StartedIs
  <2>5. q.departures[i] \in Nat /\ d <= q.departures[i]
    BY <1>11
  <2>6. \A x, y, z, v, w \in Int : x <= y + z /\ y <= v /\ w = v + z /\ w < x => FALSE
    OBVIOUS
  <2>7. PICK x, y, z, v, w \in Int :
          /\ x = started[s] /\ y = d /\ z = a.duration /\ v = q.departures[i] /\ w = tau[k][s]
    BY <1>1, <1>6, <1>10, <2>3, <2>5, SMTT(30)
  <2>8. w < x
    BY <1>6, <1>10, <2>7
  <2>9. x <= y + z /\ y <= v /\ w = v + z
    BY <2>2, <2>4, <2>5, <2>7
  <2> QED BY <2>6, <2>8, <2>9
<1>13. k \in 1 .. q.rounds
  BY <1>1, <1>9, <1>12
<1>14. Collected(k)'
  <2>1. k = round \/ Collected(k)
    BY <1>1, <1>9 DEF Collected
  <2> QED BY <1>13, <2>1, CollectHere
<1>15. e \in Egresses(k) /\ Egresses(k)' = Egresses(k) /\ ArrivalBy(k, e)' = ArrivalBy(k, e)
  <2>1. s \notin q.excluded
    BY <1>10, <1>13 DEF SInv, ArrivalsReal, Ridden, Walked
  <2>2. tau[k][s] + e.duration < Unreached
    BY <1>4, <1>5, <1>6, <1>10, TimeAssumption
  <2> QED BY <1>1, <1>5, <1>10, <2>1, <2>2 DEF Egresses, ArrivalBy
<1>16. thresholds'[k] <= tau[k][s] + e.duration
  <2>1. \/ thresholds'[k] <= ArrivalBy(k, e)'
        \/ ~Collected(k)'
    BY <1>1, <1>13, <1>15 DEF EInv, OffersTaken
  <2> QED BY <1>5, <1>14, <1>15, <2>1 DEF ArrivalBy
<1>17. thresholds'[k] \in Int /\ thresholds'[k] < Unreached /\ thresholds'[k] <= g[s] + e.duration
  <2>1. thresholds' \in [Rounds -> 0 .. Unreached]
    BY <1>1 DEF RInv, TypeOK, Rounds
  <2>2. thresholds'[k] \in Int
    BY <1>9, <2>1
  <2> QED BY <1>4, <1>5, <1>6, <1>10, <1>16, <2>2, TimeAssumption
<1>18. PICK n \in journeys' : n.rides <= k /\ n.arrival <= thresholds'[k]
  BY <1>1, <1>9, <1>17 DEF EInv, BarsEmitted, Rounds
<1>19. n.departure >= d
  <2>1. PICK i \in 1 .. pass : n.departure = q.departures[i]
    BY <1>1, <1>18 DEF EInv, EmittedInTurn
  <2> QED BY <1>1, <1>11, <2>1
<1>20. n.arrival \in Int /\ n.rides \in Int
  <2>1. n.arrival \in Times /\ n.rides \in 1 .. q.rounds
    BY <1>1, <1>18 DEF RInv, TypeOK
  <2> QED BY <1>1, <2>1, FromOne DEF Times
<1> QED BY <1>4, <1>5, <1>6, <1>9, <1>17, <1>18, <1>19, <1>20

LEMMA AnsweredCollect == RInv /\ CInv /\ SInv /\ EInv /\ FInv /\ Collect => FInv'
<1> SUFFICES ASSUME RInv, CInv, SInv, EInv, FInv, Collect PROVE FInv'
  OBVIOUS
<1>1. RInv' /\ EInv'
  BY InvCollect, EmittedNothing, EmittedJourney DEF Collect
<1>2. q' = q /\ pass' = pass /\ pc = "collect" /\ pc' # "done"
  BY CollectHere
<1>3. journeys \subseteq journeys'
  BY DEF Collect, EmitNothing, EmitJourney, emitted
<1> SUFFICES ASSUME TwinsAgree(q), AccessCloses(q), Covers(q, q.window),
                    NEW d \in q.window, NEW i \in 1 .. pass, LastFor(i, d), NEW k \in 1 .. q.rounds, Asked(i, k)'
             PROVE  Answered(d, k)'
  BY <1>2 DEF FInv, AnsweredInTurn, LastFor
<1>4. CASE Asked(i, k)
  <2>1. Answered(d, k)
    BY <1>4 DEF FInv, AnsweredInTurn
  <2> QED BY <1>2, <1>3, <2>1, AnswerStays
<1>5. CASE ~Asked(i, k)
  <2>1. Collected(k)' /\ ~Collected(k) /\ ~(i < pass)
    BY <1>2, <1>5 DEF Asked, Collected
  <2>2. k = round /\ i = pass
    <3>1. k <= round /\ ~(k < round)
      BY <1>2, <2>1, CollectHere DEF Collected
    <3>2. k \in Int /\ round \in Int /\ pass \in Int
      BY CollectHere, FromOne, RoundsType, DeparturesSeq
    <3> QED BY <2>1, <3>1, <3>2
  <2>3. LastFor(pass, d)
    BY <2>2
  <2> QED BY <1>1, <2>2, <2>3, CollectAnswers
<1> QED BY <1>4, <1>5

LEMMA AnsweredInit == Init => FInv
<1> SUFFICES ASSUME Init PROVE FInv
  OBVIOUS
<1>1. pass = 0 /\ pc = "next pass"
  BY DEF Init
<1>2. 1 .. pass = {}
  <2>1. 1 .. 0 = {}
    OBVIOUS
  <2> QED BY <1>1, <2>1
<1> QED BY <1>1, <1>2 DEF FInv, AnsweredInTurn

LEMMA AnsweredNext == RInv /\ CInv /\ SInv /\ EInv /\ FInv /\ [Next]_vars => FInv'
<1> SUFFICES ASSUME RInv, CInv, SInv, EInv, FInv, [Next]_vars PROVE FInv'
  OBVIOUS
<1>1. CASE StartPass
  BY <1>1, AnsweredStartPass
<1>2. CASE \E a \in pending : SeedAccess(a)
  BY <1>2, AnsweredQuiet DEF SeedAccess, emitted
<1>3. CASE CollectPatterns
  BY <1>3, AnsweredQuiet DEF CollectPatterns, emitted
<1>4. CASE \E p \in DOMAIN queue_position : DequeuePattern(p)
  BY <1>4, AnsweredQuiet DEF DequeuePattern, emitted
<1>5. CASE \E stream \in Streams : Alight(stream)
  BY <1>5, AnsweredQuiet DEF Alight, emitted
<1>6. CASE Board
  BY <1>6, AnsweredQuiet DEF Board, emitted
<1>7. CASE StartWalking
  BY <1>7, AnsweredQuiet DEF StartWalking, emitted
<1>8. CASE \E w \in pending : Walk(w)
  BY <1>8, AnsweredQuiet DEF Walk, emitted
<1>9. CASE EndRound
  BY <1>9, AnsweredQuiet DEF EndRound, emitted
<1>10. CASE Collect
  BY <1>10, AnsweredCollect
<1>11. CASE Finish
  BY <1>11, AnsweredFinish
<1>12. CASE Done \/ UNCHANGED vars
  BY <1>12, AnsweredStutter DEF Done
<1> QED BY <1>1, <1>2, <1>3, <1>4, <1>5, <1>6, <1>7, <1>8, <1>9, <1>10, <1>11, <1>12 DEF Next

LEMMA AnsweredAlways == Spec => []FInv
<1>1. Init => RInv /\ CInv /\ SInv /\ EInv /\ FInv
  BY InvInit, ClosedInit, RealInit, EmittedInit, AnsweredInit
<1>2. RInv /\ CInv /\ SInv /\ EInv /\ FInv /\ [Next]_vars => RInv' /\ CInv' /\ SInv' /\ EInv' /\ FInv'
  BY InvNext, ClosedNext, RealNext, EmittedNext, AnsweredNext
<1> QED BY <1>1, <1>2, PTL DEF Spec

\* Among candidates that decrease there is a last one at d or later, if there
\* is one at all.
LEMMA LastCandidate ==
  ASSUME q \in Queries, Covers(q, q.window), NEW d \in q.window
  PROVE  \E i \in 1 .. Len(q.departures) : LastFor(i, d)
<1>1. /\ Len(q.departures) \in Nat /\ d \in Nat
      /\ \A c \in 1 .. Len(q.departures) : q.departures[c] \in Nat
  <2>1. d \in Nat
    BY DEF Covers
  <2>2. q.departures \in Seq(Times) /\ Len(q.departures) \in Nat
    BY DeparturesSeq
  <2>3. \A c \in 1 .. Len(q.departures) : q.departures[c] \in Times
    BY <2>2, ElementOfSeq
  <2> QED BY <2>1, <2>2, <2>3 DEF Times
<1>2. \A b, c \in 1 .. Len(q.departures) : b < c => q.departures[c] < q.departures[b]
  BY QueriesAssumption DEF WellFormedRequest
<1>3. PICK first \in 1 .. Len(q.departures) : d <= q.departures[first]
  BY DEF Covers
<1> DEFINE missed == {c \in 1 .. Len(q.departures) : q.departures[c] < d}
<1>4. CASE missed = {}
  <2>1. \A c \in 1 .. Len(q.departures) : d <= q.departures[c] /\ c <= Len(q.departures)
    BY <1>1, <1>4
  <2>2. Len(q.departures) \in 1 .. Len(q.departures)
    BY <1>1, <1>3
  <2> QED BY <2>1, <2>2 DEF LastFor
<1>5. CASE missed # {}
  <2>1. missed \in SUBSET Nat
    OBVIOUS
  <2>2. PICK c \in missed : \A b \in missed : c <= b
    <3> HIDE DEF missed
    <3> QED BY <1>5, <2>1, SmallestElement
  <2>3. c \in 1 .. Len(q.departures) /\ q.departures[c] < d
    BY <2>2
  <2>4. c # 1
    <3> SUFFICES ASSUME c = 1 PROVE FALSE
      OBVIOUS
    <3>1. first = c \/ c < first
      BY <1>1
    <3>2. q.departures[first] <= q.departures[c]
      BY <1>1, <1>2, <2>3, <3>1
    <3> QED BY <1>1, <1>3, <2>3, <3>2
  <2>5. c - 1 \in 1 .. Len(q.departures)
    BY <1>1, <2>3, <2>4
  <2>6. ASSUME NEW b \in 1 .. Len(q.departures) PROVE d <= q.departures[b] <=> b <= c - 1
    <3>1. CASE b <= c - 1
      <4>1. ~(c <= b)
        BY <1>1, <2>3, <3>1
      <4>2. b \notin missed
        BY <2>2, <4>1
      <4> QED BY <1>1, <3>1, <4>2
    <3>2. CASE ~(b <= c - 1)
      <4>1. b = c \/ c < b
        BY <1>1, <2>3, <3>2
      <4>2. q.departures[b] <= q.departures[c]
        BY <1>1, <1>2, <2>3, <4>1
      <4> QED BY <1>1, <2>3, <3>2, <4>2
    <3> QED BY <3>1, <3>2
  <2> QED BY <2>5, <2>6 DEF LastFor
<1> QED BY <1>4, <1>5

\* The range search answers every instant of the window, candidate departures
\* or not, with journeys as good as leaving then allows, whatever the
\* thresholds and the tables hold back from the passes before (search.rs,
\* profile): on every instance whose candidates cover the window, and whose
\* tables RaptorPassExact is about.
THEOREM RaptorFrontierComplete ==
  Spec => [](TwinsAgree(q) /\ AccessCloses(q) /\ Covers(q, q.window) => FrontierComplete)
<1>1. ASSUME RInv, FInv, TwinsAgree(q), AccessCloses(q), Covers(q, q.window), pc = "done"
      PROVE  R!Complete(q, q.window, journeys)
  <2>1. q \in Queries /\ pass = Len(q.departures) /\ AnsweredInTurn
    BY <1>1 DEF RInv, TypeOK, FInv
  <2>2. ASSUME NEW d \in q.window PROVE \A k \in 1 .. q.rounds : Answered(d, k)
    <3>1. PICK i \in 1 .. pass : LastFor(i, d)
      BY <1>1, <2>1, LastCandidate
    <3> QED BY <1>1, <2>1, <3>1 DEF AnsweredInTurn, Asked, Collected
  <2> QED BY <2>2 DEF R!Complete, Answered
<1>2. RInv /\ FInv => (TwinsAgree(q) /\ AccessCloses(q) /\ Covers(q, q.window) => FrontierComplete)
  BY <1>1 DEF FrontierComplete
<1> QED BY <1>2, InvAlways, AnsweredAlways, PTL

\* The candidates departure_candidates picks cover the window they are picked
\* from: an instant at which no trip becomes catchable need not be searched
\* (matrices.rs, departure_candidates).
THEOREM RaptorCandidatesCover ==
  ASSUME NEW n \in Queries, NEW from \in Nat, NEW seconds \in Nat,
         {n.departures[c] : c \in 1 .. Len(n.departures)} = DepartureCandidates(n, from, seconds)
  PROVE  Covers(n, from .. from + seconds - 1)
<1> DEFINE last == from + seconds - 1
           D == from .. last
<1> SUFFICES ASSUME NEW d \in D
             PROVE  /\ \E c \in 1 .. Len(n.departures) : d <= n.departures[c]
                    /\ \A a \in n.access, stream \in Streams : \A t \in n.usable[stream] :
                         \A i \in 1 .. Len(n.departure[t]) - 1 :
                           /\ n.pattern_stops[n.trip_pattern[t]][i] = a.stop
                           /\ d + a.duration <= n.departure[t][i] - Offset(stream)
                           => \E c \in 1 .. Len(n.departures) :
                                d <= n.departures[c] /\ n.departures[c] + a.duration <= n.departure[t][i] - Offset(stream)
  <2>1. D \subseteq Nat /\ D = from .. from + seconds - 1
    OBVIOUS
  <2> HIDE DEF D
  <2> QED BY <2>1 DEF Covers
<1>1. d \in Nat /\ from <= d /\ d <= last /\ last \in Int /\ last < from + seconds /\ seconds # 0
  OBVIOUS
<1>2. PICK c \in 1 .. Len(n.departures) : n.departures[c] = last
  <2>1. last \in DepartureCandidates(n, from, seconds)
    BY <1>1 DEF DepartureCandidates
  <2> QED BY <2>1
<1>3. ASSUME NEW a \in n.access, NEW stream \in Streams, NEW t \in n.usable[stream],
             NEW i \in 1 .. Len(n.departure[t]) - 1,
             n.pattern_stops[n.trip_pattern[t]][i] = a.stop,
             d + a.duration <= n.departure[t][i] - Offset(stream)
      PROVE  \E b \in 1 .. Len(n.departures) :
               d <= n.departures[b] /\ n.departures[b] + a.duration <= n.departure[t][i] - Offset(stream)
  <2>1. a.duration \in Nat /\ Offset(stream) \in Nat /\ n.departure[t][i] \in Int
    <3>1. a.duration \in Nat /\ t \in n.trips
      BY QueriesAssumption DEF WellFormedRequest
    <3>2. Offset(stream) \in Nat
      BY TimeAssumption DEF Offset, Streams
    <3>3. n.departure[t] \in Seq(Nat)
      BY <3>1, QueriesAssumption DEF WellFormedTimetable
    <3>4. i \in 1 .. Len(n.departure[t])
      BY <3>3
    <3>5. n.departure[t][i] \in Nat
      BY <3>3, <3>4, ElementOfSeq
    <3> QED BY <3>1, <3>2, <3>5
  <2>2. PICK board \in Int, at \in Int :
          /\ board = n.departure[t][i] - Offset(stream)
          /\ at = board - a.duration
    <3>1. \A x, y, z \in Int : x - y \in Int /\ x - y - z \in Int
      OBVIOUS
    <3>2. a.duration \in Int /\ Offset(stream) \in Int
      BY <2>1
    <3> QED BY <2>1, <3>1, <3>2
  <2>3. d <= at /\ at + a.duration = board
    BY <1>1, <1>3, <2>1, <2>2, SMTT(30)
  <2>4. CASE at <= last
    <3>1. at \in UNION {Catches(n, link) : link \in n.access}
      BY <1>3, <2>2 DEF Catches
    <3>2. from <= at /\ at < from + seconds
      BY <1>1, <2>2, <2>3, <2>4
    <3>3. at \in DepartureCandidates(n, from, seconds)
      BY <3>1, <3>2 DEF DepartureCandidates
    <3>4. PICK b \in 1 .. Len(n.departures) : n.departures[b] = at
      BY <3>3
    <3>5. n.departures[b] + a.duration <= board
      BY <2>1, <2>2, <2>3, <3>4
    <3> QED BY <2>2, <2>3, <3>4, <3>5
  <2>5. CASE ~(at <= last)
    <3>1. n.departures[c] + a.duration <= board
      BY <1>1, <1>2, <2>1, <2>2, <2>3, <2>5
    <3>2. d <= n.departures[c]
      BY <1>1, <1>2
    <3> QED BY <2>2, <3>1, <3>2
  <2> QED BY <2>4, <2>5
<1> QED BY <1>1, <1>2, <1>3

----------------------------------------------------------------------------
(* The legs behind a label, for footpaths that take time.                  *)

\* The labels a closed set's footpaths leave name the stop walked from, those
\* of an unclosed one carry a ride to a stop that is not excluded.
LabelsReal ==
  \A k \in Rounds, s \in Stops : LET l == labels[k][s] IN
    /\ l.kind = "transfer" => q.closed
    /\ l.kind = "walked ride" => l.from \notin q.excluded
CarriedReal == pc = "walk" => \A w \in pending : w.ride = NoRide => q.closed
LInv == LabelsReal /\ CarriedReal

LEMMA LabelsStay ==
  ASSUME RInv, LInv, q' = q, NEW k \in Rounds, NEW s \in Stops, NEW arrival, NEW l, NEW contested,
         UNCHANGED labels \/ Record(k, s, arrival, l, contested),
         l.kind = "transfer" => q.closed, l.kind = "walked ride" => l.from \notin q.excluded
  PROVE  LabelsReal'
<1>1. Rounds' = Rounds /\ labels \in [Rounds -> [Stops -> Labels]]
  BY TablesTyped DEF Rounds, RInv, TablesOK
<1>2. CASE labels' = labels
  BY <1>1, <1>2 DEF LInv, LabelsReal
<1>3. CASE labels' = [labels EXCEPT ![k][s] = l]
  <2>1. \A j \in Rounds, u \in Stops : labels'[j][u] = labels[j][u] \/ labels'[j][u] = l
    BY <1>1, <1>3
  <2> QED BY <1>1, <2>1 DEF LInv, LabelsReal
<1> QED BY <1>2, <1>3 DEF Record, tables

LEMMA LabelsQuiet ==
  ASSUME LInv, q' = q, labels' = labels, pc' # "walk" \/ (pc = "walk" /\ pending' = pending)
  PROVE  LInv'
BY DEF LInv, LabelsReal, CarriedReal, Rounds

LEMMA LabelsSeedAccess ==
  ASSUME RInv, LInv, NEW a \in pending, SeedAccess(a)
  PROVE  LInv'
<1>1. a.stop \in Stops /\ 0 \in Rounds
  BY SeedRelaxes
<1>2. /\ q' = q /\ pc' = "access"
      /\ UNCHANGED labels \/ Record(0, a.stop, Now + a.duration, AccessLabel(Now, a.duration), TRUE)
  BY DEF SeedAccess, tables
<1>3. AccessLabel(Now, a.duration).kind = "access"
  BY DEF AccessLabel
<1>4. LabelsReal'
  BY <1>1, <1>2, <1>3, LabelsStay
<1> QED BY <1>2, <1>4 DEF LInv, CarriedReal

LEMMA LabelsAlight ==
  ASSUME RInv, LInv, NEW d \in Streams, Alight(d)
  PROVE  LInv'
<1>1. /\ q' = q /\ pc' # "walk"
      /\ \/ UNCHANGED labels
         \/ Record(round, StopHere, AlightTime(Ride(d)), TransitLabel(Ride(d)), TRUE)
  BY DEF Alight, tables
<1>2. StopHere \in Stops /\ round \in Rounds
  <2>1. pc \in InScan
    BY DEF Alight, InScan
  <2> QED BY <2>1, ScanHere
<1>3. TransitLabel(Ride(d)).kind = "transit"
  BY DEF TransitLabel
<1>4. LabelsReal'
  BY <1>1, <1>2, <1>3, LabelsStay
<1> QED BY <1>1, <1>4 DEF LInv, CarriedReal

LEMMA LabelsStartWalking == RInv /\ LInv /\ StartWalking => LInv'
<1> SUFFICES ASSUME RInv, LInv, StartWalking PROVE LInv'
  OBVIOUS
<1>1. /\ q' = q /\ labels' = labels
      /\ pending' = UNION {{Departing(v, e) : e \in FootpathsFrom(v.from)} : v \in WalkSources}
  BY DEF StartWalking, tables
<1>2. LabelsReal'
  BY <1>1 DEF LInv, LabelsReal, Rounds
<1>3. ASSUME NEW w \in pending', ~q.closed PROVE w.ride # NoRide
  <2>1. PICK v \in WalkSources : \E e \in FootpathsFrom(v.from) : w = Departing(v, e)
    BY <1>1
  <2>2. w.ride = v.ride
    BY <2>1 DEF Departing
  <2>3. v.ride # NoRide
    BY <1>3 DEF WalkSources
  <2> QED BY <2>2, <2>3
<1> QED BY <1>1, <1>2, <1>3 DEF LInv, CarriedReal

LEMMA LabelsWalk ==
  ASSUME RInv, SInv, LInv, NEW w \in pending, Walk(w)
  PROVE  LInv'
<1>1. /\ q' = q /\ pc = "walk" /\ pc' = "walk" /\ pending' = pending \ {w} /\ round \in Rounds /\ w.to \in Stops
  BY WalkRelaxes DEF Walk
<1> DEFINE l == IF w.ride = NoRide THEN TransferLabel(w.from, w.duration)
                                   ELSE TransferFromRideLabel(w.from, w.duration, w.ride)
<1>2. UNCHANGED labels \/ Record(round, w.to, w.at + w.duration, l, w.ride = NoRide)
  BY DEF Walk, tables
<1>3. l.kind = "transfer" => q.closed
  <2>1. CASE w.ride = NoRide
    BY <1>1, <2>1 DEF LInv, CarriedReal
  <2>2. CASE w.ride # NoRide
    BY <2>2 DEF TransferFromRideLabel
  <2> QED BY <2>1, <2>2
<1>4. l.kind = "walked ride" => l.from \notin q.excluded
  <2>1. CASE w.ride = NoRide
    BY <2>1 DEF TransferLabel
  <2>2. CASE w.ride # NoRide
    <3>1. l.from = w.from
      BY <2>2 DEF TransferFromRideLabel
    <3>2. w.from \notin q.excluded
      BY <1>1 DEF SInv, WalksReal, Ridden
    <3> QED BY <3>1, <3>2
  <2> QED BY <2>1, <2>2
<1> HIDE DEF l
<1>5. LabelsReal'
  BY <1>1, <1>2, <1>3, <1>4, LabelsStay
<1> QED BY <1>1, <1>5 DEF LInv, CarriedReal

LEMMA LabelsInit == Init => LInv
<1> SUFFICES ASSUME Init PROVE LInv
  OBVIOUS
<1>1. labels = [k \in Rounds |-> [s \in Stops |-> NoLabel]] /\ pc = "next pass"
  BY DEF Init
<1>2. NoLabel.kind = "unreached"
  BY DEF NoLabel
<1> QED BY <1>1, <1>2 DEF LInv, LabelsReal, CarriedReal

LEMMA LabelsNext == RInv /\ SInv /\ LInv /\ [Next]_vars => LInv'
<1> SUFFICES ASSUME RInv, SInv, LInv, [Next]_vars PROVE LInv'
  OBVIOUS
<1>1. CASE StartPass
  BY <1>1, LabelsQuiet DEF StartPass
<1>2. CASE \E a \in pending : SeedAccess(a)
  BY <1>2, LabelsSeedAccess
<1>3. CASE CollectPatterns
  BY <1>3, LabelsQuiet DEF CollectPatterns
<1>4. CASE \E p \in DOMAIN queue_position : DequeuePattern(p)
  BY <1>4, LabelsQuiet DEF DequeuePattern, tables
<1>5. CASE \E stream \in Streams : Alight(stream)
  BY <1>5, LabelsAlight
<1>6. CASE Board
  BY <1>6, LabelsQuiet DEF Board, tables
<1>7. CASE StartWalking
  BY <1>7, LabelsStartWalking
<1>8. CASE \E w \in pending : Walk(w)
  BY <1>8, LabelsWalk
<1>9. CASE EndRound
  BY <1>9, LabelsQuiet DEF EndRound, tables
<1>10. CASE Collect
  BY <1>10, LabelsQuiet DEF Collect, tables
<1>11. CASE Finish
  BY <1>11, LabelsQuiet DEF Finish, tables
<1>12. CASE Done \/ UNCHANGED vars
  BY <1>12, LabelsQuiet DEF Done, vars, tables
<1> QED BY <1>1, <1>2, <1>3, <1>4, <1>5, <1>6, <1>7, <1>8, <1>9, <1>10, <1>11, <1>12 DEF Next

----------------------------------------------------------------------------
(* What a label is to the one behind it.                                   *)

\* A closed set's footpaths take time.
WalksTakeTime(n) == n.closed => \A e \in n.transfers : e.duration > 0

\* The ride of l leaves no earlier than k - 1 rides reach its stop.
BoardsAfter(k, l) ==
  /\ k - 1 \in Rounds /\ BoardStop(l) \in Stops
  /\ tau[k - 1][BoardStop(l)] < Unreached
  /\ BoardTime(l) \in Nat /\ AlightTime(l) \in Nat
  /\ tau[k - 1][BoardStop(l)] <= BoardTime(l) /\ BoardTime(l) <= AlightTime(l)

LEMMA RideBoards ==
  ASSUME q \in Queries, TablesOK, NEW k \in Rounds, k > 0, NEW s \in Stops, NEW l, GoodRide(k, RideOf(l), s)
  PROVE  BoardsAfter(k, l) /\ AlightTime(l) + l.offset = q.arrival[l.trip][l.alight] /\ l.offset \in Nat
<1>1. PICK r : r = RideOf(l)
  OBVIOUS
<1>2. r.trip = l.trip /\ r.board = l.board /\ r.alight = l.alight /\ r.offset = l.offset
  BY <1>1 DEF RideOf
<1>3. r \in Rides /\ GoodRide(k, r, s)
  BY <1>1 DEF GoodRide
<1>4. AlightTime(r) \in Times /\ AlightTime(r) + r.offset = q.arrival[r.trip][r.alight]
  BY <1>3, RideTimes
<1>5. AlightTime(l) = AlightTime(r) /\ BoardTime(l) = BoardTime(r) /\ BoardStop(l) = BoardStop(r)
  BY <1>2 DEF AlightTime, BoardTime, BoardStop
<1>6. /\ r.offset \in Nat /\ BoardStop(r) \in Stops /\ q.departure[r.trip][r.board] \in Nat /\ q.arrival[r.trip][r.alight] \in Nat
      /\ q.departure[r.trip][r.board] <= q.arrival[r.trip][r.alight] /\ q.arrival[r.trip][r.alight] < Unreached
  BY <1>3, RideFacts DEF BoardStop
<1>7. k - 1 \in Rounds
  <2>1. k \in 0 .. q.rounds /\ q.rounds \in Nat
    BY RoundsType DEF Rounds
  <2> QED BY <2>1 DEF Rounds
<1>8. tau[k - 1][BoardStop(r)] \in 0 .. Unreached
  BY <1>6, <1>7 DEF TablesOK
<1>9. tau[k - 1][BoardStop(r)] + r.offset <= q.departure[r.trip][r.board]
  BY <1>3 DEF GoodRide, Boardable, BoardStop
<1>10. BoardTime(r) + r.offset = q.departure[r.trip][r.board] /\ BoardTime(r) \in Nat
  BY <1>6, <1>8, <1>9, TimeAssumption DEF BoardTime, OnTheDay
<1>11. AlightTime(r) \in Nat
  BY <1>4, TimeAssumption DEF Times
<1>12. tau[k - 1][BoardStop(r)] <= BoardTime(r) /\ BoardTime(r) <= AlightTime(r) /\ tau[k - 1][BoardStop(r)] < Unreached
  BY <1>4, <1>6, <1>8, <1>9, <1>10, <1>11, TimeAssumption
<1> QED BY <1>2, <1>4, <1>5, <1>6, <1>7, <1>10, <1>11, <1>12 DEF BoardsAfter

\* What a label of stop s in round k says of the leg to it.
KindOf(k, s, l) ==
  \/ k = 0 /\ l.kind = "access"
  \/ l.kind = "transit" /\ k > 0 /\ BoardsAfter(k, l) /\ AlightTime(l) = tau[k][s]
  \/ /\ l.kind = "transfer" /\ k > 0 /\ q.closed /\ l.from \in Stops /\ l.duration \in Nat
     /\ [from |-> l.from, to |-> s, duration |-> l.duration] \in q.transfers
     /\ tau[k][l.from] + l.duration <= tau[k][s]
  \/ /\ l.kind = "walked ride" /\ k > 0 /\ BoardsAfter(k, l) /\ l.from \in Stops \ q.excluded
     /\ l.duration \in Nat /\ AlightTime(l) + l.duration = tau[k][s]

LEMMA LabelKinds ==
  ASSUME RInv, LInv, NEW k \in Rounds, NEW s \in Stops, NEW l, l = labels[k][s], tau[k][s] # Unreached
  PROVE  KindOf(k, s, l)
<1>1. q \in Queries /\ TablesOK /\ Explains(k, s, tau[k][s], l) /\ l \in Labels
  BY TablesTyped DEF RInv, ChainsConsistent, LabelConsistent, TablesOK
<1>2. tau[k][s] \in Nat
  BY <1>1, TimeAssumption DEF TablesOK
<1>3. CASE l.kind = "access" /\ k = 0
  BY <1>3 DEF KindOf
<1>4. CASE l.kind = "transit" /\ k > 0 /\ GoodRide(k, RideOf(l), s) /\ tau[k][s] + l.offset = q.arrival[l.trip][l.alight]
  <2>1. BoardsAfter(k, l) /\ AlightTime(l) + l.offset = q.arrival[l.trip][l.alight] /\ l.offset \in Nat
    BY <1>1, <1>4, RideBoards
  <2>2. AlightTime(l) = tau[k][s]
    BY <1>2, <1>4, <2>1 DEF BoardsAfter
  <2> QED BY <1>4, <2>1, <2>2 DEF KindOf
<1>5. CASE /\ l.kind = "transfer" /\ k > 0
           /\ [from |-> l.from, to |-> s, duration |-> l.duration] \in q.transfers
           /\ tau[k][l.from] + l.duration <= tau[k][s]
  BY <1>1, <1>5, LabelFields DEF LInv, LabelsReal, KindOf
<1>6. CASE /\ l.kind = "walked ride" /\ k > 0 /\ GoodRide(k, RideOf(l), l.from)
           /\ tau[k][s] + l.offset = q.arrival[l.trip][l.alight] + l.duration
  <2>1. l.from \in Stops /\ l.duration \in Nat /\ l.from \notin q.excluded
    BY <1>1, <1>6, LabelFields DEF LInv, LabelsReal
  <2>2. BoardsAfter(k, l) /\ AlightTime(l) + l.offset = q.arrival[l.trip][l.alight] /\ l.offset \in Nat
    BY <1>1, <1>6, <2>1, RideBoards
  <2>3. AlightTime(l) + l.duration = tau[k][s]
    <3>1. PICK alight, offset, duration \in Nat, t \in Nat :
            alight = AlightTime(l) /\ offset = l.offset /\ duration = l.duration /\ t = tau[k][s]
      BY <1>2, <2>1, <2>2 DEF BoardsAfter
    <3>2. t + offset = (alight + offset) + duration
      BY <1>6, <2>2, <3>1
    <3> QED BY <3>1, <3>2
  <2> QED BY <1>6, <2>1, <2>2, <2>3 DEF KindOf
<1> QED BY <1>1, <1>3, <1>4, <1>5, <1>6 DEF Explains

----------------------------------------------------------------------------
(* Legs, unfolded: chains end, since every label behind has fewer rides or *)
(* an earlier arrival.                                                     *)

Rank(at) == at[1] * (Unreached + 1) + tau[at[1]][at[2]]

\* reconstruct's step, given the legs of the label behind.
LegsBy(f, at) ==
  LET l == labels[at[1]][at[2]] IN (IF Ends(l) THEN <<>> ELSE f[Behind(l, at)]) \o Leg(l, at)

LEMMA RankOrder ==
  ASSUME NEW k \in Nat, NEW u \in Nat, NEW a \in 0 .. u, NEW b \in 0 .. u, k > 0
  PROVE  (k - 1) * (u + 1) + a < k * (u + 1) + b
<1>1. PICK m \in Int : m = (k - 1) * (u + 1)
  OBVIOUS
<1>2. k * (u + 1) = m + (u + 1)
  BY <1>1
<1> QED BY <1>1, <1>2

LEMMA RankType ==
  ASSUME RInv, NEW k \in Rounds, NEW s \in Stops
  PROVE  Rank(<<k, s>>) \in Nat /\ Rank(<<k, s>>) < (q.rounds + 1) * (Unreached + 1) /\ (q.rounds + 1) * (Unreached + 1) \in Nat
<1>1. k \in 0 .. q.rounds /\ q.rounds \in Nat /\ Unreached \in Nat
  BY RoundsType, TimeAssumption DEF RInv, TypeOK, Rounds
<1>2. tau[k][s] \in 0 .. Unreached
  BY TablesTyped DEF RInv, TablesOK
<1>3. PICK m \in Nat : m = k * (Unreached + 1)
  BY <1>1
<1>4. Rank(<<k, s>>) = m + tau[k][s]
  BY <1>3 DEF Rank
<1>5. \A n, u \in Nat : \A i \in 0 .. n : i * (u + 1) + (u + 1) <= (n + 1) * (u + 1) /\ (n + 1) * (u + 1) \in Nat
  <2> SUFFICES ASSUME NEW n \in Nat, NEW u \in Nat, NEW i \in 0 .. n
               PROVE  i * (u + 1) + (u + 1) <= (n + 1) * (u + 1) /\ (n + 1) * (u + 1) \in Nat
    OBVIOUS
  <2>1. n - i \in Nat /\ u + 1 \in Nat
    OBVIOUS
  <2>2. (n - i) * (u + 1) \in Nat
    BY <2>1
  <2>3. (n + 1) * (u + 1) = (n - i) * (u + 1) + i * (u + 1) + (u + 1)
    OBVIOUS
  <2>4. i * (u + 1) \in Nat
    OBVIOUS
  <2> QED BY <2>2, <2>3, <2>4
<1>6. m + (Unreached + 1) <= (q.rounds + 1) * (Unreached + 1) /\ (q.rounds + 1) * (Unreached + 1) \in Nat
  BY <1>1, <1>3, <1>5
<1> QED BY <1>1, <1>2, <1>3, <1>4, <1>6

LEMMA BehindFalls ==
  ASSUME RInv, LInv, WalksTakeTime(q), NEW at \in Rounds \X Stops, ~Ends(labels[at[1]][at[2]])
  PROVE  /\ tau[at[1]][at[2]] # Unreached
         /\ Behind(labels[at[1]][at[2]], at) \in Rounds \X Stops
         /\ Rank(Behind(labels[at[1]][at[2]], at)) < Rank(at)
<1>1. PICK k \in Rounds, s \in Stops : at = <<k, s>>
  OBVIOUS
<1>2. PICK l : l = labels[k][s]
  OBVIOUS
<1>3. q \in Queries /\ TablesOK /\ k \in Nat /\ Unreached \in Nat
  BY TablesTyped, RoundsType, TimeAssumption DEF RInv
<1>4. tau[k][s] # Unreached
  <2> SUFFICES ASSUME tau[k][s] = Unreached PROVE FALSE
    OBVIOUS
  <2>1. l = NoLabel
    BY <1>2 DEF RInv, ChainsConsistent, LabelConsistent
  <2>2. labels[at[1]][at[2]] = l
    BY <1>1, <1>2
  <2>3. NoLabel.kind = "unreached"
    BY DEF NoLabel
  <2> QED BY <2>1, <2>2, <2>3 DEF Ends
<1>5. l.kind # "access"
  BY <1>1, <1>2 DEF Ends
<1>6. tau[k][s] \in 0 .. Unreached
  BY <1>3 DEF TablesOK
<1>7. CASE l.kind = "transfer"
  <2>1. /\ l.from \in Stops /\ l.duration \in Nat /\ q.closed /\ tau[k][l.from] + l.duration <= tau[k][s]
        /\ [from |-> l.from, to |-> s, duration |-> l.duration] \in q.transfers
    BY <1>2, <1>4, <1>7, LabelKinds DEF KindOf
  <2>2. l.duration > 0
    BY <2>1 DEF WalksTakeTime
  <2>3. tau[k][l.from] \in 0 .. Unreached
    BY <1>3, <2>1 DEF TablesOK
  <2>4. Behind(l, at) = <<k, l.from>>
    BY <1>1, <1>7 DEF Behind
  <2>5. Rank(<<k, l.from>>) < Rank(<<k, s>>)
    <3>1. PICK m \in Nat : m = k * (Unreached + 1)
      BY <1>3
    <3> QED BY <1>3, <1>6, <2>1, <2>2, <2>3, <3>1 DEF Rank
  <2> QED BY <1>1, <1>2, <1>4, <2>1, <2>4, <2>5
<1>8. CASE l.kind # "transfer"
  <2>1. k > 0 /\ BoardsAfter(k, l)
    BY <1>2, <1>4, <1>5, <1>8, LabelKinds DEF KindOf
  <2>2. Behind(l, at) = <<k - 1, BoardStop(l)>>
    BY <1>1, <1>8 DEF Behind
  <2>3. k - 1 \in Rounds /\ BoardStop(l) \in Stops
    BY <2>1 DEF BoardsAfter
  <2>4. tau[k - 1][BoardStop(l)] \in 0 .. Unreached
    BY <1>3, <2>3 DEF TablesOK
  <2>5. Rank(<<k - 1, BoardStop(l)>>) < Rank(<<k, s>>)
    BY <1>3, <1>6, <2>1, <2>4, RankOrder DEF Rank
  <2> QED BY <1>1, <1>2, <1>4, <2>2, <2>3, <2>5
<1> QED BY <1>7, <1>8

\* The recursion has a solution.
LEMMA LegsExist ==
  ASSUME RInv, LInv, WalksTakeTime(q)
  PROVE  \E f : f = [at \in Rounds \X Stops |-> LegsBy(f, at)]
<1> DEFINE domain == Rounds \X Stops
           Below(f, m) == f = [at \in domain |-> f[at]] /\ \A at \in domain : Rank(at) < m => f[at] = LegsBy(f, at)
           without == {m \in Nat : ~ \E f : Below(f, m)}
<1>1. \A at \in domain : Rank(at) \in Nat
  BY RankType
<1>2. ASSUME without # {} PROVE FALSE
  <2>1. PICK m \in without : \A i \in without : m <= i
    BY <1>2, SmallestElement
  <2>2. m # 0
    <3>1. Below([at \in domain |-> <<>>], 0)
      <4>1. \A at \in domain : ~(Rank(at) < 0)
        BY <1>1
      <4> QED BY <4>1
    <3> QED BY <2>1, <3>1, ZenonT(60)
  <2>3. PICK f : Below(f, m - 1)
    <3>1. m - 1 \in Nat /\ ~(m <= m - 1)
      BY <2>1, <2>2
    <3> QED BY <2>1, <3>1
  <2> DEFINE g == [at \in domain |-> IF Rank(at) = m - 1 THEN LegsBy(f, at) ELSE f[at]]
  <2>4. ASSUME NEW at \in domain, Rank(at) < m
        PROVE  g[at] = LegsBy(g, at)
    <3> DEFINE l == labels[at[1]][at[2]]
    <3>1. m \in Nat /\ Rank(at) \in Nat
      BY <1>1, <2>1
    <3>2. g[at] = LegsBy(f, at)
      <4>1. CASE Rank(at) = m - 1
        BY <4>1
      <4>2. CASE Rank(at) # m - 1
        <5>1. Rank(at) < m - 1
          BY <2>4, <3>1, <4>2
        <5> QED BY <2>3, <4>2, <5>1
      <4> QED BY <4>1, <4>2
    <3>3. ~Ends(l) => g[Behind(l, at)] = f[Behind(l, at)]
      <4> SUFFICES ASSUME ~Ends(l) PROVE g[Behind(l, at)] = f[Behind(l, at)]
        OBVIOUS
      <4>1. Behind(l, at) \in domain /\ Rank(Behind(l, at)) < Rank(at)
        BY BehindFalls
      <4>2. Rank(Behind(l, at)) \in Nat
        BY <1>1, <4>1
      <4>3. Rank(Behind(l, at)) # m - 1
        BY <2>4, <3>1, <4>1, <4>2
      <4> HIDE DEF l
      <4> QED BY <4>1, <4>3
    <3>4. LegsBy(g, at) = LegsBy(f, at)
      <4> HIDE DEF g
      <4> QED BY <3>3 DEF LegsBy
    <3> QED BY <3>2, <3>4
  <2>5. g = [at \in domain |-> g[at]]
    OBVIOUS
  <2> HIDE DEF g
  <2>6. Below(g, m)
    BY <2>4, <2>5
  <2> QED BY <2>1, <2>6
<1>3. PICK m \in Nat : m = (q.rounds + 1) * (Unreached + 1)
  <2>1. q.rounds \in Nat /\ Unreached \in Nat
    BY RoundsType, TimeAssumption DEF RInv, TypeOK
  <2> QED BY <2>1
<1>4. PICK f : Below(f, m)
  BY <1>2
<1>5. \A at \in domain : Rank(at) < m
  BY <1>3, RankType
<1> HIDE DEF domain
<1>6. f = [at \in domain |-> LegsBy(f, at)]
  BY <1>4, <1>5
<1> QED BY <1>6 DEF domain

LEMMA LegsUnfold ==
  ASSUME RInv, LInv, WalksTakeTime(q), NEW at \in Rounds \X Stops
  PROVE  Legs[at] = LegsBy(Legs, at)
<1> DEFINE Solves(f) == f = [a \in Rounds \X Stops |-> LegsBy(f, a)]
<1>1. Legs = CHOOSE f : Solves(f)
  BY DEF Legs, LegsBy
<1>2. Solves(Legs)
  BY <1>1, LegsExist
<1> QED BY <1>2

----------------------------------------------------------------------------
(* Legs make a journey.                                                    *)

\* Legs of a journey with k rides, leaving at the pass's departure, that is
\* at s at the given time.
WellMade(legs, k, s, arrival) ==
  /\ \E S : legs \in Seq(S)
  /\ Len(legs) > 0
  /\ legs[1].mode = "access" /\ legs[1].departure = Now
  /\ [stop |-> legs[1].to, duration |-> legs[1].arrival - Now] \in q.access
  /\ \A i \in 2 .. Len(legs) : /\ legs[i].from = legs[i - 1].to
                               /\ legs[i].departure >= legs[i - 1].arrival
                               /\ legs[i].arrival >= legs[i].departure
  /\ \A i \in 1 .. Len(legs) : legs[i].to \notin q.excluded
  /\ IsFiniteSet({i \in 1 .. Len(legs) : legs[i].mode = "transit"})
  /\ Cardinality({i \in 1 .. Len(legs) : legs[i].mode = "transit"}) = k
  /\ legs[Len(legs)].to = s /\ legs[Len(legs)].arrival = arrival

\* A sequence with one element more.
LEMMA OneMore ==
  ASSUME NEW S, NEW s \in Seq(S), NEW x
  PROVE  /\ \E T : s \o <<x>> \in Seq(T)
         /\ Len(s \o <<x>>) = Len(s) + 1
         /\ (s \o <<x>>)[Len(s) + 1] = x
         /\ \A i \in 1 .. Len(s) : (s \o <<x>>)[i] = s[i]
<1>1. PICK T : T = S \cup {x}
  OBVIOUS
<1>2. s \in Seq(T) /\ <<x>> \in Seq(T) /\ Len(<<x>>) = 1 /\ <<x>>[1] = x /\ Len(s) \in Nat
  BY <1>1
<1>3. \A a, b \in Seq(T) : /\ a \o b \in Seq(T) /\ Len(a \o b) = Len(a) + Len(b)
                           /\ \A i \in 1 .. Len(a) : (a \o b)[i] = a[i]
                           /\ \A i \in 1 .. Len(b) : (a \o b)[Len(a) + i] = b[i]
  OBVIOUS
<1> QED BY <1>2, <1>3

LEMMA TwoMore ==
  ASSUME NEW S, NEW s \in Seq(S), NEW x, NEW y
  PROVE  s \o <<x, y>> = (s \o <<x>>) \o <<y>>
<1>1. PICK T : T = S \cup {x, y}
  OBVIOUS
<1>2. s \in Seq(T) /\ x \in T /\ y \in T
  BY <1>1
<1>3. \A a \in Seq(T), u \in T, v \in T : a \o <<u, v>> = (a \o <<u>>) \o <<v>>
  <2> SUFFICES ASSUME NEW a \in Seq(T), NEW u \in T, NEW v \in T
               PROVE  a \o <<u, v>> = (a \o <<u>>) \o <<v>>
    OBVIOUS
  <2>1. PICK pair : pair = <<u, v>>
    OBVIOUS
  <2>2. PICK first : first = <<u>>
    OBVIOUS
  <2>3. PICK last : last = <<v>>
    OBVIOUS
  <2>4. /\ pair \in Seq(T) /\ Len(pair) = 2 /\ pair[1] = u /\ pair[2] = v
        /\ first \in Seq(T) /\ Len(first) = 1 /\ first[1] = u
        /\ last \in Seq(T) /\ Len(last) = 1 /\ last[1] = v
    BY <2>1, <2>2, <2>3
  <2>5. /\ a \o pair \in Seq(T) /\ Len(a \o pair) = Len(a) + 2
        /\ a \o first \in Seq(T) /\ Len(a \o first) = Len(a) + 1
        /\ (a \o first) \o last \in Seq(T) /\ Len((a \o first) \o last) = Len(a) + 2
        /\ Len(a) \in Nat
    <3>1. \A c, d \in Seq(T) : c \o d \in Seq(T) /\ Len(c \o d) = Len(c) + Len(d) /\ Len(c) \in Nat
      OBVIOUS
    <3>2. /\ a \o pair \in Seq(T) /\ Len(a \o pair) = Len(a) + 2
          /\ a \o first \in Seq(T) /\ Len(a \o first) = Len(a) + 1 /\ Len(a) \in Nat
      BY <2>4, <3>1
    <3>3. (a \o first) \o last \in Seq(T) /\ Len((a \o first) \o last) = (Len(a) + 1) + 1
      BY <2>4, <3>1, <3>2
    <3> QED BY <3>2, <3>3
  <2>6. ASSUME NEW i \in 1 .. Len(a) + 2
        PROVE  (a \o pair)[i] = ((a \o first) \o last)[i]
    <3>1. CASE i \in 1 .. Len(a)
      BY <2>4, <2>5, <3>1
    <3>2. CASE i = Len(a) + 1
      BY <2>4, <2>5, <3>2
    <3>3. CASE i = Len(a) + 2
      BY <2>4, <2>5, <3>3
    <3> QED BY <2>5, <3>1, <3>2, <3>3
  <2>7. \A c, d \in Seq(T) : Len(c) = Len(d) /\ (\A i \in 1 .. Len(c) : c[i] = d[i]) => c = d
    OBVIOUS
  <2>8. a \o pair = (a \o first) \o last
    BY <2>5, <2>6, <2>7
  <2> QED BY <2>1, <2>2, <2>3, <2>8
<1> QED BY <1>2, <1>3

LEMMA WellMadeOnward ==
  ASSUME NEW legs, NEW k \in Nat, NEW s, NEW arrival, WellMade(legs, k, s, arrival),
         NEW x, x.from = s, x.departure >= arrival, x.arrival >= x.departure, x.to \notin q.excluded,
         x.mode # "access"
  PROVE  WellMade(legs \o <<x>>, IF x.mode = "transit" THEN k + 1 ELSE k, x.to, x.arrival)
<1>1. PICK S : legs \in Seq(S)
  BY DEF WellMade
<1>2. PICK n \in Nat : n = Len(legs) /\ n > 0
  <2>1. Len(legs) \in Nat /\ Len(legs) > 0
    BY <1>1 DEF WellMade
  <2> QED BY <2>1
<1>3. PICK more : more = legs \o <<x>>
  OBVIOUS
<1>4. /\ \E T : more \in Seq(T)
      /\ Len(more) = n + 1 /\ more[n + 1] = x /\ \A i \in 1 .. n : more[i] = legs[i]
  <2>1. /\ \E T : legs \o <<x>> \in Seq(T)
        /\ Len(legs \o <<x>>) = Len(legs) + 1
        /\ (legs \o <<x>>)[Len(legs) + 1] = x
        /\ \A i \in 1 .. Len(legs) : (legs \o <<x>>)[i] = legs[i]
    BY <1>1, OneMore, SMTT(30)
  <2>2. more = legs \o <<x>> /\ Len(legs) = n
    BY <1>2, <1>3
  <2> QED BY <2>1, <2>2
<1>5. /\ legs[1].mode = "access" /\ legs[1].departure = Now
      /\ [stop |-> legs[1].to, duration |-> legs[1].arrival - Now] \in q.access
      /\ \A i \in 2 .. n : /\ legs[i].from = legs[i - 1].to
                           /\ legs[i].departure >= legs[i - 1].arrival
                           /\ legs[i].arrival >= legs[i].departure
      /\ \A i \in 1 .. n : legs[i].to \notin q.excluded
      /\ IsFiniteSet({i \in 1 .. n : legs[i].mode = "transit"})
      /\ Cardinality({i \in 1 .. n : legs[i].mode = "transit"}) = k
      /\ legs[n].to = s /\ legs[n].arrival = arrival
  BY <1>2 DEF WellMade
<1>6. /\ 1 \in 1 .. n /\ n \in 1 .. n
      /\ \A i \in 2 .. n + 1 : (i \in 2 .. n /\ i \in 1 .. n /\ i - 1 \in 1 .. n) \/ (i = n + 1 /\ i - 1 = n)
      /\ \A i \in 1 .. n + 1 : i \in 1 .. n \/ i = n + 1
      /\ \A i \in 1 .. n : i \in 1 .. n + 1 /\ i # n + 1
      /\ n + 1 \in 1 .. n + 1
  BY <1>2
<1>7. ASSUME NEW i \in 2 .. n + 1
      PROVE  /\ more[i].from = more[i - 1].to
             /\ more[i].departure >= more[i - 1].arrival
             /\ more[i].arrival >= more[i].departure
  <2>1. CASE i \in 2 .. n /\ i \in 1 .. n /\ i - 1 \in 1 .. n
    BY <1>4, <1>5, <2>1
  <2>2. CASE i = n + 1 /\ i - 1 = n
    BY <1>4, <1>5, <1>6, <2>2
  <2> QED BY <1>6, <2>1, <2>2
<1>8. \A i \in 1 .. n + 1 : more[i].to \notin q.excluded
  BY <1>4, <1>5, <1>6
<1> DEFINE rides == {i \in 1 .. n : legs[i].mode = "transit"}
           all == {i \in 1 .. n + 1 : more[i].mode = "transit"}
<1>9. all = IF x.mode = "transit" THEN rides \cup {n + 1} ELSE rides
  BY <1>4, <1>6
<1>10. n + 1 \notin rides
  BY <1>6
<1>11. IsFiniteSet(all) /\ Cardinality(all) = IF x.mode = "transit" THEN k + 1 ELSE k
  <2>1. IsFiniteSet(rides) /\ Cardinality(rides) = k
    BY <1>5
  <2> HIDE DEF rides, all
  <2> QED BY <1>9, <1>10, <2>1, FS_AddElement
<1>12. more[1] = legs[1]
  BY <1>4, <1>6
<1>13. Len(more) > 0
  BY <1>2, <1>4
<1> HIDE DEF rides
<1>14. WellMade(more, IF x.mode = "transit" THEN k + 1 ELSE k, x.to, x.arrival)
  BY <1>4, <1>5, <1>7, <1>8, <1>11, <1>12, <1>13 DEF WellMade
<1> QED BY <1>3, <1>14

\* Every stop an access link reaches is reached by the pass at work: each
\* pass leaves sooner than those before it.
LEMMA AccessNow ==
  ASSUME RInv, CInv, SInv, pc = "collect", NEW s \in Stops, tau[0][s] # Unreached
  PROVE  /\ s \notin q.excluded
         /\ \E a \in q.access : a.stop = s /\ tau[0][s] = Now + a.duration
<1>1. q \in Queries /\ TablesOK /\ BestIsPrefixMin /\ AccessServed /\ 0 \in Rounds /\ Unreached \in Nat
  BY TablesTyped, ClosedServes, RoundsType, TimeAssumption DEF RInv, PassClosed
<1>2. tau[0][s] \in 0 .. Unreached /\ tau[0][s] < Unreached
  <2>1. tau[0][s] \in 0 .. Unreached
    BY <1>1 DEF TablesOK
  <2> QED BY <1>1, <2>1
<1>3. PICK i \in 1 .. pass, a \in q.access : a.stop = s /\ s \notin q.excluded /\ tau[0][s] = q.departures[i] + a.duration
  BY <1>2 DEF SInv, ArrivalsReal, Linked
<1>4. pass \in 1 .. Len(q.departures) /\ Len(q.departures) \in Nat
  <2>1. pass \in 0 .. Len(q.departures) /\ pass > 0 /\ Len(q.departures) \in Nat
    BY <1>1, DeparturesSeq DEF RInv, TypeOK, InRound
  <2> QED BY <2>1
<1>5. i \in 1 .. Len(q.departures) /\ pass \in 1 .. pass /\ (i = pass \/ i < pass)
  BY <1>4
<1>6. q.departures[i] \in Nat /\ Now \in Nat /\ a.duration \in Nat
  <2>1. q.departures \in Seq(Times)
    BY <1>1, DeparturesSeq
  <2>2. q.departures[i] \in Times /\ q.departures[pass] \in Times
    BY <1>4, <1>5, <2>1, ElementOfSeq
  <2> QED BY <1>1, <2>2, QueriesAssumption DEF WellFormedRequest, Times, Now
<1>7. CASE i = pass
  BY <1>3, <1>7 DEF Now
<1>8. CASE i < pass
  <2>1. Now < q.departures[i]
    BY <1>1, <1>4, <1>5, <1>8, QueriesAssumption DEF WellFormedRequest, Now
  <2>2. best[0][s] <= Now + a.duration
    <3>1. Now + a.duration < Unreached
      BY <1>1, <1>2, <1>3, <1>6, <2>1
    <3> QED BY <1>1, <1>3, <1>5, <3>1 DEF AccessServed, Now
  <2>3. best[0][s] = tau[0][s]
    <3>1. PICK j \in 0 .. 0 : best[0][s] = tau[j][s]
      BY <1>1 DEF BestIsPrefixMin
    <3>2. j = 0
      OBVIOUS
    <3> QED BY <3>1, <3>2
  <2> QED BY <1>3, <1>6, <2>1, <2>2, <2>3
<1> QED BY <1>3, <1>5, <1>7, <1>8

LEMMA EmptyBefore == \A S : \A t \in Seq(S) : <<>> \o t = t
  OBVIOUS

LEMMA WellMadeAccess ==
  ASSUME RInv, CInv, SInv, pc = "collect", NEW s \in Stops, tau[0][s] # Unreached
  PROVE  WellMade(<<[mode |-> "access", to |-> s, departure |-> Now, arrival |-> tau[0][s]]>>, 0, s, tau[0][s])
<1> DEFINE leg == [mode |-> "access", to |-> s, departure |-> Now, arrival |-> tau[0][s]]
<1>1. PICK a \in q.access : a.stop = s /\ tau[0][s] = Now + a.duration /\ s \notin q.excluded
  BY AccessNow
<1>2. q \in Queries /\ Now \in Nat /\ a.duration \in Nat /\ a = [stop |-> s, duration |-> a.duration]
  <2>1. q \in Queries
    BY DEF RInv, TypeOK
  <2>2. a \in [stop : Stops, duration : Nat]
    BY <2>1, QueriesAssumption DEF WellFormedRequest
  <2>3. Now \in Times
    <3>1. pass \in 0 .. Len(q.departures) /\ pass > 0 /\ q.departures \in Seq(Times) /\ Len(q.departures) \in Nat
      BY <2>1, DeparturesSeq DEF RInv, TypeOK, InRound
    <3>2. pass \in 1 .. Len(q.departures)
      BY <3>1
    <3> QED BY <3>1, <3>2, ElementOfSeq DEF Now
  <2> QED BY <1>1, <2>1, <2>2, <2>3 DEF Times
<1>3. leg.mode = "access" /\ leg.departure = Now /\ leg.to = s /\ leg.arrival = tau[0][s]
  OBVIOUS
<1>4. [stop |-> leg.to, duration |-> leg.arrival - Now] \in q.access
  <2>1. leg.arrival - Now = a.duration
    BY <1>1, <1>2
  <2> QED BY <1>2, <2>1
<1> HIDE DEF leg
<1>5. PICK legs : legs = <<leg>>
  OBVIOUS
<1>6. legs \in Seq({leg}) /\ Len(legs) = 1 /\ legs[1] = leg
  BY <1>5
<1>7. {i \in 1 .. 1 : legs[i].mode = "transit"} = {}
  <2>1. \A i \in 1 .. 1 : i = 1
    OBVIOUS
  <2> QED BY <1>3, <1>6, <2>1
<1>8. \A i \in 2 .. 1 : FALSE
  OBVIOUS
<1>9. \A i \in 1 .. 1 : legs[i].to \notin q.excluded
  <2>1. \A i \in 1 .. 1 : i = 1
    OBVIOUS
  <2> QED BY <1>1, <1>3, <1>6, <2>1
<1>10. IsFiniteSet({}) /\ Cardinality({}) = 0
  BY FS_EmptySet
<1>11. /\ IsFiniteSet({i \in 1 .. Len(legs) : legs[i].mode = "transit"})
       /\ Cardinality({i \in 1 .. Len(legs) : legs[i].mode = "transit"}) = 0
  BY <1>6, <1>7, <1>10
<1>12. /\ Len(legs) > 0 /\ legs[Len(legs)].to = s /\ legs[Len(legs)].arrival = tau[0][s]
       /\ legs[1].mode = "access" /\ legs[1].departure = Now
       /\ [stop |-> legs[1].to, duration |-> legs[1].arrival - Now] \in q.access
  BY <1>3, <1>4, <1>6
<1>13. /\ \A i \in 1 .. Len(legs) : legs[i].to \notin q.excluded
       /\ \A i \in 2 .. Len(legs) : /\ legs[i].from = legs[i - 1].to
                                    /\ legs[i].departure >= legs[i - 1].arrival
                                    /\ legs[i].arrival >= legs[i].departure
  BY <1>6, <1>8, <1>9
<1>14. \E S : legs \in Seq(S)
  BY <1>6
<1>15. WellMade(legs, 0, s, tau[0][s])
  BY <1>11, <1>12, <1>13, <1>14 DEF WellMade
<1> QED BY <1>5, <1>15 DEF leg

\* No arrival is one at an excluded stop.
LEMMA ReachedAllowed ==
  ASSUME RInv, SInv, NEW k \in Rounds, NEW s \in Stops, tau[k][s] # Unreached
  PROVE  s \notin q.excluded
<1>1. q \in Queries /\ TablesOK /\ Unreached \in Nat
  BY TablesTyped, TimeAssumption DEF RInv, TypeOK
<1>2. tau[k][s] < Unreached
  <2>1. tau[k][s] \in 0 .. Unreached
    BY <1>1 DEF TablesOK
  <2> QED BY <1>1, <2>1
<1>3. k \in 0 .. q.rounds /\ q.rounds \in Nat
  BY <1>1, RoundsType DEF Rounds
<1>4. k = 0 \/ k \in 1 .. q.rounds
  BY <1>3
<1>5. CASE k = 0
  BY <1>2, <1>5 DEF SInv, ArrivalsReal, Linked
<1>6. CASE k \in 1 .. q.rounds
  BY <1>2, <1>6 DEF SInv, ArrivalsReal, Ridden, Walked
<1> QED BY <1>4, <1>5, <1>6

\* One label's legs make a journey if those behind it do.
LEMMA ChainOnward ==
  ASSUME RInv, CInv, SInv, LInv, pc = "collect", WalksTakeTime(q), NEW k \in Rounds, NEW s \in Stops,
         tau[k][s] # Unreached, NEW l, l = labels[k][s],
         \A j \in Rounds, u \in Stops :
           ~Ends(l) /\ Behind(l, <<k, s>>) = <<j, u>> /\ tau[j][u] # Unreached => WellMade(Legs[<<j, u>>], j, u, tau[j][u])
  PROVE  WellMade(Legs[<<k, s>>], k, s, tau[k][s])
<1>1. q \in Queries /\ TablesOK /\ k \in Nat /\ 0 \in Rounds /\ s \notin q.excluded
  BY TablesTyped, RoundsType, ReachedAllowed DEF RInv
<1>2. Legs[<<k, s>>] = (IF Ends(l) THEN <<>> ELSE Legs[Behind(l, <<k, s>>)]) \o Leg(l, <<k, s>>)
  BY LegsUnfold DEF LegsBy
<1>3. tau[k][s] \in Nat
  BY <1>1, TimeAssumption DEF TablesOK
<1>4. CASE k = 0 /\ l.kind = "access"
  <2> DEFINE leg == [mode |-> "access", to |-> s, departure |-> Now, arrival |-> tau[0][s]]
  <2>1. Leg(l, <<k, s>>) = <<leg>> /\ Ends(l)
    BY <1>4 DEF Leg, Ends
  <2>2. Legs[<<k, s>>] = <<leg>>
    <3>1. <<leg>> \in Seq({leg})
      OBVIOUS
    <3> HIDE DEF leg
    <3> QED BY <1>2, <2>1, <3>1, EmptyBefore
  <2>3. WellMade(<<leg>>, 0, s, tau[0][s])
    BY <1>4, WellMadeAccess
  <2> HIDE DEF leg
  <2> QED BY <1>4, <2>2, <2>3
<1>5. CASE l.kind = "transit" /\ k > 0 /\ BoardsAfter(k, l) /\ AlightTime(l) = tau[k][s]
  <2> DEFINE leg == TransitLeg(l, s)
             b == BoardStop(l)
  <2>1. /\ leg.mode = "transit" /\ leg.from = b /\ leg.to = s /\ leg.departure = BoardTime(l)
        /\ leg.arrival = tau[k][s]
    BY <1>5 DEF TransitLeg
  <2>2. Leg(l, <<k, s>>) = <<leg>> /\ ~Ends(l) /\ Behind(l, <<k, s>>) = <<k - 1, b>>
    BY <1>5 DEF Leg, Ends, Behind
  <2> HIDE DEF leg, b
  <2>3. /\ k - 1 \in Rounds /\ k - 1 \in Nat /\ (k - 1) + 1 = k /\ b \in Stops /\ tau[k - 1][b] # Unreached
        /\ tau[k - 1][b] <= leg.departure /\ leg.departure <= leg.arrival
        /\ leg.departure \in Int /\ tau[k - 1][b] \in Int
    BY <1>1, <1>3, <1>5, <2>1 DEF BoardsAfter, TablesOK, b
  <2>4. WellMade(Legs[<<k - 1, b>>], k - 1, b, tau[k - 1][b])
    BY <2>2, <2>3
  <2>5. leg.departure >= tau[k - 1][b] /\ leg.arrival >= leg.departure
    BY <1>3, <2>1, <2>3
  <2>6. WellMade(Legs[<<k - 1, b>>] \o <<leg>>, IF leg.mode = "transit" THEN (k - 1) + 1 ELSE k - 1, leg.to, leg.arrival)
    BY <1>1, <2>1, <2>3, <2>4, <2>5, WellMadeOnward
  <2> QED BY <1>2, <2>1, <2>2, <2>3, <2>6
<1>6. CASE /\ l.kind = "transfer" /\ k > 0 /\ q.closed /\ l.from \in Stops /\ l.duration \in Nat
           /\ tau[k][l.from] + l.duration <= tau[k][s]
           /\ [from |-> l.from, to |-> s, duration |-> l.duration] \in q.transfers
  <2> DEFINE leg == WalkLeg(l, <<k, s>>)
             f == l.from
  <2>1. /\ leg.mode = "transfer" /\ leg.from = f /\ leg.to = s /\ leg.departure = tau[k][s] - l.duration
        /\ leg.arrival = tau[k][s]
    BY DEF WalkLeg
  <2>2. Leg(l, <<k, s>>) = <<leg>> /\ ~Ends(l) /\ Behind(l, <<k, s>>) = <<k, f>>
    BY <1>6 DEF Leg, Ends, Behind
  <2> HIDE DEF leg, f
  <2>3. f \in Stops /\ tau[k][f] \in 0 .. Unreached /\ tau[k][f] + l.duration <= tau[k][s]
    BY <1>1, <1>6 DEF TablesOK, f
  <2>4. leg.departure >= tau[k][f] /\ leg.arrival >= leg.departure
    BY <1>3, <1>6, <2>1, <2>3
  <2>5. tau[k][f] # Unreached
    <3>1. Rank(<<k, f>>) < Rank(<<k, s>>)
      <4>1. <<k, s>> \in Rounds \X Stops /\ <<k, s>>[1] = k /\ <<k, s>>[2] = s
        OBVIOUS
      <4> QED BY <2>2, <4>1, BehindFalls
    <3>2. tau[k][s] \in 0 .. Unreached /\ Unreached \in Nat
      BY <1>1, TimeAssumption DEF TablesOK
    <3>3. PICK m \in Nat : m = k * (Unreached + 1)
      BY <1>1, <3>2
    <3>4. tau[k][f] < tau[k][s]
      BY <2>3, <3>1, <3>2, <3>3 DEF Rank
    <3> QED BY <2>3, <3>2, <3>4
  <2>6. WellMade(Legs[<<k, f>>], k, f, tau[k][f])
    BY <2>2, <2>3, <2>5
  <2>7. WellMade(Legs[<<k, f>>] \o <<leg>>, IF leg.mode = "transit" THEN k + 1 ELSE k, leg.to, leg.arrival)
    BY <1>1, <2>1, <2>4, <2>6, WellMadeOnward
  <2> QED BY <1>2, <2>1, <2>2, <2>7
<1>7. CASE /\ l.kind = "walked ride" /\ k > 0 /\ BoardsAfter(k, l) /\ l.from \in Stops \ q.excluded
           /\ l.duration \in Nat /\ AlightTime(l) + l.duration = tau[k][s]
  <2> DEFINE ride == TransitLeg(l, l.from)
             walk == WalkLeg(l, <<k, s>>)
             b == BoardStop(l)
  <2>1. /\ ride.mode = "transit" /\ ride.from = b /\ ride.to = l.from /\ ride.departure = BoardTime(l)
        /\ ride.arrival = AlightTime(l)
    BY DEF TransitLeg
  <2>2. /\ walk.mode = "transfer" /\ walk.from = l.from /\ walk.to = s /\ walk.departure = tau[k][s] - l.duration
        /\ walk.arrival = tau[k][s]
    BY DEF WalkLeg
  <2>3. Leg(l, <<k, s>>) = <<ride, walk>> /\ ~Ends(l) /\ Behind(l, <<k, s>>) = <<k - 1, b>>
    BY <1>7 DEF Leg, Ends, Behind
  <2> HIDE DEF ride, walk, b
  <2>4. /\ k - 1 \in Rounds /\ k - 1 \in Nat /\ (k - 1) + 1 = k /\ b \in Stops /\ tau[k - 1][b] # Unreached
        /\ tau[k - 1][b] <= ride.departure /\ ride.departure <= ride.arrival
        /\ ride.departure \in Int /\ ride.arrival \in Int /\ tau[k - 1][b] \in Int
    <3>1. BoardsAfter(k, l)
      BY <1>7
    <3>2. /\ k - 1 \in Rounds /\ b \in Stops /\ tau[k - 1][b] < Unreached
          /\ tau[k - 1][b] <= BoardTime(l) /\ BoardTime(l) <= AlightTime(l)
          /\ BoardTime(l) \in Nat /\ AlightTime(l) \in Nat
      BY <3>1 DEF BoardsAfter, b
    <3>3. tau[k - 1][b] \in 0 .. Unreached /\ Unreached \in Nat
      BY <1>1, <3>2, TimeAssumption DEF TablesOK
    <3>4. k > 0 /\ k \in Nat
      BY <1>1, <1>7
    <3>5. k - 1 \in Nat /\ (k - 1) + 1 = k
      BY <3>4
    <3>6. tau[k - 1][b] # Unreached /\ tau[k - 1][b] \in Int
      BY <3>2, <3>3
    <3> QED BY <2>1, <3>2, <3>5, <3>6
  <2>5. WellMade(Legs[<<k - 1, b>>], k - 1, b, tau[k - 1][b])
    BY <2>3, <2>4
  <2>6. ride.departure >= tau[k - 1][b] /\ ride.arrival >= ride.departure
    BY <2>4
  <2>7. WellMade(Legs[<<k - 1, b>>] \o <<ride>>, IF ride.mode = "transit" THEN (k - 1) + 1 ELSE k - 1, ride.to, ride.arrival)
    BY <1>7, <2>1, <2>4, <2>5, <2>6, WellMadeOnward
  <2>8. WellMade(Legs[<<k - 1, b>>] \o <<ride>>, k, l.from, ride.arrival)
    BY <2>1, <2>4, <2>7
  <2>9. walk.departure >= ride.arrival /\ walk.arrival >= walk.departure
    <3>1. PICK x \in Int : x = ride.arrival
      BY <2>4
    <3>2. PICK d \in Nat : d = l.duration
      BY <1>7
    <3>3. x + d = tau[k][s]
      BY <1>7, <2>1, <3>1, <3>2
    <3> QED BY <1>3, <2>2, <3>1, <3>2, <3>3
  <2>10. WellMade((Legs[<<k - 1, b>>] \o <<ride>>) \o <<walk>>, IF walk.mode = "transit" THEN k + 1 ELSE k, walk.to, walk.arrival)
    BY <1>1, <2>2, <2>8, <2>9, WellMadeOnward
  <2>11. (Legs[<<k - 1, b>>] \o <<ride>>) \o <<walk>> = Legs[<<k - 1, b>>] \o <<ride, walk>>
    <3>1. PICK legs : legs = Legs[<<k - 1, b>>]
      OBVIOUS
    <3>2. WellMade(legs, k - 1, b, tau[k - 1][b])
      BY <2>5, <3>1
    <3>3. PICK S : legs \in Seq(S)
      BY <3>2 DEF WellMade
    <3>4. legs \o <<ride, walk>> = (legs \o <<ride>>) \o <<walk>>
      BY <3>3, TwoMore
    <3> QED BY <3>1, <3>4
  <2> QED BY <1>2, <2>2, <2>3, <2>10, <2>11
<1>8. KindOf(k, s, l)
  BY LabelKinds
<1> QED BY <1>4, <1>5, <1>6, <1>7, <1>8 DEF KindOf

LEMMA ChainsMade ==
  ASSUME RInv, CInv, SInv, LInv, pc = "collect", WalksTakeTime(q)
  PROVE  \A k \in Rounds, s \in Stops : tau[k][s] # Unreached => WellMade(Legs[<<k, s>>], k, s, tau[k][s])
<1> DEFINE Made(k, s) == tau[k][s] # Unreached => WellMade(Legs[<<k, s>>], k, s, tau[k][s])
           broken == {m \in Nat : \E k \in Rounds, s \in Stops : m = Rank(<<k, s>>) /\ ~Made(k, s)}
<1>1. ASSUME broken # {} PROVE FALSE
  <2>1. PICK m \in broken : \A i \in broken : m <= i
    <3>1. broken \in SUBSET Nat
      OBVIOUS
    <3> HIDE DEF broken
    <3> QED BY <1>1, <3>1, SmallestElement
  <2>2. PICK k \in Rounds, s \in Stops : m = Rank(<<k, s>>) /\ ~Made(k, s)
    BY <2>1
  <2>3. PICK l : l = labels[k][s]
    OBVIOUS
  <2>4. ASSUME NEW j \in Rounds, NEW u \in Stops, ~Ends(l), Behind(l, <<k, s>>) = <<j, u>>
        PROVE  Made(j, u)
    <3>1. Rank(<<j, u>>) < Rank(<<k, s>>)
      <4>1. <<k, s>> \in Rounds \X Stops /\ <<k, s>>[1] = k /\ <<k, s>>[2] = s
        OBVIOUS
      <4> QED BY <2>3, <2>4, <4>1, BehindFalls
    <3>2. Rank(<<j, u>>) \in Nat /\ m \in Nat
      BY <2>1, RankType
    <3>3. ~(m <= Rank(<<j, u>>))
      BY <2>2, <3>1, <3>2
    <3>4. Rank(<<j, u>>) \notin broken
      BY <2>1, <3>3
    <3> QED BY <3>2, <3>4
  <2>5. tau[k][s] # Unreached /\ ~WellMade(Legs[<<k, s>>], k, s, tau[k][s])
    BY <2>2
  <2>6. \A j \in Rounds, u \in Stops :
          ~Ends(l) /\ Behind(l, <<k, s>>) = <<j, u>> /\ tau[j][u] # Unreached => WellMade(Legs[<<j, u>>], j, u, tau[j][u])
    BY <2>4
  <2> QED BY <2>3, <2>5, <2>6, ChainOnward
<1>2. \A k \in Rounds, s \in Stops : Made(k, s)
  <2> SUFFICES ASSUME NEW k \in Rounds, NEW s \in Stops PROVE Made(k, s)
    OBVIOUS
  <2>1. Rank(<<k, s>>) \in Nat
    BY RankType
  <2> QED BY <1>1, <2>1
<1> QED BY <1>2

LEMMA SameCardinality == \A S : R!Cardinality(S) = Cardinality(S)
  BY SMTT(30) DEF R!Cardinality, Cardinality

\* What is emitted can be made.
LEMMA EmittedFeasible ==
  ASSUME RInv, CInv, SInv, LInv, Collect, WalksTakeTime(q), NEW e \in BestEgresses(round),
         NEW n, n = [departure |-> Now, arrival |-> ArrivalBy(round, e), rides |-> round,
                     egress |-> e, legs |-> Legs[<<round, e.stop>>]]
  PROVE  R!Feasible(q, n)
<1>1. q \in Queries /\ round \in Rounds /\ pc = "collect"
  BY CollectHere
<1>2. e \in q.egress /\ tau[round][e.stop] # Unreached /\ e.stop \in Stops
  BY <1>1, QueriesAssumption DEF BestEgresses, Egresses, WellFormedRequest
<1>3. WellMade(Legs[<<round, e.stop>>], round, e.stop, tau[round][e.stop])
  BY <1>1, <1>2, ChainsMade
<1>4. /\ n.departure = Now /\ n.arrival = tau[round][e.stop] + e.duration /\ n.rides = round /\ n.egress = e
      /\ n.legs = Legs[<<round, e.stop>>]
  BY DEF ArrivalBy
<1>5. PICK legs : legs = n.legs
  OBVIOUS
<1>6. WellMade(legs, round, e.stop, tau[round][e.stop])
  BY <1>3, <1>4, <1>5
<1>7. PICK S : legs \in Seq(S)
  BY <1>6 DEF WellMade
<1>8. /\ legs[1].mode = "access" /\ legs[1].departure = n.departure
      /\ [stop |-> legs[1].to, duration |-> legs[1].arrival - n.departure] \in q.access
  BY <1>4, <1>6 DEF WellMade
<1>9. /\ \A i \in 2 .. Len(legs) : /\ legs[i].from = legs[i - 1].to
                                   /\ legs[i].departure >= legs[i - 1].arrival
                                   /\ legs[i].arrival >= legs[i].departure
      /\ \A i \in 1 .. Len(legs) : legs[i].to \notin q.excluded
  BY <1>6 DEF WellMade
<1>10. Cardinality({i \in 1 .. Len(legs) : legs[i].mode = "transit"}) = n.rides
  BY <1>4, <1>6 DEF WellMade
<1>11. /\ n.egress \in q.egress /\ legs[Len(legs)].to = n.egress.stop
       /\ n.arrival = legs[Len(legs)].arrival + n.egress.duration
  BY <1>2, <1>4, <1>6 DEF WellMade
<1> QED BY <1>5, <1>8, <1>9, <1>10, <1>11, SameCardinality, SMTT(30) DEF R!Feasible

LEMMA SoundNext ==
  ASSUME RInv, CInv, SInv, LInv, [Next]_vars, WalksTakeTime(q) => JourneysSound
  PROVE  WalksTakeTime(q)' => JourneysSound'
<1> SUFFICES ASSUME WalksTakeTime(q') PROVE JourneysSound'
  OBVIOUS
<1>1. CASE q' = q /\ journeys' = journeys
  BY <1>1 DEF JourneysSound
<1>2. CASE Collect
  <2>1. q' = q /\ WalksTakeTime(q) /\ JourneysSound
    BY <1>2, CollectHere
  <2>2. CASE EmitNothing
    BY <2>1, <2>2 DEF EmitNothing, emitted, JourneysSound
  <2>3. CASE EmitJourney
    <3>1. PICK e \in BestEgresses(round) :
            journeys' = journeys \cup {[departure |-> Now, arrival |-> ArrivalBy(round, e), rides |-> round,
                                        egress |-> e, legs |-> Legs[<<round, e.stop>>]]}
      BY <2>3 DEF EmitJourney
    <3>2. PICK n : n = [departure |-> Now, arrival |-> ArrivalBy(round, e), rides |-> round,
                        egress |-> e, legs |-> Legs[<<round, e.stop>>]]
      OBVIOUS
    <3>3. R!Feasible(q, n)
      BY <1>2, <2>1, <3>2, EmittedFeasible
    <3>4. \A j \in journeys' : R!Feasible(q, j)
      BY <2>1, <3>1, <3>2, <3>3 DEF JourneysSound
    <3> QED BY <2>1, <3>4 DEF JourneysSound
  <2> QED BY <1>2, <2>2, <2>3 DEF Collect
<1>3. Collect \/ (q' = q /\ journeys' = journeys)
  BY DEF Next, StartPass, SeedAccess, CollectPatterns, DequeuePattern, Alight, Board, StartWalking, Walk, EndRound,
         Finish, Done, vars, emitted
<1> QED BY <1>1, <1>2, <1>3

\* Every emitted journey can be made as its legs say: reconstruct follows
\* labels of any pass back to the origin, and leaves it at the departure of
\* the pass that emits (search.rs, reconstruct).
THEOREM RaptorJourneysSound == Spec => [](WalksTakeTime(q) => JourneysSound)
<1> DEFINE J == RInv /\ CInv /\ SInv /\ LInv /\ (WalksTakeTime(q) => JourneysSound)
<1>1. Init => J
  BY InvInit, ClosedInit, RealInit, LabelsInit DEF Init, JourneysSound
<1>2. J /\ [Next]_vars => J'
  BY InvNext, ClosedNext, RealNext, LabelsNext, SoundNext
<1>3. J => (WalksTakeTime(q) => JourneysSound)
  OBVIOUS
<1> QED BY <1>1, <1>2, <1>3, PTL DEF Spec

\* The journeys of a window are its Pareto frontier, no more and no less
\* (search.rs, profile).
THEOREM RaptorFrontierExact ==
  Spec => [](/\ TwinsAgree(q) /\ AccessCloses(q) /\ Covers(q, q.window) /\ WalksTakeTime(q)
             => FrontierExact)
<1>1. /\ WalksTakeTime(q) => JourneysSound
      /\ JourneysPareto
      /\ TwinsAgree(q) /\ AccessCloses(q) /\ Covers(q, q.window) => FrontierComplete
      => (TwinsAgree(q) /\ AccessCloses(q) /\ Covers(q, q.window) /\ WalksTakeTime(q) => FrontierExact)
  BY DEF FrontierExact
<1> QED BY <1>1, RaptorJourneysSound, RaptorJourneysPareto, RaptorFrontierComplete, PTL
=============================================================================
