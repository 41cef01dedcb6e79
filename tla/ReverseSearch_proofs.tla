------------------------ MODULE ReverseSearch_proofs ------------------------
(***************************************************************************)
(* What the reverse search finds, for every timetable, transfer set and    *)
(* arrive-by request: after its rounds a stop's labels are exactly the     *)
(* undominated continuations from there (ContinuationsExact), and what the *)
(* query answers is what the forward engine, or one search for each origin *)
(* or destination, would have answered (AnswersExact).                     *)
(*                                                                         *)
(* GInv says that every label is a continuation that can be ridden; VInv   *)
(* that none is missing: a bag covers what the rides and footpaths into    *)
(* the labels of one ride less give, or the work on it is still ahead of   *)
(* the scan, aboard the trips it carries, or among the labels touched.     *)
(***************************************************************************)
EXTENDS ReverseSearch, Raptor_proofs

----------------------------------------------------------------------------
(* Labels and bags.                                                        *)

ReverseSeeds == {AnySeed} \cup DOMAIN q.walks
PendingLabels == {l \in [departure : 0 .. Deadline, achieved : {Unset}, trailing : 0 .. Deadline,
                        rooted : {FALSE}, seed : ReverseSeeds] : l.departure + l.trailing = Deadline}
FixedLabels == [departure : 0 .. Deadline, achieved : 0 .. Deadline, trailing : {0},
                rooted : BOOLEAN, seed : ReverseSeeds]
ReverseLabels == PendingLabels \cup FixedLabels

\* A bag holds a label as good.
HasAsGood(bag, l) == \E m \in bag : Dominates(m, l)

\* An arrive-by query's deadline is a time.
LEMMA DeadlineTime ==
  ASSUME q \in Queries, q.use \notin {"depart", "matrix"}
  PROVE  /\ Deadline \in Nat /\ Deadline < Unreached /\ Unreached \in Nat
         /\ ReverseSeeds \subseteq Nat
         /\ \A i \in DOMAIN q.marks : q.marks[i] \in Nat /\ q.marks[i] <= Deadline
         /\ \E i \in DOMAIN q.marks : q.marks[i] = Deadline
         /\ IsFiniteSet(q.trips)
<1>1. WellFormedArriveBy(q)
  BY ArriveByAssumption
<1>2. q.marks \in Seq(Marks) /\ Len(q.marks) > 0 /\ Unreached \in Nat
  BY <1>1, TimeAssumption DEF WellFormedArriveBy
<1>3. Len(q.marks) \in 1 .. Len(q.marks) /\ DOMAIN q.marks = 1 .. Len(q.marks)
  BY <1>2
<1>4. \A i \in 1 .. Len(q.marks) : q.marks[i] \in Marks
  BY <1>2, ElementOfSeq
<1>5. \A m \in Marks : m \in Nat /\ m < Unreached
  BY <1>2 DEF Marks
<1>6. \A i \in 1 .. Len(q.marks) : q.marks[i] <= q.marks[Len(q.marks)]
  BY <1>1 DEF WellFormedArriveBy
<1>7. ReverseSeeds \subseteq Nat /\ IsFiniteSet(q.trips)
  BY <1>1 DEF WellFormedArriveBy, ReverseSeeds, AnySeed
<1> QED BY <1>2, <1>3, <1>4, <1>5, <1>6, <1>7 DEF Deadline

LEMMA LabelFacts ==
  ASSUME q \in Queries, q.use \notin {"depart", "matrix"}, NEW l \in ReverseLabels
  PROVE  /\ l.departure \in 0 .. Deadline /\ l.trailing \in 0 .. Deadline
         /\ l.rooted \in BOOLEAN /\ l.seed \in Nat
         /\ IF Fixed(l) THEN l \in FixedLabels /\ l.achieved \in 0 .. Deadline /\ l.trailing = 0
                        ELSE l \in PendingLabels /\ l.achieved = Unset /\ l.rooted = FALSE
                             /\ l.departure + l.trailing = Deadline
<1>1. Deadline \in Nat /\ Deadline < Unreached /\ Unreached \in Nat /\ ReverseSeeds \subseteq Nat
  BY DeadlineTime
<1>2. CASE l \in PendingLabels
  BY <1>1, <1>2 DEF PendingLabels, Fixed, Unset
<1>3. CASE l \in FixedLabels
  <2>1. /\ l.departure \in 0 .. Deadline /\ l.achieved \in 0 .. Deadline /\ l.trailing = 0
        /\ l.rooted \in BOOLEAN /\ l.seed \in ReverseSeeds
    BY <1>3 DEF FixedLabels
  <2>2. l.achieved \in 0 .. Deadline /\ l.trailing = 0
    BY <2>1
  <2>3. l.achieved # Unreached /\ l.trailing \in 0 .. Deadline
    BY <1>1, <2>2
  <2>4. l.seed \in Nat
    BY <1>1, <2>1
  <2> QED BY <1>3, <2>1, <2>3, <2>4 DEF Fixed, Unset
<1> QED BY <1>2, <1>3 DEF ReverseLabels

\* How far a label is from one nothing dominates.
Slack(l) == (Deadline - l.departure) + (IF Fixed(l) THEN l.achieved ELSE l.trailing)
            + (IF l.rooted THEN 0 ELSE 1)

LEMMA SlackFalls ==
  ASSUME q \in Queries, q.use \notin {"depart", "matrix"},
         NEW a \in ReverseLabels, NEW b \in ReverseLabels, Dominates(a, b), a # b
  PROVE  Slack(a) \in Nat /\ Slack(b) \in Nat /\ Slack(a) < Slack(b)
<1>1. Deadline \in Nat
  BY DeadlineTime
<1>2. /\ a.departure \in 0 .. Deadline /\ a.trailing \in 0 .. Deadline /\ a.rooted \in BOOLEAN
      /\ IF Fixed(a) THEN a \in FixedLabels /\ a.achieved \in 0 .. Deadline /\ a.trailing = 0
                     ELSE a \in PendingLabels /\ a.achieved = Unset /\ a.rooted = FALSE
  BY LabelFacts
<1>3. /\ b.departure \in 0 .. Deadline /\ b.trailing \in 0 .. Deadline /\ b.rooted \in BOOLEAN
      /\ IF Fixed(b) THEN b \in FixedLabels /\ b.achieved \in 0 .. Deadline /\ b.trailing = 0
                     ELSE b \in PendingLabels /\ b.achieved = Unset /\ b.rooted = FALSE
  BY LabelFacts
<1>4. /\ a.seed = b.seed /\ (b.rooted => a.rooted) /\ (Fixed(a) <=> Fixed(b))
      /\ a.departure >= b.departure
      /\ IF Fixed(b) THEN a.achieved <= b.achieved ELSE a.trailing <= b.trailing
  BY <1>2, <1>3 DEF Dominates, Fixed
<1>5. CASE Fixed(b)
  <2>1. a.departure # b.departure \/ a.achieved # b.achieved \/ (a.rooted /\ ~b.rooted)
    <3>1. a \in FixedLabels /\ b \in FixedLabels
      BY <1>2, <1>3, <1>4, <1>5
    <3>2. a.trailing = b.trailing
      BY <1>2, <1>3, <1>4, <1>5
    <3> QED BY <1>4, <3>1, <3>2 DEF FixedLabels
  <2> QED BY <1>1, <1>2, <1>3, <1>4, <1>5, <2>1 DEF Slack
<1>6. CASE ~Fixed(b)
  <2>1. a.departure # b.departure \/ a.trailing # b.trailing
    <3>1. a \in PendingLabels /\ b \in PendingLabels
      BY <1>2, <1>3, <1>4, <1>6
    <3>2. a.achieved = b.achieved /\ a.rooted = b.rooted
      BY <1>2, <1>3, <1>4, <1>6
    <3> QED BY <1>4, <3>1, <3>2 DEF PendingLabels
  <2> QED BY <1>1, <1>2, <1>3, <1>4, <1>6, <2>1 DEF Slack
<1> QED BY <1>5, <1>6

LEMMA SlackType ==
  ASSUME q \in Queries, q.use \notin {"depart", "matrix"}, NEW a \in ReverseLabels
  PROVE  Slack(a) \in Nat
<1>1. Deadline \in Nat
  BY DeadlineTime
<1>2. /\ a.departure \in 0 .. Deadline /\ a.trailing \in 0 .. Deadline /\ a.rooted \in BOOLEAN
      /\ Fixed(a) => a.achieved \in 0 .. Deadline
  BY LabelFacts
<1> QED BY <1>1, <1>2 DEF Slack

LEMMA DominatesOn ==
  ASSUME q \in Queries, q.use \notin {"depart", "matrix"}, NEW a \in ReverseLabels,
         NEW b \in ReverseLabels, NEW c \in ReverseLabels, Dominates(a, b), Dominates(b, c)
  PROVE  Dominates(a, c)
<1>1. Deadline \in Nat
  BY DeadlineTime
<1>2. ASSUME NEW l \in ReverseLabels
      PROVE  l.departure \in Nat /\ l.trailing \in Nat /\ (Fixed(l) => l.achieved \in Nat)
  <2>1. /\ l.departure \in 0 .. Deadline /\ l.trailing \in 0 .. Deadline
        /\ Fixed(l) => l.achieved \in 0 .. Deadline
    BY LabelFacts
  <2> QED BY <1>1, <2>1
<1>3. /\ a.departure \in Nat /\ a.trailing \in Nat /\ (Fixed(a) => a.achieved \in Nat)
      /\ b.departure \in Nat /\ b.trailing \in Nat /\ (Fixed(b) => b.achieved \in Nat)
      /\ c.departure \in Nat /\ c.trailing \in Nat /\ (Fixed(c) => c.achieved \in Nat)
  BY <1>2
<1> QED BY <1>3 DEF Dominates, Fixed

LEMMA DominatesItself ==
  ASSUME q \in Queries, q.use \notin {"depart", "matrix"}, NEW a \in ReverseLabels
  PROVE  Dominates(a, a)
<1>1. Deadline \in Nat
  BY DeadlineTime
<1>2. /\ a.departure \in 0 .. Deadline /\ a.trailing \in 0 .. Deadline
      /\ Fixed(a) => a.achieved \in 0 .. Deadline
  BY LabelFacts
<1>3. a.departure \in Nat /\ a.trailing \in Nat /\ (Fixed(a) => a.achieved \in Nat)
  BY <1>1, <1>2
<1> QED BY <1>3 DEF Dominates

\* An insertion leaves nothing uncovered.
LEMMA InsertCovers ==
  ASSUME q \in Queries, q.use \notin {"depart", "matrix"}, NEW bag \in SUBSET ReverseLabels,
         NEW added \in SUBSET ReverseLabels, NEW x \in ReverseLabels, HasAsGood(bag \cup added, x)
  PROVE  HasAsGood(InsertAll(bag, added), x)
<1> DEFINE above == {o \in bag \cup added : Dominates(o, x)}
           slacks == {Slack(o) : o \in above}
<1>1. above \subseteq ReverseLabels /\ above # {}
  BY DEF HasAsGood
<1>2. slacks \in SUBSET Nat /\ slacks # {}
  <2>1. \A o \in above : Slack(o) \in Nat
    BY <1>1, SlackType
  <2> HIDE DEF above
  <2> QED BY <1>1, <2>1
<1>3. PICK i \in slacks : \A j \in slacks : i <= j
  <2> HIDE DEF slacks
  <2> QED BY <1>2, SmallestElement
<1>4. PICK m \in above : i = Slack(m)
  BY <1>3
<1>5. \A o \in above : Slack(m) <= Slack(o)
  BY <1>3, <1>4
<1>6. m \in bag \cup added /\ m \in ReverseLabels /\ Dominates(m, x)
  BY <1>1, <1>4
<1>7. ASSUME NEW o \in bag \cup added, Dominates(o, m) PROVE o = m
  <2>1. o \in ReverseLabels
    OBVIOUS
  <2>2. Dominates(o, x)
    BY <1>6, <1>7, <2>1, DominatesOn
  <2>3. Slack(m) <= Slack(o)
    BY <1>5, <2>2
  <2>4. o # m => Slack(o) \in Nat /\ Slack(m) \in Nat /\ Slack(o) < Slack(m)
    BY <1>6, <1>7, <2>1, SlackFalls
  <2> QED BY <2>3, <2>4
<1>8. m \in InsertAll(bag, added)
  BY <1>6, <1>7 DEF InsertAll
<1> QED BY <1>6, <1>8 DEF HasAsGood

LEMMA InsertAmong == \A bag, added : InsertAll(bag, added) \subseteq bag \cup added
BY DEF InsertAll

----------------------------------------------------------------------------
(* The continuations, one more ride in front at a time.                    *)

ByRides(f, links, rounds) ==
  f = [k \in 1 .. rounds |-> IF k = 1 THEN {x \in LastRides(links) : x.achieved <= Deadline}
                                      ELSE OneMoreRide(f[k - 1])]
LEMMA TableOfRides == \A links : \A rounds \in Nat : \E f : ByRides(f, links, rounds)
<1> SUFFICES ASSUME NEW links PROVE \A rounds \in Nat : \E f : ByRides(f, links, rounds)
  OBVIOUS
<1> DEFINE first == {x \in LastRides(links) : x.achieved <= Deadline}
           Of(f, m) == f = [k \in 1 .. m |-> IF k = 1 THEN first ELSE OneMoreRide(f[k - 1])]
           without == {m \in Nat : ~ \E f : Of(f, m)}
<1>1. ASSUME without # {} PROVE FALSE
  <2>1. PICK m \in without : \A i \in without : m <= i
    BY <1>1, SmallestElement
  <2>2. m # 0
    <3>1. Of([k \in 1 .. 0 |-> first], 0)
      OBVIOUS
    <3> QED BY <2>1, <3>1
  <2>3. PICK f : Of(f, m - 1)
    <3>1. m - 1 \in Nat /\ ~(m <= m - 1)
      BY <2>1, <2>2
    <3> QED BY <2>1, <3>1
  <2> DEFINE g == [k \in 1 .. m |-> IF k = m THEN (IF m = 1 THEN first ELSE OneMoreRide(f[m - 1])) ELSE f[k]]
  <2>4. ASSUME NEW k \in 1 .. m
        PROVE  g[k] = IF k = 1 THEN first ELSE OneMoreRide(g[k - 1])
    <3>1. m \in Nat /\ m > 0
      BY <2>1, <2>2
    <3>2. CASE k = m
      <4>1. k # 1 => k - 1 \in 1 .. m /\ k - 1 # m
        BY <3>1, <3>2
      <4>2. g[k] = (IF m = 1 THEN first ELSE OneMoreRide(f[m - 1])) /\ (k # 1 => g[k - 1] = f[k - 1])
        BY <3>2, <4>1
      <4> QED BY <3>2, <4>1, <4>2
    <3>3. CASE k # m
      <4>1. k \in 1 .. m - 1 /\ (k # 1 => k - 1 \in 1 .. m /\ k - 1 # m)
        BY <3>1, <3>3
      <4>2. g[k] = f[k] /\ (k # 1 => g[k - 1] = f[k - 1])
        BY <3>3, <4>1
      <4>3. f[k] = IF k = 1 THEN first ELSE OneMoreRide(f[k - 1])
        BY <2>3, <4>1
      <4> QED BY <4>2, <4>3
    <3> QED BY <3>2, <3>3
  <2>5. g = [k \in 1 .. m |-> g[k]]
    OBVIOUS
  <2> HIDE DEF g
  <2>6. Of(g, m)
    BY <2>4, <2>5
  <2> QED BY <2>1, <2>6
<1> QED BY <1>1 DEF ByRides

LEMMA RidesInFront ==
  ASSUME q \in Queries, NEW links
  PROVE  /\ ContinuationsTo(links)[1] = {x \in LastRides(links) : x.achieved <= Deadline}
         /\ \A k \in 2 .. q.rounds : ContinuationsTo(links)[k] = OneMoreRide(ContinuationsTo(links)[k - 1])
<1> DEFINE e == CHOOSE f : ByRides(f, links, q.rounds)
<1>1. q.rounds \in Nat /\ q.rounds > 0
  BY RoundsType
<1>2. ByRides(e, links, q.rounds)
  BY <1>1, TableOfRides
<1>3. ContinuationsTo(links) = e
  BY DEF ContinuationsTo, ByRides
<1> HIDE DEF e
<1>4. \A k \in 1 .. q.rounds : e[k] = IF k = 1 THEN {x \in LastRides(links) : x.achieved <= Deadline}
                                              ELSE OneMoreRide(e[k - 1])
  BY <1>2 DEF ByRides
<1>5. 1 \in 1 .. q.rounds /\ \A k \in 2 .. q.rounds : k \in 1 .. q.rounds /\ k # 1
  BY <1>1
<1> QED BY <1>3, <1>4, <1>5

\* A ride of the search is one of the reference's.
Usable(d, t, board, alight) ==
  /\ d \in Streams /\ t \in q.usable[d]
  /\ board \in 1 .. Len(StopsOf(q.trip_pattern[t])) /\ alight \in 1 .. Len(StopsOf(q.trip_pattern[t]))
  /\ board < alight
  /\ Open(StopAt(t, board)) /\ Open(StopAt(t, alight))
  /\ Offset(d) <= q.departure[t][board]

LEMMA UsableFacts ==
  ASSUME q \in Queries, NEW d, NEW t, NEW board, NEW alight, Usable(d, t, board, alight)
  PROVE  /\ d \in Streams /\ t \in q.usable[d] /\ t \in q.trips /\ t \in Nat /\ Offset(d) \in Nat
         /\ board \in Nat /\ alight \in Nat /\ board < alight
         /\ q.trip_pattern[t] \in DOMAIN q.pattern_stops
         /\ StopAt(t, board) \in Stops /\ StopAt(t, alight) \in Stops
         /\ q.departure[t][board] \in Nat /\ q.arrival[t][alight] \in Nat
         /\ q.departure[t][board] <= q.arrival[t][alight]
<1>1. Ridable(d, t, board, alight)
  BY DEF Usable, Ridable, Open
<1>2. /\ d \in Streams /\ t \in q.usable[d] /\ t \in q.trips /\ Offset(d) \in Nat
      /\ board \in Nat /\ alight \in Nat /\ board < alight
      /\ q.trip_pattern[t] \in DOMAIN q.pattern_stops
      /\ StopAt(t, board) \in Stops /\ StopAt(t, alight) \in Stops
      /\ t \in Twins(d, t, board)
  BY <1>1, RidableFacts
<1>3. t \in Nat /\ q.arrival[t][alight] \in Nat /\ q.departure[t][board] \in Nat
  BY <1>1, <1>2, RidableFacts
<1>4. board \in 1 .. Len(StopsOf(q.trip_pattern[t])) /\ alight \in 1 .. Len(StopsOf(q.trip_pattern[t]))
  BY DEF Usable
<1>5. q.departure[t][board] <= q.arrival[t][alight]
  BY <1>2, <1>4, QueriesAssumption DEF WellFormedTimetable, StopsOf
<1> QED BY <1>2, <1>3, <1>5

LEMMA UsableRide ==
  ASSUME q \in Queries, NEW d, NEW t, NEW board, NEW alight, Usable(d, t, board, alight)
  PROVE  \E r \in OpenRides :
           /\ R!StopAt(q, r, r.board) = StopAt(t, board) /\ R!StopAt(q, r, r.alight) = StopAt(t, alight)
           /\ R!BoardedAt(q, r) = q.departure[t][board] - Offset(d)
           /\ R!AlightedAt(q, r) = q.arrival[t][alight] - Offset(d)
<1>1. /\ d \in Streams /\ t \in q.usable[d] /\ t \in q.trips /\ Offset(d) \in Nat
      /\ board \in Nat /\ alight \in Nat /\ board < alight
      /\ q.departure[t][board] \in Nat /\ q.arrival[t][alight] \in Nat
      /\ q.departure[t][board] <= q.arrival[t][alight] /\ Offset(d) <= q.departure[t][board]
  BY UsableFacts DEF Usable
<1> DEFINE ride == [trip |-> t, board |-> board, alight |-> alight, offset |-> Offset(d)]
<1>2. ride \in Rides /\ ride.trip = t /\ ride.board = board /\ ride.alight = alight
  BY <1>1, OffsetType DEF Usable, Rides
<1> HIDE DEF ride
<1>3. PICK r \in R!PossibleRides(q) : r.stream = d /\ r.trip = t /\ r.board = board /\ r.alight = alight
  BY <1>1, <1>2, RidePossible
<1>4. StopAt(r.trip, r.alight) \notin q.excluded
  BY <1>3 DEF Usable, Open
<1>5. /\ R!StopAt(q, r, r.board) = StopAt(t, board) /\ R!StopAt(q, r, r.alight) = StopAt(t, alight)
      /\ R!BoardedAt(q, r) = q.departure[t][board] - Offset(d)
      /\ R!AlightedAt(q, r) = q.arrival[t][alight] - Offset(d)
  BY <1>3, <1>4, PossibleRide DEF ArrivesAt
<1>6. R!BoardedAt(q, r) >= 0 /\ R!AlightedAt(q, r) >= 0
  BY <1>1, <1>5
<1>7. r \in OpenRides
  BY <1>3, <1>5, <1>6 DEF OpenRides, Usable
<1> QED BY <1>5, <1>7

LEMMA RideUsable ==
  ASSUME q \in Queries, NEW r \in OpenRides
  PROVE  /\ Usable(r.stream, r.trip, r.board, r.alight)
         /\ R!StopAt(q, r, r.board) = StopAt(r.trip, r.board)
         /\ R!StopAt(q, r, r.alight) = StopAt(r.trip, r.alight)
         /\ R!BoardedAt(q, r) = q.departure[r.trip][r.board] - Offset(r.stream)
         /\ R!AlightedAt(q, r) = q.arrival[r.trip][r.alight] - Offset(r.stream)
<1>1. /\ r \in R!PossibleRides(q) /\ Open(R!StopAt(q, r, r.board)) /\ Open(R!StopAt(q, r, r.alight))
      /\ R!BoardedAt(q, r) >= 0
  BY DEF OpenRides
<1>2. R!StopAt(q, r, r.alight) = StopAt(r.trip, r.alight)
  BY DEF R!StopAt, StopAt, StopsOf
<1>3. StopAt(r.trip, r.alight) \notin q.excluded
  BY <1>1, <1>2 DEF Open
<1>4. /\ Ridable(r.stream, r.trip, r.board, r.alight)
      /\ R!StopAt(q, r, r.board) = StopAt(r.trip, r.board)
      /\ R!BoardedAt(q, r) = q.departure[r.trip][r.board] - Offset(r.stream)
      /\ R!AlightedAt(q, r) = q.arrival[r.trip][r.alight] - Offset(r.stream)
  BY <1>1, <1>3, PossibleRide DEF ArrivesAt
<1>5. Offset(r.stream) \in Nat /\ q.departure[r.trip][r.board] \in Nat
  BY <1>4, RidableFacts
<1>6. Offset(r.stream) <= q.departure[r.trip][r.board]
  BY <1>1, <1>4, <1>5
<1> QED BY <1>1, <1>2, <1>4, <1>6 DEF Usable, Ridable

LEMMA OnFootIs ==
  ASSUME NEW r, NEW s, NEW w
  PROVE  w \in OnFoot(r, s) <=>
           \/ w = 0 /\ s = R!StopAt(q, r, r.alight)
           \/ \E e \in q.transfers : e.from = R!StopAt(q, r, r.alight) /\ e.to = s /\ w = e.duration
BY DEF OnFoot

LEMMA LastRide ==
  ASSUME q \in Queries, NEW links, NEW r \in OpenRides, NEW e \in links, Open(e.stop),
         NEW w \in OnFoot(r, e.stop), R!AlightedAt(q, r) + w + e.duration <= Deadline
  PROVE  Opened(r, R!AlightedAt(q, r) + w + e.duration) \in ContinuationsTo(links)[1]
<1> DEFINE of(y, f) == {Opened(y, R!AlightedAt(q, y) + v + f.duration) : v \in OnFoot(y, f.stop)}
           x == Opened(r, R!AlightedAt(q, r) + w + e.duration)
<1>1. x \in of(r, e)
  OBVIOUS
<1>2. e \in {f \in links : Open(f.stop)}
  OBVIOUS
<1>3. LastRides(links) = UNION {of(y, f) : y \in OpenRides, f \in {f \in links : Open(f.stop)}}
  BY DEF LastRides
<1>4. x.achieved = R!AlightedAt(q, r) + w + e.duration
  BY DEF Opened
<1> HIDE DEF of, x
<1>5. of(r, e) \in {of(y, f) : y \in OpenRides, f \in {f \in links : Open(f.stop)}}
  BY <1>2
<1>6. x \in LastRides(links)
  BY <1>1, <1>3, <1>5
<1>7. x \in ContinuationsTo(links)[1]
  BY <1>4, <1>6, RidesInFront
<1> QED BY <1>7 DEF x

LEMMA LastRideOf ==
  ASSUME q \in Queries, NEW links, NEW x \in ContinuationsTo(links)[1]
  PROVE  \E r \in OpenRides, e \in links :
           /\ Open(e.stop) /\ x.achieved <= Deadline
           /\ \E w \in OnFoot(r, e.stop) : x = Opened(r, R!AlightedAt(q, r) + w + e.duration)
<1>1. x \in LastRides(links) /\ x.achieved <= Deadline
  BY RidesInFront
<1> QED BY <1>1 DEF LastRides

LEMMA NextRide ==
  ASSUME q \in Queries, NEW links, NEW k \in 2 .. q.rounds, NEW r \in OpenRides,
         NEW y \in ContinuationsTo(links)[k - 1], NEW w \in OnFoot(r, y.stop),
         R!AlightedAt(q, r) + w <= y.departure
  PROVE  Opened(r, y.achieved) \in ContinuationsTo(links)[k]
<1> DEFINE some == ContinuationsTo(links)[k - 1]
<1>1. ContinuationsTo(links)[k] = OneMoreRide(some)
  BY RidesInFront
<1>2. y \in some
  OBVIOUS
<1> HIDE DEF some
<1>3. Opened(r, y.achieved) \in OneMoreRide(some)
  <2>1. <<r, y>> \in {x \in OpenRides \X some :
                       \E v \in OnFoot(x[1], x[2].stop) : R!AlightedAt(q, x[1]) + v <= x[2].departure}
    BY <1>2
  <2> QED BY <2>1 DEF OneMoreRide
<1> QED BY <1>1, <1>3

LEMMA NextRideOf ==
  ASSUME q \in Queries, NEW links, NEW k \in 2 .. q.rounds, NEW x \in ContinuationsTo(links)[k]
  PROVE  \E r \in OpenRides, y \in ContinuationsTo(links)[k - 1] :
           /\ x = Opened(r, y.achieved)
           /\ \E w \in OnFoot(r, y.stop) : R!AlightedAt(q, r) + w <= y.departure
<1> DEFINE some == ContinuationsTo(links)[k - 1]
<1>1. ContinuationsTo(links)[k] = OneMoreRide(some)
  BY RidesInFront
<1> HIDE DEF some
<1>2. x \in OneMoreRide(some)
  BY <1>1
<1>3. \E r \in OpenRides, y \in some :
        x = Opened(r, y.achieved) /\ \E w \in OnFoot(r, y.stop) : R!AlightedAt(q, r) + w <= y.departure
  BY <1>2 DEF OneMoreRide
<1> QED BY <1>3 DEF some

----------------------------------------------------------------------------
(* Every label is a continuation that can be ridden.                       *)

Searching == phase \in {"round", "scan"}
Elected == phase \in {"elect", "times", "nearest", "replay", "answered"}
ReverseTypeOK ==
  /\ q \in Queries
  /\ phase \in {"idle", "seed", "round", "scan", "elect", "times", "nearest", "replay", "answered"}
  /\ phase # "idle" => q.use \notin {"depart", "matrix"}
  /\ suffix \in Rounds /\ (phase = "scan" => suffix > 0) /\ (phase = "seed" => suffix = 0)
  /\ phase # "idle" => bags \in [Rounds -> [Stops -> SUBSET ReverseLabels]]
  /\ changed \subseteq Stops
  /\ DOMAIN upstream \subseteq DOMAIN q.pattern_stops
  /\ \A p \in DOMAIN upstream : upstream[p] \in 1 .. Len(StopsOf(p))
  /\ place \in Nat
  /\ place > 0 => /\ phase = "scan" /\ line \in DOMAIN q.pattern_stops \ DOMAIN upstream
                  /\ place \in 1 .. Len(StopsOf(line))

\* Only the rounds so far have labels, pending ones where no ride is taken yet.
LevelsOK ==
  \A k \in Rounds, s \in Stops :
    /\ \A l \in bags[k][s] : Fixed(l) <=> k > 0
    /\ k > suffix => bags[k][s] = {}

\* An egress walk, or one footpath before it.
SeededAt(s, l) ==
  \E link \in q.egress :
    /\ Open(link.stop) /\ l.seed = SeedOf(link)
    /\ \/ s = link.stop /\ l.trailing = link.duration
       \/ \E e \in q.transfers : e.from = s /\ e.to = link.stop /\ l.trailing = e.duration + link.duration
RiddenFrom(k, s, departure, l) ==
  [stop |-> s, departure |-> departure, achieved |-> l.achieved] \in ContinuationsTo(LinksOf(l.seed))[k]
\* A ride that continues, or a footpath before it.
ContinuesAt(k, s, l) ==
  IF l.rooted THEN RiddenFrom(k, s, l.departure, l)
  ELSE \E e \in q.transfers : e.from = s /\ RiddenFrom(k, e.to, l.departure + e.duration, l)

\* Who is onboard alighted further on, at a stop with a label to go on with.
AlightsFor(o, a, l) ==
  /\ o.trip \in q.trips /\ o.stream \in Streams /\ o.trip \in q.usable[o.stream]
  /\ q.trip_pattern[o.trip] = line /\ Open(StopsOf(line)[a])
  /\ Offset(o.stream) <= q.arrival[o.trip][a] /\ q.arrival[o.trip][a] <= l.departure + Offset(o.stream)
  /\ o.seed = l.seed /\ o.achieved = Achieved(l, o.trip, a, o.stream)
OnboardSound ==
  place > 0 => \A o \in onboard : \E a \in place + 1 .. Len(StopsOf(line)) :
                 \E l \in bags[suffix - 1][StopsOf(line)[a]] : AlightsFor(o, a, l)
TouchedSound ==
  phase = "scan" =>
    /\ touched \subseteq Stops \X ReverseLabels
    /\ \A x \in touched : Fixed(x[2]) /\ x[2].rooted /\ ContinuesAt(suffix, x[1], x[2])
BagsSound ==
  \A s \in Stops :
    /\ \A l \in bags[0][s] : SeededAt(s, l)
    /\ \A k \in 1 .. q.rounds : \A l \in bags[k][s] : ContinuesAt(k, s, l)

GInv == ReverseTypeOK /\ (phase # "idle" => LevelsOK /\ OnboardSound /\ TouchedSound /\ BagsSound)

----------------------------------------------------------------------------
(* No continuation is missing.                                             *)

\* A trip a label alights from.
Alights(d, t, p, a, l) ==
  /\ d \in Streams /\ t \in q.usable[d] /\ q.trip_pattern[t] = p
  /\ Offset(d) <= q.arrival[t][a] /\ q.arrival[t][a] <= l.departure + Offset(d)

Boarding(d, t, board, alight, l) ==
  Continuation(q.departure[t][board] - Offset(d), Achieved(l, t, alight, d), TRUE, l.seed)
\* What the bags of b leave to cover: the rides of pattern p that board beyond
\* a position and go on with a label of one ride less, and the footpaths to a
\* label that starts with a ride.
RidesCovered(b, k, p, beyond) ==
  \A d \in Streams : \A t \in q.usable[d] : q.trip_pattern[t] = p =>
    \A board, alight \in 1 .. Len(StopsOf(p)) :
      Usable(d, t, board, alight) /\ beyond < board =>
        \A l \in b[k - 1][StopsOf(p)[alight]] :
          q.arrival[t][alight] <= l.departure + Offset(d) =>
            HasAsGood(b[k][StopsOf(p)[board]], Boarding(d, t, board, alight, l))
WalkingTo(e, l) == Continuation(l.departure - e.duration, l.achieved, FALSE, l.seed)
WalksCovered(b, k) ==
  \A s \in Stops : \A l \in b[k][s], e \in q.transfers :
    l.rooted /\ e.to = s /\ Open(e.from) /\ e.duration <= l.departure =>
      HasAsGood(b[k][e.from], WalkingTo(e, l))
RoundCovered(b, k) == (\A p \in DOMAIN q.pattern_stops : RidesCovered(b, k, p, 0)) /\ WalksCovered(b, k)

SeedsCovered ==
  \A link \in q.egress : \A x \in SeedsOf(link) : HasAsGood(bags[0][x[1]], x[2])
RoundsCovered ==
  \A k \in 1 .. q.rounds : k < suffix \/ (k = suffix /\ phase # "scan") => RoundCovered(bags, k)
ChangesMarked == \A s \in Stops : bags[suffix][s] # {} => s \in changed

\* The patterns no longer queued are covered, the one at work beyond its place.
ScansCovered ==
  \A p \in DOMAIN q.pattern_stops \ DOMAIN upstream :
    RidesCovered(bags, suffix, p, IF p = line THEN place ELSE 0)
QueuedFarEnough ==
  \A p \in DOMAIN upstream : \A i \in upstream[p] + 1 .. Len(StopsOf(p)) : bags[suffix - 1][StopsOf(p)[i]] = {}
\* Whatever can alight further on is onboard, on a trip no earlier.
AboardFor(o, d, t, a, l) ==
  o.stream = d /\ o.seed = l.seed /\ t <= o.trip /\ o.achieved <= Achieved(l, t, a, d)
OnboardCovers ==
  place > 0 =>
    \A a \in place + 1 .. Len(StopsOf(line)) : Open(StopsOf(line)[a]) =>
      \A l \in bags[suffix - 1][StopsOf(line)[a]] : \A d, t :
        Alights(d, t, line, a, l) => \E o \in onboard : AboardFor(o, d, t, a, l)
AllTouched == \A s \in Stops : \A l \in bags[suffix][s] : <<s, l>> \in touched
ScanInv == ScansCovered /\ QueuedFarEnough /\ OnboardCovers /\ AllTouched

VInv ==
  /\ phase \notin {"idle", "seed"} => SeedsCovered /\ RoundsCovered
  /\ Searching => ChangesMarked
  /\ phase = "scan" => ScanInv
  /\ Elected => suffix = q.rounds \/ \A s \in Stops : bags[suffix][s] = {}

----------------------------------------------------------------------------
(* Soundness, action by action.                                            *)

\* Who boards in front of a label is a continuation.
LEMMA BoardingSound ==
  ASSUME q \in Queries, q.use \notin {"depart", "matrix"}, NEW k \in 1 .. q.rounds,
         NEW d, NEW t, NEW board, NEW alight, Usable(d, t, board, alight), NEW l \in ReverseLabels,
         q.arrival[t][alight] <= l.departure + Offset(d), Fixed(l) <=> k # 1,
         IF k = 1 THEN SeededAt(StopAt(t, alight), l) ELSE ContinuesAt(k - 1, StopAt(t, alight), l)
  PROVE  /\ Boarding(d, t, board, alight, l) \in FixedLabels
         /\ ContinuesAt(k, StopAt(t, board), Boarding(d, t, board, alight, l))
<1> DEFINE b == Boarding(d, t, board, alight, l)
<1>1. /\ t \in Nat /\ Offset(d) \in Nat /\ q.departure[t][board] \in Nat /\ q.arrival[t][alight] \in Nat
      /\ q.departure[t][board] <= q.arrival[t][alight] /\ Offset(d) <= q.departure[t][board]
  BY UsableFacts DEF Usable
<1>2. /\ l.departure \in 0 .. Deadline /\ l.trailing \in 0 .. Deadline /\ l.seed \in ReverseSeeds
      /\ Fixed(l) => l.achieved \in 0 .. Deadline
      /\ ~Fixed(l) => l.departure + l.trailing = Deadline
  <2>1. l.seed \in ReverseSeeds
    BY DEF ReverseLabels, PendingLabels, FixedLabels
  <2> QED BY <2>1, LabelFacts
<1>3. Deadline \in Nat
  BY DeadlineTime
<1>4. q.departure[t][board] - Offset(d) \in 0 .. Deadline
  BY <1>1, <1>2, <1>3
<1>5. Achieved(l, t, alight, d) \in 0 .. Deadline
  BY <1>1, <1>2, <1>3 DEF Achieved
<1>6. b \in FixedLabels
  BY <1>2, <1>4, <1>5 DEF Boarding, Continuation, FixedLabels
<1>7. /\ b.rooted = TRUE /\ b.departure = q.departure[t][board] - Offset(d)
      /\ b.achieved = Achieved(l, t, alight, d) /\ b.seed = l.seed
  BY DEF Boarding, Continuation
<1>8. PICK r \in OpenRides :
        /\ R!StopAt(q, r, r.board) = StopAt(t, board) /\ R!StopAt(q, r, r.alight) = StopAt(t, alight)
        /\ R!BoardedAt(q, r) = q.departure[t][board] - Offset(d)
        /\ R!AlightedAt(q, r) = q.arrival[t][alight] - Offset(d)
  BY UsableRide
<1>9. Opened(r, b.achieved) \in ContinuationsTo(LinksOf(l.seed))[k]
  <2>1. CASE k = 1
    <3>1. PICK link \in q.egress :
            /\ Open(link.stop) /\ l.seed = SeedOf(link)
            /\ \/ StopAt(t, alight) = link.stop /\ l.trailing = link.duration
               \/ \E e \in q.transfers : /\ e.from = StopAt(t, alight) /\ e.to = link.stop
                                         /\ l.trailing = e.duration + link.duration
      BY <2>1 DEF SeededAt
    <3>2. link \in LinksOf(l.seed) /\ link.duration \in Nat
      BY <3>1, QueriesAssumption DEF LinksOf, WellFormedRequest
    <3>3. PICK w \in OnFoot(r, link.stop) : w \in Nat /\ l.trailing = w + link.duration
      <4>1. CASE StopAt(t, alight) = link.stop /\ l.trailing = link.duration
        <5>1. 0 \in OnFoot(r, link.stop)
          BY <1>8, <4>1, OnFootIs
        <5> QED BY <3>2, <4>1, <5>1
      <4>2. CASE \E e \in q.transfers : /\ e.from = StopAt(t, alight) /\ e.to = link.stop
                                        /\ l.trailing = e.duration + link.duration
        <5>1. PICK e \in q.transfers : /\ e.from = StopAt(t, alight) /\ e.to = link.stop
                                       /\ l.trailing = e.duration + link.duration
          BY <4>2
        <5>2. e.duration \in Nat
          BY QueriesAssumption DEF WellFormedTransfers
        <5>3. e.duration \in OnFoot(r, link.stop)
          BY <1>8, <5>1, OnFootIs
        <5> QED BY <5>1, <5>2, <5>3
      <4> QED BY <3>1, <4>1, <4>2
    <3>4. ~Fixed(l) /\ b.achieved = q.arrival[t][alight] - Offset(d) + l.trailing
      BY <1>7, <2>1 DEF Achieved
    <3>5. /\ b.achieved = R!AlightedAt(q, r) + w + link.duration
          /\ R!AlightedAt(q, r) + w + link.duration <= Deadline
      BY <1>1, <1>2, <1>3, <1>8, <3>2, <3>3, <3>4
    <3> QED BY <2>1, <3>1, <3>2, <3>3, <3>5, LastRide
  <2>2. CASE k # 1
    <3> DEFINE links == LinksOf(l.seed)
    <3>1. k \in 2 .. q.rounds /\ Fixed(l)
      BY <2>2, RoundsType
    <3>2. b.achieved = l.achieved
      BY <1>7, <3>1 DEF Achieved
    <3>3. PICK y \in ContinuationsTo(links)[k - 1], w \in Int :
            /\ y.achieved = l.achieved /\ y.departure = l.departure + w /\ w \in OnFoot(r, y.stop)
      <4>1. CASE l.rooted
        <5> DEFINE y == [stop |-> StopAt(t, alight), departure |-> l.departure, achieved |-> l.achieved]
        <5>1. y \in ContinuationsTo(links)[k - 1]
          BY <2>2, <4>1 DEF ContinuesAt, RiddenFrom
        <5>2. 0 \in OnFoot(r, y.stop)
          BY <1>8, OnFootIs
        <5>3. y.achieved = l.achieved /\ y.departure = l.departure + 0
          BY <1>2
        <5> HIDE DEF y, links
        <5> QED BY <5>1, <5>2, <5>3
      <4>2. CASE ~l.rooted
        <5>1. PICK e \in q.transfers :
                e.from = StopAt(t, alight) /\ RiddenFrom(k - 1, e.to, l.departure + e.duration, l)
          BY <2>2, <4>2 DEF ContinuesAt
        <5> DEFINE y == [stop |-> e.to, departure |-> l.departure + e.duration, achieved |-> l.achieved]
        <5>2. y \in ContinuationsTo(links)[k - 1]
          BY <5>1 DEF RiddenFrom
        <5>3. e.duration \in Nat
          BY QueriesAssumption DEF WellFormedTransfers
        <5>4. e.duration \in OnFoot(r, y.stop)
          BY <1>8, <5>1, OnFootIs
        <5>5. y.achieved = l.achieved /\ y.departure = l.departure + e.duration
          OBVIOUS
        <5> HIDE DEF y, links
        <5> QED BY <5>2, <5>3, <5>4, <5>5
      <4> QED BY <4>1, <4>2
    <3>4. R!AlightedAt(q, r) + w <= y.departure
      BY <1>1, <1>2, <1>8, <3>3
    <3> HIDE DEF links, b
    <3>5. Opened(r, y.achieved) \in ContinuationsTo(links)[k]
      BY <3>1, <3>3, <3>4, NextRide
    <3> QED BY <3>2, <3>3, <3>5 DEF links
  <2> QED BY <2>1, <2>2
<1>10. RiddenFrom(k, StopAt(t, board), b.departure, b)
  BY <1>7, <1>8, <1>9 DEF RiddenFrom, Opened
<1> HIDE DEF b
<1>11. ContinuesAt(k, StopAt(t, board), b)
  BY <1>7, <1>10 DEF ContinuesAt
<1> QED BY <1>6, <1>11 DEF b

\* What only the instance says.
LEMMA InstanceStays ==
  ASSUME q' = q
  PROVE  /\ Deadline' = Deadline /\ ReverseSeeds' = ReverseSeeds /\ ReverseLabels' = ReverseLabels
         /\ FixedLabels' = FixedLabels /\ Rounds' = Rounds
         /\ \A links : ContinuationsTo(links)' = ContinuationsTo(links)
         /\ \A o : LinksOf(o)' = LinksOf(o)
         /\ \A link : SeedOf(link)' = SeedOf(link) /\ SeedsOf(link)' = SeedsOf(link)
         /\ \A s : Open(s)' = Open(s)
         /\ \A p : StopsOf(p)' = StopsOf(p)
<1>1. Deadline' = Deadline /\ ReverseSeeds' = ReverseSeeds /\ Rounds' = Rounds
  BY DEF Deadline, ReverseSeeds, Rounds
<1>2. ReverseLabels' = ReverseLabels /\ FixedLabels' = FixedLabels
  BY <1>1 DEF ReverseLabels, PendingLabels, FixedLabels
<1>3. \A links : ContinuationsTo(links)' = ContinuationsTo(links)
  BY DEF ContinuationsTo, LastRides, OneMoreRide, OpenRides, OnFoot, Opened, Deadline, Open
<1>4. \A link : SeedOf(link)' = SeedOf(link)
  BY DEF SeedOf
<1>5. \A o : LinksOf(o)' = LinksOf(o)
  BY DEF LinksOf, SeedOf
<1>6. \A link : SeedsOf(link)' = SeedsOf(link)
  BY DEF SeedsOf, SeedOf, Open, Deadline
<1>7. \A s : Open(s)' = Open(s)
  BY DEF Open
<1>8. \A p : StopsOf(p)' = StopsOf(p)
  BY DEF StopsOf
<1> QED BY <1>1, <1>2, <1>3, <1>4, <1>5, <1>6, <1>7, <1>8

LEMMA SeededStays == q' = q => \A s, l : SeededAt(s, l)' <=> SeededAt(s, l)
BY InstanceStays DEF SeededAt

LEMMA ContinuesStays == q' = q => \A k, s, l : ContinuesAt(k, s, l)' <=> ContinuesAt(k, s, l)
BY InstanceStays DEF ContinuesAt, RiddenFrom

\* A step adds sound labels to the round at work.
LEMMA BagsStaySound ==
  ASSUME GInv, phase # "idle", q' = q, suffix' \in Rounds, suffix <= suffix',
         \A k \in Rounds, s \in Stops : \A l \in bags'[k][s] :
           \/ l \in bags[k][s]
           \/ /\ k = suffix' /\ (Fixed(l) <=> k > 0)
              /\ IF k = 0 THEN SeededAt(s, l) ELSE ContinuesAt(k, s, l)
  PROVE  LevelsOK' /\ BagsSound'
<1>1. LevelsOK /\ BagsSound /\ q \in Queries /\ suffix \in Rounds
  BY DEF GInv, ReverseTypeOK
<1>2. q.rounds \in Nat /\ 0 \in Rounds /\ Rounds \subseteq Nat /\ Rounds = 0 .. q.rounds /\ Rounds' = Rounds
  BY <1>1, RoundsType DEF Rounds
<1>3. LevelsOK'
  <2>1. ASSUME NEW k \in Rounds, NEW s \in Stops, NEW l \in bags'[k][s] PROVE (Fixed(l) <=> k > 0) /\ ~(k > suffix')
    <3>1. k \in Nat /\ suffix \in Nat /\ suffix' \in Nat
      BY <1>1, <1>2
    <3>2. CASE l \in bags[k][s]
      BY <1>1, <3>1, <3>2 DEF LevelsOK
    <3>3. CASE l \notin bags[k][s]
      BY <3>1, <3>3
    <3> QED BY <3>2, <3>3
  <2> QED BY <1>2, <2>1 DEF LevelsOK, Fixed, Unset
<1>4. BagsSound'
  <2>1. ASSUME NEW s \in Stops, NEW l \in bags'[0][s] PROVE SeededAt(s, l)'
    <3>1. SeededAt(s, l)
      BY <1>1, <1>2 DEF BagsSound
    <3> QED BY <3>1, SeededStays
  <2>2. ASSUME NEW s \in Stops, NEW k \in 1 .. q.rounds, NEW l \in bags'[k][s] PROVE ContinuesAt(k, s, l)'
    <3>1. k \in Rounds /\ k # 0
      BY <1>2
    <3>2. ContinuesAt(k, s, l)
      BY <1>1, <3>1 DEF BagsSound
    <3> QED BY <3>2, ContinuesStays
  <2> QED BY <2>1, <2>2 DEF BagsSound
<1> QED BY <1>3, <1>4

LEMMA GreatestElement ==
  ASSUME NEW S \in SUBSET Int, S # {}, NEW n \in Int, \A i \in S : i <= n
  PROVE  \E m \in S : \A i \in S : i <= m
<1> DEFINE below == {n - i : i \in S}
<1>1. below \in SUBSET Nat /\ below # {}
  OBVIOUS
<1>2. PICK b \in below : \A c \in below : b <= c
  <2> HIDE DEF below
  <2> QED BY <1>1, SmallestElement
<1>3. PICK m \in S : b = n - m
  BY <1>2
<1>4. \A i \in S : n - m <= n - i
  BY <1>2, <1>3
<1>5. \A i \in S : i <= m
  BY <1>4
<1> QED BY <1>5

\* FiniteSetsExt's Max of a bounded set of numbers.
LEMMA MaxIs ==
  ASSUME NEW S \in SUBSET Int, S # {}, NEW n \in Int, \A i \in S : i <= n
  PROVE  Max(S) \in S /\ \A i \in S : i <= Max(S)
<1>1. \E m \in S : \A i \in S : m >= i
  BY GreatestElement
<1>2. Max(S) \in S /\ \A i \in S : Max(S) >= i
  BY <1>1 DEF Max
<1> QED BY <1>2

LEMMA LastChangedIs ==
  ASSUME q \in Queries, NEW p \in DOMAIN q.pattern_stops, Range(StopsOf(p)) \cap changed # {}
  PROVE  /\ LastChanged(p) \in 1 .. Len(StopsOf(p)) /\ Len(StopsOf(p)) \in Nat
         /\ \A i \in 1 .. Len(StopsOf(p)) : StopsOf(p)[i] \in changed => i <= LastChanged(p)
<1>1. StopsOf(p) \in Seq(Stops)
  BY QueriesAssumption DEF WellFormedTimetable, StopsOf
<1>2. DOMAIN StopsOf(p) = 1 .. Len(StopsOf(p)) /\ Len(StopsOf(p)) \in Nat
  BY <1>1
<1> DEFINE S == {i \in DOMAIN StopsOf(p) : StopsOf(p)[i] \in changed}
<1>3. S \in SUBSET Int /\ \A i \in S : i <= Len(StopsOf(p))
  BY <1>2
<1>4. S # {}
  BY DEF Range
<1>5. Max(S) \in S /\ \A i \in S : i <= Max(S)
  <2> DEFINE m == Len(StopsOf(p))
  <2>0. m \in Nat
    BY <1>2
  <2>1. PICK n \in Int : n = Len(StopsOf(p))
    <3> HIDE DEF m
    <3>1. m \in Int
      BY <2>0
    <3> QED BY <3>1 DEF m
  <2>2. \A i \in S : i <= n
    BY <1>3, <2>1
  <2> HIDE DEF S
  <2> QED BY <1>3, <1>4, <2>2, MaxIs
<1> QED BY <1>2, <1>5 DEF LastChanged

LEMMA RoundNumbers ==
  ASSUME q \in Queries
  PROVE  /\ q.rounds \in Nat /\ q.rounds > 0 /\ Rounds = 0 .. q.rounds /\ 0 \in Rounds
         /\ \A k \in Rounds : k \in Nat /\ (k > 0 => k \in 1 .. q.rounds /\ k - 1 \in Rounds)
         /\ \A k \in 1 .. q.rounds : k \in Rounds /\ k > 0 /\ k - 1 \in Rounds
<1>1. q.rounds \in Nat /\ q.rounds > 0
  BY RoundsType
<1>2. \A n \in Nat : /\ 0 \in 0 .. n
                     /\ \A k \in 0 .. n : k \in Nat /\ (k > 0 => k \in 1 .. n /\ k - 1 \in 0 .. n)
                     /\ \A k \in 1 .. n : k \in 0 .. n /\ k > 0 /\ k - 1 \in 0 .. n
  OBVIOUS
<1> QED BY <1>1, <1>2 DEF Rounds

LEMMA GenuineStartRound == GInv /\ q' = q /\ StartRound => GInv'
<1> SUFFICES ASSUME GInv, q' = q, StartRound PROVE GInv'
  OBVIOUS
<1>1. /\ ReverseTypeOK /\ phase = "round" /\ suffix < q.rounds /\ suffix' = suffix + 1 /\ phase' = "scan"
      /\ touched' = {} /\ changed' = {} /\ bags' = bags /\ place' = place /\ line' = line
      /\ upstream' = [p \in {p \in DOMAIN q.pattern_stops : Range(StopsOf(p)) \cap changed # {}} |-> LastChanged(p)]
  BY DEF GInv, StartRound, scan
<1>2. /\ q \in Queries /\ suffix \in Rounds /\ place = 0
  BY <1>1 DEF ReverseTypeOK
<1>3. suffix' \in Rounds /\ suffix' > 0 /\ suffix <= suffix'
  BY <1>1, <1>2, RoundNumbers
<1>4. LevelsOK' /\ BagsSound'
  BY <1>1, <1>3, BagsStaySound
<1>5. \A p \in DOMAIN upstream' : upstream'[p] \in 1 .. Len(StopsOf(p))
  BY <1>1, <1>2, LastChangedIs
<1>6. ReverseTypeOK'
  BY <1>1, <1>2, <1>3, <1>5, InstanceStays DEF ReverseTypeOK
<1> QED BY <1>1, <1>2, <1>4, <1>6 DEF GInv, OnboardSound, TouchedSound

LEMMA GenuineStartPattern == GInv /\ q' = q /\ StartPattern => GInv'
<1> SUFFICES ASSUME GInv, q' = q, StartPattern PROVE GInv'
  OBVIOUS
<1>1. /\ ReverseTypeOK /\ phase = "scan" /\ place = 0 /\ onboard' = {}
      /\ phase' = phase /\ suffix' = suffix /\ bags' = bags /\ changed' = changed /\ touched' = touched
  BY DEF GInv, StartPattern
<1>2. PICK p \in DOMAIN upstream : /\ line' = p /\ place' = upstream[p]
                                 /\ upstream' = [o \in DOMAIN upstream \ {p} |-> upstream[o]]
  BY DEF StartPattern
<1>3. q \in Queries /\ suffix \in Rounds /\ suffix <= suffix'
  BY <1>1, RoundNumbers DEF ReverseTypeOK
<1>4. LevelsOK' /\ BagsSound'
  BY <1>1, <1>3, BagsStaySound
<1>5. /\ DOMAIN upstream' = DOMAIN upstream \ {p} /\ \A o \in DOMAIN upstream' : upstream'[o] = upstream[o]
  BY <1>2
<1>6. /\ DOMAIN upstream \subseteq DOMAIN q.pattern_stops
      /\ \A o \in DOMAIN upstream : upstream[o] \in 1 .. Len(StopsOf(o))
  BY <1>1 DEF ReverseTypeOK
<1>7. StopsOf(p) \in Seq(Stops)
  BY <1>3, <1>6, QueriesAssumption DEF WellFormedTimetable, StopsOf
<1>8. place' \in Nat /\ place' \in 1 .. Len(StopsOf(line'))
  BY <1>2, <1>6, <1>7
<1>9. ReverseTypeOK'
  <2>1. \A o \in DOMAIN upstream' : upstream'[o] \in 1 .. Len(StopsOf(o)')
    BY <1>5, <1>6, InstanceStays
  <2>2. line' \in DOMAIN q.pattern_stops \ DOMAIN upstream' /\ DOMAIN upstream' \subseteq DOMAIN q.pattern_stops
    BY <1>2, <1>5, <1>6
  <2>3. place' \in 1 .. Len(StopsOf(line)')
    BY <1>8 DEF StopsOf
  <2> QED BY <1>1, <1>8, <2>1, <2>2, <2>3, InstanceStays DEF ReverseTypeOK
<1>10. TouchedSound'
  <2>1. TouchedSound
    BY <1>1 DEF GInv
  <2> QED BY <1>1, <2>1, InstanceStays, ContinuesStays DEF TouchedSound, Fixed, Unset
<1> QED BY <1>1, <1>4, <1>9, <1>10 DEF GInv, OnboardSound

LEMMA SeedIs ==
  ASSUME q \in Queries, q.use \notin {"depart", "matrix"}, NEW link \in q.egress
  PROVE  SeedOf(link) \in ReverseSeeds
<1>1. WellFormedArriveBy(q)
  BY ArriveByAssumption
<1> QED BY <1>1 DEF WellFormedArriveBy, SeedOf, ReverseSeeds

LEMMA PendingIs ==
  ASSUME q \in Queries, q.use \notin {"depart", "matrix"}, NEW w \in Nat, w <= Deadline,
         NEW o \in ReverseSeeds
  PROVE  /\ Pending(Deadline - w, w, o) \in PendingLabels /\ ~Fixed(Pending(Deadline - w, w, o))
         /\ Pending(Deadline - w, w, o).trailing = w /\ Pending(Deadline - w, w, o).seed = o
         /\ Pending(Deadline - w, w, o).departure = Deadline - w
<1>1. Deadline \in Nat
  BY DeadlineTime
<1>2. w \in 0 .. Deadline /\ Deadline - w \in 0 .. Deadline /\ Deadline - w + w = Deadline
  BY <1>1
<1> QED BY <1>2 DEF Pending, PendingLabels, Fixed

LEMMA SeedsSound ==
  ASSUME q \in Queries, q.use \notin {"depart", "matrix"}, NEW link \in q.egress, NEW x \in SeedsOf(link)
  PROVE  x[1] \in Stops /\ x[2] \in PendingLabels /\ ~Fixed(x[2]) /\ SeededAt(x[1], x[2])
<1>1. /\ q.egress \subseteq [stop : Stops, duration : Nat]
      /\ q.transfers \subseteq [from : Stops, to : Stops, duration : Nat]
  BY QueriesAssumption DEF WellFormedRequest, WellFormedTransfers
<1>2. Deadline \in Nat /\ SeedOf(link) \in ReverseSeeds /\ link.stop \in Stops /\ link.duration \in Nat
  BY <1>1, DeadlineTime, SeedIs
<1>3. Open(link.stop) /\ ~(Deadline < link.duration)
  BY DEF SeedsOf
<1>4. CASE x = <<link.stop, Pending(Deadline - link.duration, link.duration, SeedOf(link))>>
  <2>1. x[1] = link.stop /\ x[2] = Pending(Deadline - link.duration, link.duration, SeedOf(link))
    BY <1>4
  <2>2. /\ x[2] \in PendingLabels /\ ~Fixed(x[2])
        /\ x[2].trailing = link.duration /\ x[2].seed = SeedOf(link)
    BY <1>2, <1>3, <2>1, PendingIs
  <2> QED BY <1>2, <1>3, <2>1, <2>2 DEF SeededAt
<1>5. CASE \E e \in q.transfers :
             /\ e.to = link.stop /\ Open(e.from) /\ link.duration + e.duration <= Deadline
             /\ x = <<e.from, Pending(Deadline - link.duration - e.duration, link.duration + e.duration, SeedOf(link))>>
  <2>1. PICK e \in q.transfers :
             /\ e.to = link.stop /\ Open(e.from) /\ link.duration + e.duration <= Deadline
             /\ x = <<e.from, Pending(Deadline - link.duration - e.duration, link.duration + e.duration, SeedOf(link))>>
    BY <1>5
  <2>2. e.from \in Stops /\ e.duration \in Nat
    BY <1>1
  <2>3. PICK w \in Nat : w = e.duration + link.duration
    BY <1>2, <2>2
  <2>4. Deadline - link.duration - e.duration = Deadline - w /\ link.duration + e.duration = w /\ w <= Deadline
    BY <1>2, <2>1, <2>2, <2>3
  <2>5. x[1] = e.from /\ x[2] = Pending(Deadline - w, w, SeedOf(link))
    BY <2>1, <2>4
  <2>6. x[2] \in PendingLabels /\ ~Fixed(x[2]) /\ x[2].trailing = w /\ x[2].seed = SeedOf(link)
    BY <1>2, <2>4, <2>5, PendingIs
  <2> QED BY <1>3, <2>1, <2>2, <2>3, <2>5, <2>6 DEF SeededAt
<1> QED BY <1>3, <1>4, <1>5 DEF SeedsOf

SeedsAt(s) == At(UNION {SeedsOf(link) : link \in q.egress}, s)
LEMMA SeedBags ==
  ASSUME SeedEgress, q \in Queries
  PROVE  /\ \A s \in Stops : bags'[0][s] = InsertAll({}, SeedsAt(s))
         /\ \A k \in Rounds, s \in Stops : k # 0 => bags'[k][s] = {}
         /\ bags' \in [Rounds -> [Stops -> SUBSET UNION {SeedsAt(s) : s \in Stops}]]
<1>1. bags' = [NoBags EXCEPT ![0] = [s \in Stops |-> InsertAll({}, SeedsAt(s))]]
  BY DEF SeedEgress, SeedsAt
<1>2. 0 \in Rounds
  BY RoundNumbers
<1>3. /\ \A s \in Stops : bags'[0][s] = InsertAll({}, SeedsAt(s))
      /\ \A k \in Rounds, s \in Stops : k # 0 => bags'[k][s] = {}
  BY <1>1, <1>2 DEF NoBags
<1>4. \A s \in Stops : InsertAll({}, SeedsAt(s)) \subseteq SeedsAt(s)
  BY InsertAmong
<1>5. bags' = [k \in Rounds |-> [s \in Stops |-> IF k = 0 THEN InsertAll({}, SeedsAt(s)) ELSE {}]]
  BY <1>1, <1>2 DEF NoBags
<1>6. bags' \in [Rounds -> [Stops -> SUBSET UNION {SeedsAt(s) : s \in Stops}]]
  <2> DEFINE all == UNION {SeedsAt(s) : s \in Stops}
  <2>1. \A k \in Rounds, s \in Stops : (IF k = 0 THEN InsertAll({}, SeedsAt(s)) ELSE {}) \in SUBSET all
    BY <1>4
  <2> HIDE DEF all
  <2>2. \A k \in Rounds : [s \in Stops |-> IF k = 0 THEN InsertAll({}, SeedsAt(s)) ELSE {}] \in [Stops -> SUBSET all]
    BY <2>1
  <2>3. bags' \in [Rounds -> [Stops -> SUBSET all]]
    BY <1>5, <2>2
  <2> QED BY <2>3 DEF all
<1> QED BY <1>3, <1>6

LEMMA SeedsAtSound ==
  ASSUME q \in Queries, q.use \notin {"depart", "matrix"}, NEW s \in Stops, NEW l \in SeedsAt(s)
  PROVE  l \in PendingLabels /\ ~Fixed(l) /\ SeededAt(s, l)
<1>1. PICK link \in q.egress : \E x \in SeedsOf(link) : x[1] = s /\ x[2] = l
  BY DEF SeedsAt, At
<1>2. PICK x \in SeedsOf(link) : x[1] = s /\ x[2] = l
  BY <1>1
<1> QED BY <1>2, SeedsSound

LEMMA GenuineSeedEgress == GInv /\ q' = q /\ SeedEgress => GInv'
<1> SUFFICES ASSUME GInv, q' = q, SeedEgress PROVE GInv'
  OBVIOUS
<1>1. /\ ReverseTypeOK /\ phase = "seed" /\ phase' = "round" /\ suffix' = suffix
      /\ upstream' = upstream /\ place' = place /\ line' = line
      /\ changed' = {x[1] : x \in UNION {SeedsOf(link) : link \in q.egress}}
  BY DEF GInv, SeedEgress, scan
<1>2. q \in Queries /\ q.use \notin {"depart", "matrix"} /\ suffix \in Rounds /\ suffix = 0 /\ place = 0
  BY <1>1 DEF ReverseTypeOK
<1>3. \A s \in Stops : \A l \in SeedsAt(s) : l \in PendingLabels /\ ~Fixed(l) /\ SeededAt(s, l)
  BY <1>2, SeedsAtSound
<1>4. /\ \A s \in Stops : bags'[0][s] = InsertAll({}, SeedsAt(s))
      /\ \A k \in Rounds, s \in Stops : k # 0 => bags'[k][s] = {}
  BY <1>2, SeedBags
<1>5. \A s \in Stops : bags'[0][s] \subseteq SeedsAt(s)
  BY <1>4, InsertAmong
<1>6. LevelsOK' /\ BagsSound'
  <2>1. \A k \in Rounds, s \in Stops : \A l \in bags'[k][s] : k = 0 /\ ~Fixed(l) /\ SeededAt(s, l)
    BY <1>3, <1>4, <1>5
  <2> QED BY <1>1, <1>2, <2>1, BagsStaySound
<1>7. bags' \in [Rounds -> [Stops -> SUBSET ReverseLabels]]
  <2>1. UNION {SeedsAt(s) : s \in Stops} \subseteq ReverseLabels
    BY <1>3 DEF ReverseLabels
  <2> HIDE DEF ReverseLabels
  <2> QED BY <1>2, <2>1, SeedBags
<1>8. changed' \subseteq Stops
  BY <1>1, <1>2, SeedsSound
<1>9. ReverseTypeOK'
  BY <1>1, <1>2, <1>7, <1>8, InstanceStays DEF ReverseTypeOK
<1> QED BY <1>1, <1>2, <1>6, <1>9 DEF GInv, OnboardSound, TouchedSound

----------------------------------------------------------------------------
(* The scan of a position.                                                 *)

LEMMA FiniteMax ==
  ASSUME NEW S \in SUBSET Int, IsFiniteSet(S), S # {}
  PROVE  Max(S) \in S /\ \A i \in S : i <= Max(S)
<1> DEFINE Bounded(T) == \E m \in T : \A i \in T : i <= m
           sizes == {n \in Nat : \E T \in SUBSET Int : IsFiniteSet(T) /\ Cardinality(T) = n /\ T # {} /\ ~Bounded(T)}
<1>1. ASSUME sizes # {} PROVE FALSE
  <2>1. PICK n \in sizes : \A i \in sizes : n <= i
    BY <1>1, SmallestElement
  <2>2. PICK T \in SUBSET Int : IsFiniteSet(T) /\ Cardinality(T) = n /\ T # {} /\ ~Bounded(T)
    BY <2>1
  <2>3. PICK x \in T : TRUE
    BY <2>2
  <2> DEFINE U == T \ {x}
  <2>4. IsFiniteSet(U) /\ Cardinality(U) = n - 1 /\ Cardinality(U) \in Nat
    BY <2>2, <2>3, FS_RemoveElement, FS_CardinalityType
  <2>5. U # {}
    <3>1. ASSUME U = {} PROVE Bounded(T)
      <4>1. x \in Int /\ \A i \in T : i = x
        BY <2>3, <3>1
      <4> QED BY <2>3, <4>1
    <3> QED BY <2>2, <3>1
  <2>6. ~(n <= n - 1) /\ n - 1 \in Nat
    BY <2>1, <2>4
  <2>7. Bounded(U)
    BY <2>1, <2>4, <2>5, <2>6
  <2>8. PICK m \in U : \A i \in U : i <= m
    BY <2>7
  <2>9. m \in T /\ m \in Int /\ x \in Int /\ \A i \in T : i = x \/ i <= m
    BY <2>3, <2>8
  <2>10. \A i \in T : i \in Int
    BY <2>2
  <2>11. CASE x <= m
    BY <2>2, <2>9, <2>11
  <2>12. CASE ~(x <= m)
    <3>1. \A i \in T : i <= x
      BY <2>9, <2>10, <2>12
    <3> QED BY <2>2, <2>3, <3>1
  <2> QED BY <2>11, <2>12
<1>2. Cardinality(S) \in Nat
  BY FS_CardinalityType
<1>3. Bounded(S)
  BY <1>1, <1>2
<1>4. PICK n \in S : \A i \in S : i <= n
  BY <1>3
<1> QED BY <1>4, MaxIs

\* What the scan is at.
LEMMA ScanAt ==
  ASSUME GInv, phase = "scan"
  PROVE  /\ q \in Queries /\ q.use \notin {"depart", "matrix"} /\ Deadline \in Nat
         /\ suffix \in 1 .. q.rounds /\ suffix \in Rounds /\ suffix - 1 \in Rounds /\ suffix - 1 # suffix
         /\ suffix - 1 \in Nat /\ suffix \in Nat
         /\ bags \in [Rounds -> [Stops -> SUBSET ReverseLabels]]
         /\ \A p \in DOMAIN q.pattern_stops : /\ StopsOf(p) \in Seq(Stops) /\ Len(StopsOf(p)) \in Nat
                                              /\ \A i \in 1 .. Len(StopsOf(p)) : StopsOf(p)[i] \in Stops
         /\ place \in Nat
         /\ place > 0 => line \in DOMAIN q.pattern_stops /\ place \in 1 .. Len(StopsOf(line))
<1>1. /\ ReverseTypeOK /\ q \in Queries /\ suffix \in Rounds /\ suffix > 0
  BY DEF GInv, ReverseTypeOK
<1>2. suffix \in Nat /\ suffix \in 1 .. q.rounds /\ suffix - 1 \in Rounds
  BY <1>1, RoundNumbers
<1>3. suffix - 1 # suffix /\ suffix - 1 \in Nat
  BY <1>1, <1>2
<1>4. ASSUME NEW p \in DOMAIN q.pattern_stops
      PROVE  /\ StopsOf(p) \in Seq(Stops) /\ Len(StopsOf(p)) \in Nat
             /\ \A i \in 1 .. Len(StopsOf(p)) : StopsOf(p)[i] \in Stops
  <2>1. StopsOf(p) \in Seq(Stops)
    BY <1>1, QueriesAssumption DEF WellFormedTimetable, StopsOf
  <2>2. \A i \in 1 .. Len(StopsOf(p)) : StopsOf(p)[i] \in Stops
    BY <2>1, ElementOfSeq
  <2> QED BY <2>1, <2>2
<1>5. q.use \notin {"depart", "matrix"}
  BY <1>1 DEF ReverseTypeOK
<1>6. Deadline \in Nat
  BY <1>1, <1>5, DeadlineTime
<1> QED BY <1>1, <1>2, <1>3, <1>4, <1>5, <1>6 DEF ReverseTypeOK

LEMMA TripTimes ==
  ASSUME q \in Queries, NEW p \in DOMAIN q.pattern_stops, NEW d \in Streams, NEW t \in q.usable[d],
         q.trip_pattern[t] = p, NEW i \in 1 .. Len(StopsOf(p))
  PROVE  /\ q.arrival[t][i] \in Nat /\ q.departure[t][i] \in Nat /\ t \in Nat /\ t \in q.trips
         /\ Offset(d) \in Nat
<1>1. t \in q.trips
  BY QueriesAssumption DEF WellFormedRequest
<1> QED BY <1>1, FirstInFirstOut, OffsetType

LEMMA TripsIntoAre ==
  ASSUME q \in Queries, q.use \notin {"depart", "matrix"}, NEW p \in DOMAIN q.pattern_stops,
         NEW a \in 1 .. Len(StopsOf(p)), NEW d \in Streams, NEW l \in ReverseLabels
  PROVE  /\ \A t \in TripsInto(p, a, d, l) : Alights(d, t, p, a, l)
         /\ \A t : Alights(d, t, p, a, l) =>
              \E u \in TripsInto(p, a, d, l) :
                t <= u /\ (Fixed(l) \/ u = t)
<1> DEFINE trips == Alightable(p, a, d, l.departure + Offset(d))
<1>1. \A t : t \in trips <=> /\ t \in q.usable[d] /\ q.trip_pattern[t] = p
                             /\ q.arrival[t][a] <= l.departure + Offset(d)
  BY DEF Alightable
<1>2. trips \subseteq q.trips /\ trips \subseteq Nat /\ IsFiniteSet(trips)
  <2>1. trips \subseteq q.trips /\ trips \subseteq Nat
    BY <1>1, TripTimes
  <2> HIDE DEF trips
  <2> QED BY <2>1, DeadlineTime, FS_Subset
<1>3. trips # {} => Max(trips) \in trips /\ \A t \in trips : t <= Max(trips)
  <2> HIDE DEF trips
  <2> QED BY <1>2, FiniteMax
<1>4. TripsInto(p, a, d, l) = {t \in (IF Fixed(l) /\ trips # {} THEN {Max(trips)} ELSE trips) : q.arrival[t][a] >= Offset(d)}
  BY DEF TripsInto
<1> HIDE DEF trips
<1>5. ASSUME NEW t \in TripsInto(p, a, d, l) PROVE Alights(d, t, p, a, l)
  <2>1. t \in trips /\ q.arrival[t][a] >= Offset(d)
    BY <1>3, <1>4
  <2>2. q.arrival[t][a] \in Nat /\ Offset(d) \in Nat
    BY <1>1, <2>1, TripTimes
  <2> QED BY <1>1, <2>1, <2>2 DEF Alights
<1>6. ASSUME NEW t, Alights(d, t, p, a, l)
      PROVE  \E u \in TripsInto(p, a, d, l) : t <= u /\ (Fixed(l) \/ u = t)
  <2>1. /\ t \in trips /\ Offset(d) <= q.arrival[t][a] /\ t \in Nat
        /\ t \in q.usable[d] /\ q.trip_pattern[t] = p
    BY <1>1, <1>2, <1>6 DEF Alights
  <2>2. q.arrival[t][a] \in Nat /\ Offset(d) \in Nat
    BY <2>1, TripTimes
  <2>3. CASE ~Fixed(l)
    <3>1. t \in TripsInto(p, a, d, l) /\ t <= t
      BY <1>4, <2>1, <2>2, <2>3
    <3> QED BY <3>1
  <2>4. CASE Fixed(l)
    <3>1. PICK u \in trips : u = Max(trips) /\ t <= u
      BY <1>3, <2>1
    <3>2. u \in q.usable[d] /\ q.trip_pattern[u] = p
      BY <1>1
    <3>3. q.arrival[t][a] <= q.arrival[u][a] /\ q.arrival[u][a] \in Nat
      BY <2>1, <3>1, <3>2, FirstInFirstOut
    <3>4. u \in TripsInto(p, a, d, l)
      BY <1>4, <2>1, <2>2, <2>4, <3>1, <3>3
    <3> QED BY <2>4, <3>1, <3>4
  <2> QED BY <2>3, <2>4
<1> QED BY <1>5, <1>6

LEMMA AchievedIs ==
  ASSUME q \in Queries, q.use \notin {"depart", "matrix"}, NEW p \in DOMAIN q.pattern_stops,
         NEW a \in 1 .. Len(StopsOf(p)), NEW d, NEW t, NEW l \in ReverseLabels, Alights(d, t, p, a, l)
  PROVE  Achieved(l, t, a, d) \in 0 .. Deadline /\ Achieved(l, t, a, d) \in Nat
<1>1. q.arrival[t][a] \in Nat /\ Offset(d) \in Nat
  BY TripTimes DEF Alights
<1>2. /\ l.departure \in 0 .. Deadline /\ l.trailing \in 0 .. Deadline
      /\ Fixed(l) => l.achieved \in 0 .. Deadline
      /\ ~Fixed(l) => l.departure + l.trailing = Deadline
  BY LabelFacts
<1>3. Deadline \in Nat
  BY DeadlineTime
<1>4. Offset(d) <= q.arrival[t][a] /\ q.arrival[t][a] <= l.departure + Offset(d)
  BY DEF Alights
<1>5. Achieved(l, t, a, d) \in 0 .. Deadline
  <2>1. CASE Fixed(l)
    BY <1>2, <2>1 DEF Achieved
  <2>2. CASE ~Fixed(l)
    <3>1. Achieved(l, t, a, d) = q.arrival[t][a] - Offset(d) + l.trailing
      BY <2>2 DEF Achieved
    <3>2. l.departure \in Nat /\ l.trailing \in Nat /\ l.departure + l.trailing = Deadline
      BY <1>2, <1>3, <2>2
    <3>3. q.arrival[t][a] - Offset(d) \in Nat /\ q.arrival[t][a] - Offset(d) <= l.departure
      BY <1>1, <1>4, <3>2
    <3> QED BY <1>3, <3>1, <3>2, <3>3
  <2> QED BY <2>1, <2>2
<1> QED BY <1>3, <1>5

LEMMA JoiningIs ==
  ASSUME NEW p, NEW i, NEW previous, NEW o
  PROVE  o \in Joining(p, i, previous) <=>
           \E d \in Streams, l \in previous : \E t \in TripsInto(p, i, d, l) :
             o = [trip |-> t, stream |-> d, achieved |-> Achieved(l, t, i, d), seed |-> l.seed]
<1> DEFINE of(d, l) == {[trip |-> t, stream |-> d, achieved |-> Achieved(l, t, i, d), seed |-> l.seed] :
                          t \in TripsInto(p, i, d, l)}
<1>1. Joining(p, i, previous) = UNION {of(d, l) : d \in Streams, l \in previous}
  BY DEF Joining
<1>2. \A d, l : o \in of(d, l) <=> \E t \in TripsInto(p, i, d, l) :
                   o = [trip |-> t, stream |-> d, achieved |-> Achieved(l, t, i, d), seed |-> l.seed]
  OBVIOUS
<1> HIDE DEF of
<1>3. o \in Joining(p, i, previous) <=> \E d \in Streams, l \in previous : o \in of(d, l)
  BY <1>1
<1> QED BY <1>2, <1>3

\* What boards is a continuation of the round's number of rides.
LEMMA BoardingsSound ==
  ASSUME GInv, phase = "scan", place > 0, Open(StopsOf(line)[place]),
         NEW b \in Boardings(line, place, onboard)
  PROVE  b \in FixedLabels /\ Fixed(b) /\ b.rooted /\ ContinuesAt(suffix, StopsOf(line)[place], b)
<1>1. /\ q \in Queries /\ q.use \notin {"depart", "matrix"} /\ suffix \in 1 .. q.rounds /\ suffix - 1 \in Rounds
      /\ suffix - 1 \in Nat /\ suffix \in Nat /\ suffix - 1 # suffix
      /\ bags \in [Rounds -> [Stops -> SUBSET ReverseLabels]]
      /\ line \in DOMAIN q.pattern_stops /\ place \in 1 .. Len(StopsOf(line)) /\ place \in Nat
      /\ StopsOf(line) \in Seq(Stops) /\ Len(StopsOf(line)) \in Nat
      /\ \A i \in 1 .. Len(StopsOf(line)) : StopsOf(line)[i] \in Stops
  BY ScanAt
<1>2. LevelsOK /\ OnboardSound /\ BagsSound
  BY DEF GInv
<1>3. PICK o \in onboard :
        /\ Offset(o.stream) <= q.departure[o.trip][place]
        /\ b = Continuation(q.departure[o.trip][place] - Offset(o.stream), o.achieved, TRUE, o.seed)
  BY DEF Boardings
<1>4. PICK a \in place + 1 .. Len(StopsOf(line)) :
        \E l \in bags[suffix - 1][StopsOf(line)[a]] : AlightsFor(o, a, l)
  BY <1>2, <1>3 DEF OnboardSound
<1>5. PICK l \in bags[suffix - 1][StopsOf(line)[a]] : AlightsFor(o, a, l)
  BY <1>4
<1>6. a \in 1 .. Len(StopsOf(line)) /\ place < a /\ StopsOf(line)[a] \in Stops
  BY <1>1
<1>7. l \in ReverseLabels
  BY <1>1, <1>6
<1>8. Usable(o.stream, o.trip, place, a) /\ q.trip_pattern[o.trip] = line
  BY <1>1, <1>3, <1>5, <1>6 DEF AlightsFor, Usable, StopAt
<1>9. b = Boarding(o.stream, o.trip, place, a, l)
  BY <1>3, <1>5 DEF AlightsFor, Boarding
<1>10. Fixed(l) <=> suffix # 1
  <2>1. Fixed(l) <=> suffix - 1 > 0
    BY <1>1, <1>2, <1>6 DEF LevelsOK
  <2> QED BY <1>1, <2>1
<1>11. IF suffix = 1 THEN SeededAt(StopAt(o.trip, a), l) ELSE ContinuesAt(suffix - 1, StopAt(o.trip, a), l)
  <2>1. StopAt(o.trip, a) = StopsOf(line)[a]
    BY <1>8 DEF StopAt
  <2>2. CASE suffix = 1
    <3>1. suffix - 1 = 0
      BY <2>2
    <3> QED BY <1>2, <1>6, <2>1, <2>2, <3>1 DEF BagsSound
  <2>3. CASE suffix # 1
    <3>1. suffix - 1 \in 1 .. q.rounds
      <4>1. q.rounds \in Nat
        BY <1>1, RoundNumbers
      <4> QED BY <1>1, <2>3, <4>1
    <3> QED BY <1>2, <1>6, <2>1, <2>3, <3>1 DEF BagsSound
  <2> QED BY <2>2, <2>3
<1>12. q.arrival[o.trip][a] <= l.departure + Offset(o.stream)
  BY <1>5 DEF AlightsFor
<1>13. b \in FixedLabels /\ ContinuesAt(suffix, StopAt(o.trip, place), b)
  BY <1>1, <1>7, <1>8, <1>9, <1>10, <1>11, <1>12, BoardingSound
<1>14. b.rooted /\ Fixed(b)
  <2>1. b.rooted = TRUE
    BY <1>3 DEF Continuation
  <2>2. b.achieved \in 0 .. Deadline /\ Deadline \in Nat /\ Deadline < Unreached
    BY <1>1, <1>13, DeadlineTime DEF FixedLabels
  <2>3. b.achieved # Unset
    BY <2>2 DEF Unset
  <2> QED BY <2>1, <2>3 DEF Fixed
<1> QED BY <1>8, <1>13, <1>14 DEF StopAt

\* Who is onboard one position on alighted there, or further on.
LEMMA JoiningSound ==
  ASSUME GInv, phase = "scan", place > 0, Open(StopsOf(line)[place]),
         NEW o \in Joining(line, place, bags[suffix - 1][StopsOf(line)[place]])
  PROVE  \E l \in bags[suffix - 1][StopsOf(line)[place]] : AlightsFor(o, place, l)
<1>1. /\ q \in Queries /\ q.use \notin {"depart", "matrix"} /\ suffix - 1 \in Rounds
      /\ bags \in [Rounds -> [Stops -> SUBSET ReverseLabels]]
      /\ line \in DOMAIN q.pattern_stops /\ place \in 1 .. Len(StopsOf(line))
      /\ StopsOf(line)[place] \in Stops
  BY ScanAt
<1>2. PICK d \in Streams, l \in bags[suffix - 1][StopsOf(line)[place]] :
        \E t \in TripsInto(line, place, d, l) :
          o = [trip |-> t, stream |-> d, achieved |-> Achieved(l, t, place, d), seed |-> l.seed]
  BY JoiningIs
<1>3. PICK t \in TripsInto(line, place, d, l) :
        o = [trip |-> t, stream |-> d, achieved |-> Achieved(l, t, place, d), seed |-> l.seed]
  BY <1>2
<1>4. l \in ReverseLabels
  BY <1>1
<1>5. Alights(d, t, line, place, l)
  BY <1>1, <1>4, TripsIntoAre
<1>6. t \in q.trips
  BY <1>1, <1>5, TripTimes DEF Alights
<1> QED BY <1>3, <1>5, <1>6 DEF AlightsFor, Alights

\* What a scanned position leaves of the bags.
LEMMA ScannedBags ==
  ASSUME GInv, ScanPosition
  PROVE  LET s == StopsOf(line)[place]
             bag == InsertAll(bags[suffix][s], Boardings(line, place, onboard))
         IN  /\ phase = "scan" /\ place > 0 /\ s \in Stops /\ place' = place - 1
             /\ UNCHANGED <<phase, suffix, upstream, line, elected, answers>>
             /\ \A k \in Rounds, x \in Stops : k # suffix \/ x # s \/ ~Open(s) => bags'[k][x] = bags[k][x]
             /\ Open(s) => /\ bags'[suffix][s] = bag
                           /\ touched' = touched \cup {<<s, l>> : l \in Boardings(line, place, onboard) \cap bag}
                           /\ changed' = changed \cup {s : l \in Boardings(line, place, onboard) \cap bag}
                           /\ onboard' = EarliestOnboard(onboard \cup Joining(line, place, bags[suffix - 1][s]))
             /\ ~Open(s) => UNCHANGED <<bags, touched, changed, onboard>>
             /\ bags' \in [Rounds -> [Stops -> SUBSET ReverseLabels]]
<1> DEFINE s == StopsOf(line)[place]
           riders == Boardings(line, place, onboard)
           bag == InsertAll(bags[suffix][s], riders)
<1>1. phase = "scan" /\ place > 0
  BY DEF ScanPosition
<1>2. s \in Stops /\ suffix \in Rounds /\ bags \in [Rounds -> [Stops -> SUBSET ReverseLabels]]
  BY <1>1, ScanAt
<1>3. UNCHANGED <<phase, suffix, upstream, line, elected, answers>> /\ place' = place - 1
  BY DEF ScanPosition
<1>4. CASE ~Open(s)
  <2>1. UNCHANGED <<bags, touched, changed, onboard>>
    BY <1>4 DEF ScanPosition
  <2> HIDE DEF s
  <2> QED BY <1>1, <1>2, <1>3, <1>4, <2>1 DEF s
<1>5. CASE Open(s)
  <2>1. /\ bags' = [bags EXCEPT ![suffix][s] = bag]
        /\ touched' = touched \cup {<<s, l>> : l \in riders \cap bag}
        /\ changed' = changed \cup {s : l \in riders \cap bag}
        /\ onboard' = EarliestOnboard(onboard \cup Joining(line, place, bags[suffix - 1][s]))
    BY <1>5 DEF ScanPosition
  <2>2. bag \in SUBSET ReverseLabels
    <3>1. riders \subseteq ReverseLabels
      BY <1>1, <1>5, BoardingsSound DEF ReverseLabels
    <3>2. bag \subseteq bags[suffix][s] \cup riders
      BY InsertAmong
    <3> QED BY <1>2, <3>1, <3>2
  <2> HIDE DEF s, riders, bag
  <2>3. bags' \in [Rounds -> [Stops -> SUBSET ReverseLabels]]
    BY <1>2, <2>1, <2>2
  <2>4. /\ bags'[suffix][s] = bag
        /\ \A k \in Rounds, x \in Stops : k # suffix \/ x # s \/ ~Open(s) => bags'[k][x] = bags[k][x]
    BY <1>2, <1>5, <2>1
  <2> QED BY <1>1, <1>2, <1>3, <1>5, <2>1, <2>3, <2>4 DEF s, riders, bag
<1> QED BY <1>4, <1>5

LEMMA GenuineScanPosition == GInv /\ q' = q /\ ScanPosition => GInv'
<1> SUFFICES ASSUME GInv, q' = q, ScanPosition PROVE GInv'
  OBVIOUS
<1> DEFINE s == StopsOf(line)[place]
           riders == Boardings(line, place, onboard)
           joining == Joining(line, place, bags[suffix - 1][s])
<1>1. /\ phase = "scan" /\ place > 0 /\ s \in Stops /\ place' = place - 1
      /\ UNCHANGED <<phase, suffix, upstream, line, elected, answers>>
      /\ \A k \in Rounds, x \in Stops : k # suffix \/ x # s \/ ~Open(s) => bags'[k][x] = bags[k][x]
      /\ Open(s) => /\ bags'[suffix][s] = InsertAll(bags[suffix][s], riders)
                    /\ touched' \subseteq touched \cup {<<s, l>> : l \in riders}
                    /\ changed' \subseteq changed \cup {s}
                    /\ onboard' = EarliestOnboard(onboard \cup joining)
      /\ ~Open(s) => UNCHANGED <<bags, touched, changed, onboard>>
      /\ bags' \in [Rounds -> [Stops -> SUBSET ReverseLabels]]
  BY ScannedBags
<1>2. /\ q \in Queries /\ suffix \in 1 .. q.rounds /\ suffix \in Rounds /\ suffix - 1 \in Rounds
      /\ suffix - 1 # suffix /\ suffix \in Nat
      /\ line \in DOMAIN q.pattern_stops /\ place \in 1 .. Len(StopsOf(line)) /\ place \in Nat
      /\ Len(StopsOf(line)) \in Nat /\ \A i \in 1 .. Len(StopsOf(line)) : StopsOf(line)[i] \in Stops
  BY <1>1, ScanAt
<1>3. ReverseTypeOK /\ LevelsOK /\ OnboardSound /\ TouchedSound /\ BagsSound
  BY <1>1 DEF GInv
<1>4. Open(s) => \A b \in riders : b \in FixedLabels /\ Fixed(b) /\ b.rooted /\ ContinuesAt(suffix, s, b)
  BY <1>1, BoardingsSound
<1>5. LevelsOK' /\ BagsSound'
  <2>1. ASSUME NEW k \in Rounds, NEW x \in Stops, NEW l \in bags'[k][x], l \notin bags[k][x]
        PROVE  k = suffix /\ Fixed(l) /\ ContinuesAt(k, x, l)
    <3>1. k = suffix /\ x = s /\ Open(s)
      BY <1>1, <2>1
    <3>2. l \in riders
      BY <1>1, <2>1, <3>1, InsertAmong
    <3> QED BY <1>4, <3>1, <3>2
  <2>2. suffix > 0 /\ suffix # 0 /\ suffix <= suffix' /\ suffix' = suffix
    BY <1>1, <1>2
  <2> HIDE DEF s, riders, joining
  <2> QED BY <1>1, <1>2, <2>1, <2>2, BagsStaySound
<1>6. ReverseTypeOK'
  <2>1. changed' \subseteq Stops
    BY <1>1, <1>3 DEF ReverseTypeOK
  <2>2. place' \in Nat /\ (place' > 0 => place' \in 1 .. Len(StopsOf(line)))
    BY <1>1, <1>2
  <2>3. /\ \A p \in DOMAIN upstream' : upstream'[p] \in 1 .. Len(StopsOf(p)')
        /\ place' > 0 => place' \in 1 .. Len(StopsOf(line)')
        /\ StopsOf(line)' = StopsOf(line)
    BY <1>1, <1>3, <2>2 DEF ReverseTypeOK, StopsOf
  <2> HIDE DEF s, riders, joining
  <2> QED BY <1>1, <1>3, <2>1, <2>2, <2>3, InstanceStays DEF ReverseTypeOK
<1>7. TouchedSound'
  <2>1. ASSUME NEW x \in touched'
        PROVE  x \in Stops \X ReverseLabels /\ Fixed(x[2]) /\ x[2].rooted /\ ContinuesAt(suffix, x[1], x[2])
    <3>1. CASE x \in touched
      BY <1>1, <1>3, <3>1 DEF TouchedSound
    <3>2. CASE x \notin touched
      <4>1. PICK l \in riders : x = <<s, l>> /\ Open(s)
        BY <1>1, <3>2
      <4> QED BY <1>1, <1>4, <4>1 DEF ReverseLabels
    <3> QED BY <3>1, <3>2
  <2> HIDE DEF s, riders, joining
  <2> QED BY <1>1, <2>1, InstanceStays, ContinuesStays DEF TouchedSound, Fixed, Unset
<1>8. OnboardSound'
  <2>1. ASSUME place' > 0, NEW o \in onboard'
        PROVE  \E a \in place' + 1 .. Len(StopsOf(line)) :
                 \E l \in bags[suffix - 1][StopsOf(line)[a]] : AlightsFor(o, a, l)
    <3>1. CASE o \in onboard
      <4>1. PICK a \in place + 1 .. Len(StopsOf(line)) :
              \E l \in bags[suffix - 1][StopsOf(line)[a]] : AlightsFor(o, a, l)
        BY <1>1, <1>3, <3>1 DEF OnboardSound
      <4>2. a \in place' + 1 .. Len(StopsOf(line))
        BY <1>1, <1>2
      <4> QED BY <4>1, <4>2
    <3>2. CASE o \notin onboard
      <4>1. Open(s) /\ o \in joining
        BY <1>1, <3>2 DEF EarliestOnboard
      <4>2. \E l \in bags[suffix - 1][StopsOf(line)[place]] : AlightsFor(o, place, l)
        BY <1>1, <4>1, JoiningSound
      <4>3. place \in place' + 1 .. Len(StopsOf(line))
        BY <1>1, <1>2
      <4> QED BY <4>2, <4>3
    <3> QED BY <3>1, <3>2
  <2>2. ASSUME NEW a \in 1 .. Len(StopsOf(line)) PROVE bags'[suffix - 1][StopsOf(line)[a]] = bags[suffix - 1][StopsOf(line)[a]]
    <3>1. StopsOf(line)[a] \in Stops
      BY <1>2
    <3> HIDE DEF s, riders, joining
    <3> QED BY <1>1, <1>2, <3>1
  <2>3. \A o, a, l : AlightsFor(o, a, l)' <=> AlightsFor(o, a, l)
    BY <1>1 DEF AlightsFor, Open, StopsOf, Achieved, Fixed
  <2>4. ASSUME place' > 0, NEW o \in onboard'
        PROVE  \E a \in place' + 1 .. Len(StopsOf(line)') :
                 \E l \in bags'[suffix' - 1][StopsOf(line)'[a]] : AlightsFor(o, a, l)'
    <3>1. PICK a \in place' + 1 .. Len(StopsOf(line)) :
            \E l \in bags[suffix - 1][StopsOf(line)[a]] : AlightsFor(o, a, l)
      BY <2>1, <2>4
    <3>2. PICK l \in bags[suffix - 1][StopsOf(line)[a]] : AlightsFor(o, a, l)
      BY <3>1
    <3>3. a \in 1 .. Len(StopsOf(line))
      BY <1>1, <1>2
    <3>4. l \in bags'[suffix - 1][StopsOf(line)[a]] /\ AlightsFor(o, a, l)'
      BY <2>2, <2>3, <3>2, <3>3
    <3>5. StopsOf(line)' = StopsOf(line) /\ suffix' = suffix
      BY <1>1 DEF StopsOf
    <3> QED BY <3>1, <3>4, <3>5
  <2> QED BY <2>4 DEF OnboardSound, StopsOf
<1> QED BY <1>5, <1>6, <1>7, <1>8 DEF GInv

----------------------------------------------------------------------------
(* The footpaths, the end of the rounds, and every step.                   *)

LEMMA FootpathedIs ==
  ASSUME NEW y
  PROVE  y \in Footpathed <=>
           \E x \in touched, e \in q.transfers :
             /\ e.to = x[1] /\ Open(e.from) /\ e.duration <= x[2].departure
             /\ y = <<e.from, WalkingTo(e, x[2])>>
<1>1. ASSUME y \in Footpathed
      PROVE  \E x \in touched, e \in q.transfers :
               /\ e.to = x[1] /\ Open(e.from) /\ e.duration <= x[2].departure
               /\ y = <<e.from, WalkingTo(e, x[2])>>
  <2>1. PICK z \in touched \X q.transfers :
          /\ z[2].to = z[1][1] /\ Open(z[2].from) /\ z[2].duration <= z[1][2].departure
          /\ y = <<z[2].from, WalkingTo(z[2], z[1][2])>>
    BY <1>1 DEF Footpathed, WalkingTo
  <2>2. z[1] \in touched /\ z[2] \in q.transfers
    BY <2>1
  <2> QED BY <2>1, <2>2
<1>2. ASSUME NEW x \in touched, NEW e \in q.transfers, e.to = x[1], Open(e.from),
             e.duration <= x[2].departure, y = <<e.from, WalkingTo(e, x[2])>>
      PROVE  y \in Footpathed
  <2> DEFINE z == <<x, e>>
  <2>1. z \in touched \X q.transfers /\ z[1] = x /\ z[2] = e
    OBVIOUS
  <2> HIDE DEF z
  <2> QED BY <1>2, <2>1 DEF Footpathed, WalkingTo
<1> QED BY <1>1, <1>2

LEMMA WalkingToIs ==
  ASSUME q \in Queries, q.use \notin {"depart", "matrix"}, NEW l \in FixedLabels,
         NEW e \in q.transfers, e.duration <= l.departure
  PROVE  /\ WalkingTo(e, l) \in FixedLabels /\ Fixed(WalkingTo(e, l)) /\ WalkingTo(e, l).rooted = FALSE
         /\ WalkingTo(e, l).departure = l.departure - e.duration
         /\ WalkingTo(e, l).departure + e.duration = l.departure
         /\ WalkingTo(e, l).achieved = l.achieved /\ WalkingTo(e, l).seed = l.seed
<1> DEFINE y == WalkingTo(e, l)
<1>1. e.duration \in Nat
  BY QueriesAssumption DEF WellFormedTransfers
<1>2. Deadline \in Nat /\ Deadline < Unreached
  BY DeadlineTime
<1>3. l.departure \in 0 .. Deadline /\ l.achieved \in 0 .. Deadline /\ l.seed \in ReverseSeeds
  BY DEF FixedLabels
<1>4. /\ y.rooted = FALSE /\ y.achieved = l.achieved /\ y.seed = l.seed /\ y.trailing = 0
      /\ y.departure = l.departure - e.duration
  BY DEF WalkingTo, Continuation
<1>5. l.departure - e.duration \in 0 .. Deadline /\ l.departure - e.duration + e.duration = l.departure
  BY <1>1, <1>2, <1>3
<1>6. y \in FixedLabels
  BY <1>3, <1>5 DEF WalkingTo, Continuation, FixedLabels
<1>7. l.achieved # Unset
  BY <1>2, <1>3 DEF Unset
<1>8. Fixed(y)
  BY <1>4, <1>7 DEF Fixed
<1> QED BY <1>4, <1>5, <1>6, <1>8

LEMMA FootpathedSound ==
  ASSUME GInv, phase = "scan", NEW y \in Footpathed
  PROVE  y[1] \in Stops /\ y[2] \in FixedLabels /\ Fixed(y[2]) /\ ContinuesAt(suffix, y[1], y[2])
<1>1. q \in Queries /\ q.use \notin {"depart", "matrix"} /\ suffix \in 1 .. q.rounds
  BY ScanAt
<1>2. PICK x \in touched, e \in q.transfers :
        /\ e.to = x[1] /\ Open(e.from) /\ e.duration <= x[2].departure
        /\ y = <<e.from, WalkingTo(e, x[2])>>
  BY FootpathedIs
<1>3. x[2] \in ReverseLabels /\ Fixed(x[2]) /\ x[2].rooted /\ ContinuesAt(suffix, x[1], x[2])
  BY DEF GInv, TouchedSound
<1>4. x[2] \in FixedLabels
  BY <1>1, <1>3, LabelFacts
<1>5. e.from \in Stops
  BY <1>1, QueriesAssumption DEF WellFormedTransfers
<1> DEFINE l == x[2]
           w == WalkingTo(e, l)
<1>6. /\ w \in FixedLabels /\ Fixed(w) /\ w.rooted = FALSE
      /\ w.departure + e.duration = l.departure /\ w.achieved = l.achieved /\ w.seed = l.seed
  BY <1>1, <1>2, <1>4, WalkingToIs
<1>7. RiddenFrom(suffix, e.to, l.departure, l)
  BY <1>2, <1>3 DEF ContinuesAt
<1> HIDE DEF w
<1>8. RiddenFrom(suffix, e.to, w.departure + e.duration, w)
  BY <1>6, <1>7 DEF RiddenFrom
<1>9. ContinuesAt(suffix, e.from, w)
  BY <1>6, <1>8 DEF ContinuesAt
<1>10. y[1] = e.from /\ y[2] = w
  BY <1>2 DEF w
<1> QED BY <1>5, <1>6, <1>9, <1>10

LEMMA ExtendedBags ==
  ASSUME GInv, Extend
  PROVE  /\ phase = "scan" /\ place = 0 /\ DOMAIN upstream = {} /\ phase' = "round"
         /\ changed' = changed \cup {x[1] : x \in Footpathed}
         /\ UNCHANGED <<suffix, upstream, scan, touched, elected, answers>>
         /\ \A s \in Stops : bags'[suffix][s] = InsertAll(bags[suffix][s], At(Footpathed, s))
         /\ \A k \in Rounds, s \in Stops : k # suffix => bags'[k][s] = bags[k][s]
         /\ \A s \in Stops : \A l \in At(Footpathed, s) : <<s, l>> \in Footpathed /\ l \in FixedLabels
         /\ bags' \in [Rounds -> [Stops -> SUBSET ReverseLabels]]
<1>1. /\ phase = "scan" /\ place = 0 /\ DOMAIN upstream = {} /\ phase' = "round"
      /\ changed' = changed \cup {x[1] : x \in Footpathed}
      /\ UNCHANGED <<suffix, upstream, scan, touched, elected, answers>>
      /\ bags' = [bags EXCEPT ![suffix] = [s \in Stops |-> InsertAll(bags[suffix][s], At(Footpathed, s))]]
  BY DEF Extend
<1>2. suffix \in Rounds /\ bags \in [Rounds -> [Stops -> SUBSET ReverseLabels]]
  BY <1>1, ScanAt
<1>3. ASSUME NEW s \in Stops, NEW l \in At(Footpathed, s)
      PROVE  <<s, l>> \in Footpathed /\ l \in FixedLabels
  <2>1. PICK y \in Footpathed : y[1] = s /\ y[2] = l
    BY DEF At
  <2>2. y = <<y[1], y[2]>>
    BY FootpathedIs
  <2> QED BY <1>1, <2>1, <2>2, FootpathedSound
<1>4. ASSUME NEW s \in Stops PROVE InsertAll(bags[suffix][s], At(Footpathed, s)) \in SUBSET ReverseLabels
  <2>1. InsertAll(bags[suffix][s], At(Footpathed, s)) \subseteq bags[suffix][s] \cup At(Footpathed, s)
    BY InsertAmong
  <2> QED BY <1>2, <1>3, <2>1 DEF ReverseLabels
<1>5. bags' \in [Rounds -> [Stops -> SUBSET ReverseLabels]]
  BY <1>1, <1>2, <1>4
<1>6. /\ \A s \in Stops : bags'[suffix][s] = InsertAll(bags[suffix][s], At(Footpathed, s))
      /\ \A k \in Rounds, s \in Stops : k # suffix => bags'[k][s] = bags[k][s]
  BY <1>1, <1>2
<1> QED BY <1>1, <1>3, <1>5, <1>6

LEMMA GenuineExtend == GInv /\ q' = q /\ Extend => GInv'
<1> SUFFICES ASSUME GInv, q' = q, Extend PROVE GInv'
  OBVIOUS
<1>1. /\ phase = "scan" /\ place = 0 /\ DOMAIN upstream = {} /\ phase' = "round"
      /\ changed' = changed \cup {x[1] : x \in Footpathed}
      /\ suffix' = suffix /\ upstream' = upstream /\ place' = place /\ line' = line
      /\ \A s \in Stops : bags'[suffix][s] = InsertAll(bags[suffix][s], At(Footpathed, s))
      /\ \A k \in Rounds, s \in Stops : k # suffix => bags'[k][s] = bags[k][s]
      /\ \A s \in Stops : \A l \in At(Footpathed, s) : <<s, l>> \in Footpathed
      /\ bags' \in [Rounds -> [Stops -> SUBSET ReverseLabels]]
  BY ExtendedBags DEF scan
<1>2. q \in Queries /\ suffix \in 1 .. q.rounds /\ suffix \in Rounds /\ suffix \in Nat
  BY <1>1, ScanAt
<1>3. ReverseTypeOK
  BY DEF GInv
<1>4. LevelsOK' /\ BagsSound'
  <2>1. ASSUME NEW k \in Rounds, NEW s \in Stops, NEW l \in bags'[k][s], l \notin bags[k][s]
        PROVE  k = suffix /\ Fixed(l) /\ ContinuesAt(k, s, l)
    <3>1. k = suffix
      BY <1>1, <2>1
    <3>2. l \in At(Footpathed, s)
      BY <1>1, <2>1, <3>1, InsertAmong
    <3>3. <<s, l>> \in Footpathed
      BY <1>1, <3>2
    <3>4. Fixed(<<s, l>>[2]) /\ ContinuesAt(suffix, <<s, l>>[1], <<s, l>>[2])
      BY <1>1, <3>3, FootpathedSound
    <3> QED BY <3>1, <3>4
  <2>2. suffix > 0 /\ suffix # 0 /\ suffix <= suffix'
    BY <1>1, <1>2
  <2> QED BY <1>1, <1>2, <2>1, <2>2, BagsStaySound
<1>5. changed' \subseteq Stops
  BY <1>1, <1>3, FootpathedSound DEF ReverseTypeOK
<1>6. ReverseTypeOK'
  <2>1. /\ q.use \notin {"depart", "matrix"} /\ place' = 0 /\ place' \in Nat /\ DOMAIN upstream' = {}
        /\ suffix' \in Rounds
    BY <1>1, <1>2, <1>3 DEF ReverseTypeOK
  <2>2. bags' \in [Rounds' -> [Stops -> SUBSET ReverseLabels']]
    BY <1>1, InstanceStays
  <2> HIDE DEF ReverseLabels
  <2> QED BY <1>1, <1>2, <1>5, <2>1, <2>2, InstanceStays DEF ReverseTypeOK
<1> QED BY <1>1, <1>4, <1>6 DEF GInv, OnboardSound, TouchedSound

\* A step that leaves the search alone.
LEMMA GenuineQuiet ==
  ASSUME GInv, q' = q, UNCHANGED <<suffix, search>>, place = 0, phase # "scan", phase' # "scan",
         phase # "idle", phase' # "idle", phase' # "seed",
         phase' \in {"idle", "seed", "round", "scan", "elect", "times", "nearest", "replay", "answered"}
  PROVE  GInv'
<1>1. ReverseTypeOK /\ LevelsOK /\ BagsSound /\ q \in Queries /\ suffix \in Rounds
  BY DEF GInv, ReverseTypeOK
<1>2. bags' = bags /\ changed' = changed /\ upstream' = upstream /\ place' = place /\ line' = line
  BY DEF search, scan
<1>3. suffix' \in Rounds /\ suffix <= suffix' /\ suffix' = suffix
  BY <1>1, RoundNumbers
<1>4. LevelsOK' /\ BagsSound'
  BY <1>2, <1>3, BagsStaySound
<1>5. ReverseTypeOK'
  BY <1>1, <1>2, <1>3, InstanceStays DEF ReverseTypeOK
<1> QED BY <1>2, <1>4, <1>5 DEF GInv, OnboardSound, TouchedSound

LEMMA GenuineStutter == GInv /\ UNCHANGED <<q, reverseVars>> => GInv'
<1> SUFFICES ASSUME GInv, UNCHANGED <<q, reverseVars>> PROVE GInv'
  OBVIOUS
<1>1. /\ q' = q /\ phase' = phase /\ suffix' = suffix /\ bags' = bags /\ changed' = changed
      /\ upstream' = upstream /\ line' = line /\ place' = place /\ onboard' = onboard /\ touched' = touched
  BY DEF reverseVars, search, scan
<1>2. ReverseTypeOK'
  BY <1>1, InstanceStays DEF GInv, ReverseTypeOK
<1>3. CASE phase = "idle"
  BY <1>1, <1>2, <1>3 DEF GInv
<1>4. CASE phase # "idle"
  <2>1. q \in Queries /\ suffix \in Rounds /\ OnboardSound /\ TouchedSound
    BY <1>4 DEF GInv, ReverseTypeOK
  <2>2. suffix <= suffix' /\ suffix' \in Rounds
    BY <1>1, <2>1, RoundNumbers
  <2>3. LevelsOK' /\ BagsSound'
    BY <1>1, <1>4, <2>2, BagsStaySound
  <2>4. TouchedSound'
    BY <1>1, <2>1, InstanceStays, ContinuesStays DEF TouchedSound, Fixed, Unset
  <2>5. \A o, a, l : AlightsFor(o, a, l)' <=> AlightsFor(o, a, l)
    BY <1>1 DEF AlightsFor, Open, StopsOf, Achieved, Fixed
  <2>6. OnboardSound'
    BY <1>1, <2>1, <2>5 DEF OnboardSound, StopsOf
  <2> QED BY <1>2, <2>3, <2>4, <2>6 DEF GInv
<1> QED BY <1>3, <1>4

LEMMA GenuineInit == q \in Queries /\ ReverseInit => GInv
<1> SUFFICES ASSUME q \in Queries, ReverseInit PROVE GInv
  OBVIOUS
<1>1. /\ phase = (IF q.use \in {"depart", "matrix"} THEN "idle" ELSE "seed")
      /\ suffix = 0 /\ bags = [k \in Rounds |-> [s \in Stops |-> {}]] /\ changed = {}
      /\ upstream = <<>> /\ place = 0
  BY DEF ReverseInit
<1>2. 0 \in Rounds
  BY RoundNumbers
<1>3. bags \in [Rounds -> [Stops -> SUBSET ReverseLabels]] /\ \A k \in Rounds, s \in Stops : bags[k][s] = {}
  BY <1>1
<1>4. DOMAIN upstream = {}
  BY <1>1
<1>5. ReverseTypeOK
  BY <1>1, <1>2, <1>3, <1>4 DEF ReverseTypeOK
<1>6. LevelsOK /\ BagsSound
  BY <1>2, <1>3, RoundNumbers DEF LevelsOK, BagsSound
<1> QED BY <1>1, <1>5, <1>6 DEF GInv, OnboardSound, TouchedSound

\* The steps after the rounds leave the search alone.
LEMMA QuietSteps ==
  ASSUME GInv, EndRounds \/ Elect \/ Replay \/ AnswerTimes \/ AnswerNearest
  PROVE  /\ UNCHANGED <<suffix, search>> /\ place = 0
         /\ phase \in {"round", "elect", "replay", "times", "nearest"}
         /\ phase' \in {"elect", "times", "nearest", "replay", "answered"}
<1>1. ReverseTypeOK
  BY DEF GInv
<1>2. /\ UNCHANGED <<suffix, search>>
      /\ phase \in {"round", "elect", "replay", "times", "nearest"}
      /\ phase' \in {"elect", "times", "nearest", "replay", "answered"}
  BY DEF EndRounds, Elect, Replay, AnswerTimes, AnswerNearest
<1> QED BY <1>1, <1>2 DEF ReverseTypeOK

LEMMA GenuineNext == GInv /\ [ReverseNext /\ UNCHANGED q]_<<q, reverseVars>> => GInv'
<1> SUFFICES ASSUME GInv, [ReverseNext /\ UNCHANGED q]_<<q, reverseVars>> PROVE GInv'
  OBVIOUS
<1>1. CASE UNCHANGED <<q, reverseVars>>
  BY <1>1, GenuineStutter
<1>2. CASE ReverseNext /\ UNCHANGED q
  <2>1. q' = q
    BY <1>2
  <2>2. CASE SeedEgress
    BY <2>1, <2>2, GenuineSeedEgress
  <2>3. CASE StartRound
    BY <2>1, <2>3, GenuineStartRound
  <2>4. CASE StartPattern
    BY <2>1, <2>4, GenuineStartPattern
  <2>5. CASE ScanPosition
    BY <2>1, <2>5, GenuineScanPosition
  <2>6. CASE Extend
    BY <2>1, <2>6, GenuineExtend
  <2>7. CASE EndRounds \/ Elect \/ Replay \/ AnswerTimes \/ AnswerNearest
    <3>1. /\ UNCHANGED <<suffix, search>> /\ place = 0
          /\ phase \in {"round", "elect", "replay", "times", "nearest"}
          /\ phase' \in {"elect", "times", "nearest", "replay", "answered"}
      BY <2>7, QuietSteps
    <3> QED BY <2>1, <3>1, GenuineQuiet
  <2> QED BY <1>2, <2>2, <2>3, <2>4, <2>5, <2>6, <2>7 DEF ReverseNext
<1> QED BY <1>1, <1>2

LEMMA GenuineAlways == ReverseSpec => []GInv
<1>1. q \in Queries /\ ReverseInit => GInv
  BY GenuineInit
<1>2. GInv /\ [ReverseNext /\ UNCHANGED q]_<<q, reverseVars>> => GInv'
  BY GenuineNext
<1> QED BY <1>1, <1>2, PTL DEF ReverseSpec

----------------------------------------------------------------------------
(* What covers a round goes on covering it.                                *)

BagTables == [Rounds -> [Stops -> SUBSET ReverseLabels]]
\* A bag of the one has a label as good as any the other's has.
AsGoodAs(c, b) == \A s \in Stops : \A x \in ReverseLabels : HasAsGood(b[s], x) => HasAsGood(c[s], x)

LEMMA InsertedAsGood ==
  ASSUME q \in Queries, q.use \notin {"depart", "matrix"}, NEW bag \in SUBSET ReverseLabels,
         NEW added \in SUBSET ReverseLabels, NEW x \in ReverseLabels, HasAsGood(bag, x)
  PROVE  HasAsGood(InsertAll(bag, added), x)
<1>1. HasAsGood(bag \cup added, x)
  BY DEF HasAsGood
<1> QED BY <1>1, InsertCovers

LEMMA BoardingIs ==
  ASSUME q \in Queries, q.use \notin {"depart", "matrix"}, NEW d, NEW t, NEW board, NEW alight,
         Usable(d, t, board, alight), NEW l \in ReverseLabels, q.arrival[t][alight] <= l.departure + Offset(d)
  PROVE  /\ Boarding(d, t, board, alight, l) \in FixedLabels
         /\ Alights(d, t, q.trip_pattern[t], alight, l)
         /\ Boarding(d, t, board, alight, l).departure = q.departure[t][board] - Offset(d)
         /\ Boarding(d, t, board, alight, l).achieved = Achieved(l, t, alight, d)
         /\ Boarding(d, t, board, alight, l).seed = l.seed
         /\ Boarding(d, t, board, alight, l).rooted = TRUE
<1>1. /\ Offset(d) \in Nat /\ q.departure[t][board] \in Nat /\ q.arrival[t][alight] \in Nat
      /\ q.departure[t][board] <= q.arrival[t][alight] /\ Offset(d) <= q.departure[t][board]
      /\ q.trip_pattern[t] \in DOMAIN q.pattern_stops /\ d \in Streams /\ t \in q.usable[d]
      /\ alight \in 1 .. Len(StopsOf(q.trip_pattern[t]))
  BY UsableFacts DEF Usable
<1>2. l.departure \in 0 .. Deadline /\ Deadline \in Nat
  BY LabelFacts, DeadlineTime
<1>3. l.seed \in ReverseSeeds
  BY DEF ReverseLabels, PendingLabels, FixedLabels
<1>4. q.departure[t][board] - Offset(d) \in 0 .. Deadline
  BY <1>1, <1>2, SMTT(30)
<1>5. Alights(d, t, q.trip_pattern[t], alight, l)
  BY <1>1 DEF Alights
<1>6. Achieved(l, t, alight, d) \in 0 .. Deadline
  BY <1>1, <1>5, AchievedIs
<1>7. Boarding(d, t, board, alight, l) \in FixedLabels
  BY <1>3, <1>4, <1>6 DEF Boarding, Continuation, FixedLabels
<1> QED BY <1>5, <1>7 DEF Boarding, Continuation

LEMMA RidesStayCovered ==
  ASSUME q \in Queries, q.use \notin {"depart", "matrix"}, NEW b \in BagTables, NEW c \in BagTables,
         NEW k \in 1 .. q.rounds, NEW p \in DOMAIN q.pattern_stops, NEW beyond,
         RidesCovered(b, k, p, beyond), \A s \in Stops : c[k - 1][s] = b[k - 1][s], AsGoodAs(c[k], b[k])
  PROVE  RidesCovered(c, k, p, beyond)
<1>1. ASSUME NEW d \in Streams, NEW t \in q.usable[d], q.trip_pattern[t] = p,
             NEW board \in 1 .. Len(StopsOf(p)), NEW alight \in 1 .. Len(StopsOf(p)),
             Usable(d, t, board, alight), beyond < board, NEW l \in c[k - 1][StopsOf(p)[alight]],
             q.arrival[t][alight] <= l.departure + Offset(d)
      PROVE  HasAsGood(c[k][StopsOf(p)[board]], Boarding(d, t, board, alight, l))
  <2>1. StopsOf(p)[board] \in Stops /\ StopsOf(p)[alight] \in Stops
    BY <1>1, UsableFacts DEF StopAt
  <2>2. k - 1 \in Rounds
    BY RoundNumbers
  <2>3. l \in b[k - 1][StopsOf(p)[alight]] /\ l \in ReverseLabels
    BY <1>1, <2>1, <2>2 DEF BagTables
  <2>4. HasAsGood(b[k][StopsOf(p)[board]], Boarding(d, t, board, alight, l))
    BY <1>1, <2>3 DEF RidesCovered
  <2>5. Boarding(d, t, board, alight, l) \in ReverseLabels
    BY <1>1, <2>3, BoardingIs DEF ReverseLabels
  <2> QED BY <2>1, <2>4, <2>5 DEF AsGoodAs
<1> QED BY <1>1 DEF RidesCovered

LEMMA WalksStayCovered ==
  ASSUME NEW b, NEW c, NEW k, WalksCovered(b, k), \A s \in Stops : c[k][s] = b[k][s], q \in Queries
  PROVE  WalksCovered(c, k)
<1>1. \A e \in q.transfers : e.from \in Stops
  BY QueriesAssumption DEF WellFormedTransfers
<1> QED BY <1>1 DEF WalksCovered

\* Where bags stay, rounds stay covered.
LEMMA RoundsStayCovered ==
  ASSUME q \in Queries, q.use \notin {"depart", "matrix"}, NEW b \in BagTables, NEW c \in BagTables,
         NEW k \in 1 .. q.rounds, RoundCovered(b, k),
         \A s \in Stops : c[k - 1][s] = b[k - 1][s] /\ c[k][s] = b[k][s]
  PROVE  RoundCovered(c, k)
<1>1. AsGoodAs(c[k], b[k])
  BY DEF AsGoodAs
<1>2. \A p \in DOMAIN q.pattern_stops : RidesCovered(c, k, p, 0)
  BY <1>1, RidesStayCovered DEF RoundCovered
<1>3. WalksCovered(c, k)
  BY WalksStayCovered DEF RoundCovered
<1> QED BY <1>2, <1>3 DEF RoundCovered

\* Nothing to continue with leaves nothing to cover.
LEMMA NothingToCover ==
  ASSUME q \in Queries, NEW b, NEW k, NEW p \in DOMAIN q.pattern_stops, NEW beyond \in Nat,
         \A i \in 1 .. Len(StopsOf(p)) : beyond < i => b[k - 1][StopsOf(p)[i]] = {}
  PROVE  RidesCovered(b, k, p, beyond)
<1>1. ASSUME NEW d \in Streams, NEW t \in q.usable[d], q.trip_pattern[t] = p,
             NEW board \in 1 .. Len(StopsOf(p)), NEW alight \in 1 .. Len(StopsOf(p)),
             Usable(d, t, board, alight), beyond < board
      PROVE  b[k - 1][StopsOf(p)[alight]] = {}
  <2>1. board \in Nat /\ alight \in Nat /\ board < alight
    BY <1>1, UsableFacts
  <2>2. beyond < alight
    BY <1>1, <2>1
  <2> QED BY <2>2
<1> QED BY <1>1 DEF RidesCovered

LEMMA CoverStays ==
  q' = q => \A b, k, p, beyond : /\ RidesCovered(b, k, p, beyond)' <=> RidesCovered(b, k, p, beyond)
                                 /\ WalksCovered(b, k)' <=> WalksCovered(b, k)
                                 /\ RoundCovered(b, k)' <=> RoundCovered(b, k)
<1> SUFFICES ASSUME q' = q
             PROVE  \A b, k, p, beyond : /\ RidesCovered(b, k, p, beyond)' <=> RidesCovered(b, k, p, beyond)
                                         /\ WalksCovered(b, k)' <=> WalksCovered(b, k)
                                         /\ RoundCovered(b, k)' <=> RoundCovered(b, k)
  OBVIOUS
<1>1. \A d, t, i, j : Usable(d, t, i, j)' <=> Usable(d, t, i, j)
  BY DEF Usable, StopsOf, StopAt, Open
<1>2. \A d, t, i, j, l : Boarding(d, t, i, j, l)' = Boarding(d, t, i, j, l)
  BY DEF Boarding, Achieved, Fixed
<1>3. \A b, k, p, beyond : RidesCovered(b, k, p, beyond)' <=> RidesCovered(b, k, p, beyond)
  BY <1>1, <1>2, SMTT(30) DEF RidesCovered, StopsOf
<1>4. \A b, k : WalksCovered(b, k)' <=> WalksCovered(b, k)
  BY DEF WalksCovered, Open
<1> QED BY <1>3, <1>4 DEF RoundCovered

LEMMA SeedsStayCovered ==
  ASSUME q' = q, q \in Queries, q.use \notin {"depart", "matrix"}, SeedsCovered,
         \A s \in Stops : bags'[0][s] = bags[0][s]
  PROVE  SeedsCovered'
<1>1. \A link \in q.egress : \A x \in SeedsOf(link) : x[1] \in Stops
  BY SeedsSound
<1>2. \A link : SeedsOf(link)' = SeedsOf(link)
  BY InstanceStays
<1>3. \A bag, x : HasAsGood(bag, x)' <=> HasAsGood(bag, x)
  BY DEF HasAsGood
<1>4. ASSUME NEW link \in q.egress, NEW x \in SeedsOf(link) PROVE HasAsGood(bags'[0][x[1]], x[2])
  BY <1>1, <1>4 DEF SeedsCovered
<1> QED BY <1>2, <1>4 DEF SeedsCovered, HasAsGood

----------------------------------------------------------------------------
(* None is missing, action by action.                                      *)

LEMMA NoneMissingSeedEgress == GInv /\ VInv /\ q' = q /\ SeedEgress => VInv'
<1> SUFFICES ASSUME GInv, VInv, q' = q, SeedEgress PROVE VInv'
  OBVIOUS
<1>1. /\ ReverseTypeOK /\ phase = "seed" /\ phase' = "round" /\ suffix' = suffix
      /\ changed' = {x[1] : x \in UNION {SeedsOf(link) : link \in q.egress}}
  BY DEF GInv, SeedEgress
<1>2. q \in Queries /\ q.use \notin {"depart", "matrix"} /\ suffix = 0
  BY <1>1 DEF ReverseTypeOK
<1>3. \A s \in Stops : bags'[0][s] = InsertAll({}, SeedsAt(s))
  BY <1>2, SeedBags
<1>4. \A s \in Stops : SeedsAt(s) \in SUBSET ReverseLabels
  BY <1>2, SeedsAtSound DEF ReverseLabels
<1>5. SeedsCovered'
  <2>1. ASSUME NEW link \in q.egress, NEW x \in SeedsOf(link) PROVE HasAsGood(bags'[0][x[1]], x[2])
    <3>1. x[1] \in Stops /\ x[2] \in ReverseLabels
      BY <1>2, SeedsSound DEF ReverseLabels
    <3>2. x[2] \in SeedsAt(x[1])
      BY DEF SeedsAt, At
    <3>3. HasAsGood({} \cup SeedsAt(x[1]), x[2])
      BY <1>2, <3>1, <3>2, DominatesItself DEF HasAsGood
    <3>4. HasAsGood(InsertAll({}, SeedsAt(x[1])), x[2])
      BY <1>2, <1>4, <3>1, <3>3, InsertCovers
    <3> QED BY <1>3, <3>1, <3>4
  <2>2. \A link : SeedsOf(link)' = SeedsOf(link)
    BY InstanceStays
  <2> QED BY <2>1, <2>2 DEF SeedsCovered, HasAsGood
<1>6. RoundsCovered'
  <2>1. \A k \in 1 .. q.rounds : ~(k < suffix') /\ k # suffix'
    BY <1>1, <1>2, RoundNumbers
  <2> QED BY <2>1 DEF RoundsCovered
<1>7. ChangesMarked'
  <2>1. ASSUME NEW s \in Stops, bags'[0][s] # {} PROVE s \in changed'
    <3>1. PICK l \in SeedsAt(s) : TRUE
      BY <1>3, <2>1, InsertAmong
    <3>2. PICK x \in UNION {SeedsOf(link) : link \in q.egress} : x[1] = s
      BY DEF SeedsAt, At
    <3> QED BY <1>1, <3>2
  <2> QED BY <1>1, <1>2, <2>1 DEF ChangesMarked
<1> QED BY <1>1, <1>5, <1>6, <1>7 DEF VInv, Searching, Elected

LEMMA NoneMissingStartRound == GInv /\ VInv /\ q' = q /\ StartRound => VInv'
<1> SUFFICES ASSUME GInv, VInv, q' = q, StartRound PROVE VInv'
  OBVIOUS
<1>1. /\ ReverseTypeOK /\ phase = "round" /\ suffix < q.rounds /\ suffix' = suffix + 1 /\ phase' = "scan"
      /\ bags' = bags /\ place' = place /\ line' = line
      /\ upstream' = [p \in {p \in DOMAIN q.pattern_stops : Range(StopsOf(p)) \cap changed # {}} |-> LastChanged(p)]
  BY DEF GInv, StartRound, scan
<1>2. /\ q \in Queries /\ q.use \notin {"depart", "matrix"} /\ suffix \in Rounds /\ place = 0
      /\ bags \in BagTables
  BY <1>1 DEF ReverseTypeOK, BagTables
<1>3. suffix \in Nat /\ suffix' \in Rounds /\ suffix' > suffix /\ suffix' - 1 = suffix /\ suffix' \in Nat
  BY <1>1, <1>2, RoundNumbers
<1>4. SeedsCovered /\ RoundsCovered /\ ChangesMarked /\ LevelsOK
  BY <1>1 DEF VInv, GInv, Searching
<1>5. \A s \in Stops : bags[suffix'][s] = {}
  BY <1>3, <1>4 DEF LevelsOK
<1>6. SeedsCovered'
  BY <1>1, <1>2, <1>4, SeedsStayCovered
<1>7. RoundsCovered'
  <2>1. ASSUME NEW k \in 1 .. q.rounds, k < suffix' PROVE RoundCovered(bags, k)
    <3>1. k < suffix \/ k = suffix
      BY <1>1, <1>3, <2>1
    <3> QED BY <1>1, <1>4, <3>1 DEF RoundsCovered
  <2> QED BY <1>1, <2>1, CoverStays DEF RoundsCovered
<1>8. \A p \in DOMAIN q.pattern_stops : \A i \in 1 .. Len(StopsOf(p)) :
        StopsOf(p)[i] \notin changed => bags[suffix][StopsOf(p)[i]] = {}
  <2>1. ASSUME NEW p \in DOMAIN q.pattern_stops PROVE StopsOf(p) \in Seq(Stops)
    BY <1>2, QueriesAssumption DEF WellFormedTimetable, StopsOf
  <2>2. \A p \in DOMAIN q.pattern_stops : \A i \in 1 .. Len(StopsOf(p)) : StopsOf(p)[i] \in Stops
    BY <2>1, ElementOfSeq
  <2> QED BY <1>4, <2>2 DEF ChangesMarked
<1>9. ScansCovered'
  <2>1. ASSUME NEW p \in DOMAIN q.pattern_stops \ DOMAIN upstream', NEW beyond \in Nat
        PROVE  RidesCovered(bags, suffix', p, beyond)
    <3>1. Range(StopsOf(p)) \cap changed = {}
      BY <1>1, <2>1
    <3>2. StopsOf(p) \in Seq(Stops)
      BY <1>2, QueriesAssumption DEF WellFormedTimetable, StopsOf
    <3>3. \A i \in 1 .. Len(StopsOf(p)) : StopsOf(p)[i] \notin changed
      BY <3>1, <3>2 DEF Range
    <3>4. \A i \in 1 .. Len(StopsOf(p)) : beyond < i => bags[suffix' - 1][StopsOf(p)[i]] = {}
      BY <1>3, <1>8, <3>3
    <3> QED BY <1>2, <3>4, NothingToCover
  <2>2. \A p : (IF p = line' THEN place' ELSE 0) \in Nat
    BY <1>1, <1>2
  <2>3. \A p \in DOMAIN q.pattern_stops \ DOMAIN upstream' :
          RidesCovered(bags, suffix', p, IF p = line' THEN place' ELSE 0)
    BY <2>1, <2>2
  <2> QED BY <1>1, <2>3, CoverStays DEF ScansCovered
<1>10. QueuedFarEnough'
  <2>1. ASSUME NEW p \in DOMAIN upstream', NEW i \in upstream'[p] + 1 .. Len(StopsOf(p))
        PROVE  bags[suffix][StopsOf(p)[i]] = {}
    <3>1. p \in DOMAIN q.pattern_stops /\ Range(StopsOf(p)) \cap changed # {} /\ upstream'[p] = LastChanged(p)
      BY <1>1
    <3>2. /\ LastChanged(p) \in 1 .. Len(StopsOf(p)) /\ Len(StopsOf(p)) \in Nat
          /\ \A j \in 1 .. Len(StopsOf(p)) : StopsOf(p)[j] \in changed => j <= LastChanged(p)
      BY <1>2, <3>1, LastChangedIs
    <3>3. i \in 1 .. Len(StopsOf(p)) /\ ~(i <= LastChanged(p))
      BY <3>1, <3>2
    <3> QED BY <1>8, <3>1, <3>2, <3>3
  <2>2. bags' = bags /\ suffix' - 1 = suffix /\ \A p : StopsOf(p)' = StopsOf(p)
    BY <1>1, <1>3 DEF StopsOf
  <2> QED BY <2>1, <2>2 DEF QueuedFarEnough
<1>11. OnboardCovers' /\ AllTouched'
  BY <1>1, <1>2, <1>5 DEF OnboardCovers, AllTouched
<1>12. ChangesMarked'
  BY <1>1, <1>5 DEF ChangesMarked
<1> QED BY <1>1, <1>6, <1>7, <1>9, <1>10, <1>11, <1>12 DEF VInv, ScanInv, Searching, Elected

LEMMA NoneMissingStartPattern == GInv /\ VInv /\ q' = q /\ StartPattern => VInv'
<1> SUFFICES ASSUME GInv, VInv, q' = q, StartPattern PROVE VInv'
  OBVIOUS
<1>1. /\ ReverseTypeOK /\ phase = "scan" /\ place = 0
      /\ phase' = phase /\ suffix' = suffix /\ bags' = bags /\ changed' = changed /\ touched' = touched
  BY DEF GInv, StartPattern
<1>2. PICK p \in DOMAIN upstream : /\ line' = p /\ place' = upstream[p]
                                 /\ upstream' = [o \in DOMAIN upstream \ {p} |-> upstream[o]]
  BY DEF StartPattern
<1>3. /\ q \in Queries /\ q.use \notin {"depart", "matrix"} /\ suffix - 1 \in Rounds /\ bags \in BagTables
      /\ \A o \in DOMAIN q.pattern_stops : Len(StopsOf(o)) \in Nat
  BY <1>1, ScanAt DEF BagTables
<1>4. SeedsCovered /\ RoundsCovered /\ ChangesMarked /\ ScansCovered /\ QueuedFarEnough /\ AllTouched
  BY <1>1 DEF VInv, ScanInv, Searching
<1>5. p \in DOMAIN q.pattern_stops /\ upstream[p] \in 1 .. Len(StopsOf(p)) /\ upstream[p] \in Nat
  BY <1>1, <1>3 DEF ReverseTypeOK
<1>6. \A i \in 1 .. Len(StopsOf(p)) : upstream[p] < i => bags[suffix - 1][StopsOf(p)[i]] = {}
  <2>1. \A i \in 1 .. Len(StopsOf(p)) : upstream[p] < i => i \in upstream[p] + 1 .. Len(StopsOf(p))
    BY <1>3, <1>5
  <2> QED BY <1>4, <2>1 DEF QueuedFarEnough
<1>7. /\ DOMAIN upstream' = DOMAIN upstream \ {p} /\ \A o \in DOMAIN upstream' : upstream'[o] = upstream[o]
  BY <1>2
<1>8. SeedsCovered'
  BY <1>1, <1>3, <1>4, SeedsStayCovered
<1>9. RoundsCovered'
  BY <1>1, <1>4, CoverStays DEF RoundsCovered
<1>10. ScansCovered'
  <2>1. ASSUME NEW o \in DOMAIN q.pattern_stops \ DOMAIN upstream'
        PROVE  RidesCovered(bags, suffix, o, IF o = line' THEN place' ELSE 0)
    <3>1. CASE o = p
      <4>1. RidesCovered(bags, suffix, p, upstream[p])
        BY <1>3, <1>5, <1>6, NothingToCover
      <4> QED BY <1>2, <3>1, <4>1
    <3>2. CASE o # p
      <4>1. o \in DOMAIN q.pattern_stops \ DOMAIN upstream
        BY <1>7, <2>1, <3>2
      <4>2. RidesCovered(bags, suffix, o, IF o = line THEN place ELSE 0)
        BY <1>4, <4>1 DEF ScansCovered
      <4>3. (IF o = line THEN place ELSE 0) = 0 /\ (IF o = line' THEN place' ELSE 0) = 0
        BY <1>1, <1>2, <3>2
      <4> QED BY <4>2, <4>3
    <3> QED BY <3>1, <3>2
  <2> QED BY <1>1, <2>1, CoverStays DEF ScansCovered
<1>11. QueuedFarEnough'
  BY <1>1, <1>4, <1>7, InstanceStays DEF QueuedFarEnough
<1>12. OnboardCovers'
  <2>1. ASSUME NEW a \in place' + 1 .. Len(StopsOf(p)) PROVE bags[suffix - 1][StopsOf(p)[a]] = {}
    <3>1. a \in 1 .. Len(StopsOf(p)) /\ upstream[p] < a
      BY <1>2, <1>3, <1>5
    <3> QED BY <1>6, <3>1
  <2>2. StopsOf(line)' = StopsOf(p)
    BY <1>2 DEF StopsOf
  <2> QED BY <1>1, <2>1, <2>2 DEF OnboardCovers
<1>13. ChangesMarked' /\ AllTouched'
  BY <1>1, <1>4 DEF ChangesMarked, AllTouched
<1> QED BY <1>1, <1>8, <1>9, <1>10, <1>11, <1>12, <1>13 DEF VInv, ScanInv, Searching, Elected

\* Of a trip's riders the earliest stays onboard.
LEMMA EarliestStays ==
  ASSUME NEW riders, \A r \in riders : r.achieved \in Nat, NEW r \in riders
  PROVE  \E o \in EarliestOnboard(riders) : Rider(o) = Rider(r) /\ o.achieved <= r.achieved
<1> DEFINE same == {o \in riders : Rider(o) = Rider(r)}
           times == {o.achieved : o \in same}
<1>1. times \in SUBSET Nat /\ r.achieved \in times
  OBVIOUS
<1>2. PICK i \in times : \A j \in times : i <= j
  <2> HIDE DEF times
  <2> QED BY <1>1, SmallestElement
<1>3. PICK o \in same : i = o.achieved
  BY <1>2
<1>4. \A x \in riders : Rider(x) = Rider(o) => o.achieved <= x.achieved
  <2>1. \A x \in riders : Rider(x) = Rider(o) => x \in same
    BY <1>3
  <2>2. \A x \in same : x.achieved \in times
    OBVIOUS
  <2> QED BY <1>2, <1>3, <2>1, <2>2
<1>5. o \in riders /\ Rider(o) = Rider(r) /\ o.achieved <= r.achieved
  BY <1>1, <1>2, <1>3
<1> QED BY <1>4, <1>5 DEF EarliestOnboard

\* Who is onboard boards with a label as good as those of the rides that can
\* board here and go on with a label of one ride less.
LEMMA BoardsHere ==
  ASSUME GInv, OnboardCovers, phase = "scan", place > 0, NEW d \in Streams, NEW t \in q.usable[d],
         q.trip_pattern[t] = line, NEW alight \in 1 .. Len(StopsOf(line)), Usable(d, t, place, alight),
         NEW l \in bags[suffix - 1][StopsOf(line)[alight]], q.arrival[t][alight] <= l.departure + Offset(d)
  PROVE  HasAsGood(Boardings(line, place, onboard), Boarding(d, t, place, alight, l))
<1>1. /\ q \in Queries /\ q.use \notin {"depart", "matrix"} /\ suffix - 1 \in Rounds
      /\ bags \in [Rounds -> [Stops -> SUBSET ReverseLabels]]
      /\ line \in DOMAIN q.pattern_stops /\ place \in 1 .. Len(StopsOf(line)) /\ place \in Nat
      /\ Len(StopsOf(line)) \in Nat /\ \A i \in 1 .. Len(StopsOf(line)) : StopsOf(line)[i] \in Stops
  BY ScanAt
<1>2. place < alight /\ alight \in place + 1 .. Len(StopsOf(line)) /\ StopAt(t, alight) = StopsOf(line)[alight]
  BY <1>1, UsableFacts DEF StopAt
<1>3. l \in ReverseLabels /\ Open(StopsOf(line)[alight])
  BY <1>1, <1>2 DEF Usable
<1> DEFINE b == Boarding(d, t, place, alight, l)
<1>4. /\ b \in FixedLabels /\ Alights(d, t, line, alight, l)
      /\ b.departure = q.departure[t][place] - Offset(d) /\ b.achieved = Achieved(l, t, alight, d)
      /\ b.seed = l.seed /\ b.rooted = TRUE
  <2>1. /\ Boarding(d, t, place, alight, l) \in FixedLabels
        /\ Alights(d, t, q.trip_pattern[t], alight, l)
        /\ Boarding(d, t, place, alight, l).departure = q.departure[t][place] - Offset(d)
        /\ Boarding(d, t, place, alight, l).achieved = Achieved(l, t, alight, d)
        /\ Boarding(d, t, place, alight, l).seed = l.seed
        /\ Boarding(d, t, place, alight, l).rooted = TRUE
    BY <1>1, <1>3, BoardingIs
  <2> QED BY <2>1
<1>5. PICK o \in onboard : AboardFor(o, d, t, alight, l)
  BY <1>2, <1>3, <1>4 DEF OnboardCovers
<1>6. /\ o.stream = d /\ o.seed = l.seed /\ t <= o.trip /\ o.achieved <= Achieved(l, t, alight, d)
  BY <1>5 DEF AboardFor
<1>7. o.trip \in q.usable[d] /\ q.trip_pattern[o.trip] = line
  <2>1. OnboardSound
    BY DEF GInv
  <2>2. PICK a \in place + 1 .. Len(StopsOf(line)) :
          \E m \in bags[suffix - 1][StopsOf(line)[a]] : AlightsFor(o, a, m)
    BY <2>1 DEF OnboardSound
  <2> QED BY <1>6, <2>2 DEF AlightsFor
<1>8. /\ q.departure[t][place] <= q.departure[o.trip][place]
      /\ q.departure[t][place] \in Nat /\ q.departure[o.trip][place] \in Nat
  BY <1>1, <1>6, <1>7, FirstInFirstOut
<1>9. Offset(d) \in Nat /\ Offset(d) <= q.departure[t][place]
  BY <1>1, TripTimes DEF Usable
<1> DEFINE c == Continuation(q.departure[o.trip][place] - Offset(o.stream), o.achieved, TRUE, o.seed)
<1>10. c \in Boardings(line, place, onboard)
  <2>1. Offset(o.stream) <= q.departure[o.trip][place]
    BY <1>6, <1>8, <1>9
  <2> QED BY <2>1 DEF Boardings
<1>11. c \in FixedLabels /\ Fixed(c)
  <2>1. Open(StopsOf(line)[place])
    BY DEF Usable, StopAt
  <2> HIDE DEF c
  <2> QED BY <1>10, <2>1, BoardingsSound
<1>12. Fixed(b)
  <2>1. b.achieved \in 0 .. Deadline /\ Deadline \in Nat /\ Deadline < Unreached
    BY <1>1, <1>4, DeadlineTime DEF FixedLabels
  <2>2. b.achieved # Unreached
    BY <2>1
  <2> QED BY <2>2 DEF Fixed, Unset
<1>13. /\ c.departure = q.departure[o.trip][place] - Offset(d) /\ c.achieved = o.achieved
       /\ c.seed = l.seed /\ c.rooted = TRUE
  BY <1>6 DEF Continuation
<1>14. c.departure >= b.departure /\ c.achieved <= b.achieved
  <2> HIDE DEF b, c
  <2>1. b.departure = q.departure[t][place] - Offset(d) /\ b.achieved = Achieved(l, t, alight, d)
    BY <1>4
  <2>2. c.departure >= b.departure
    BY <1>8, <1>9, <1>13, <2>1, SMTT(30)
  <2> QED BY <1>6, <1>13, <2>1, <2>2
<1> HIDE DEF b, c
<1>15. Dominates(c, b)
  BY <1>4, <1>11, <1>12, <1>13, <1>14 DEF Dominates
<1> QED BY <1>10, <1>15 DEF HasAsGood, b

LEMMA OnboardTimes ==
  ASSUME GInv, phase = "scan", place > 0, NEW o \in onboard
  PROVE  o.achieved \in Nat
<1>1. /\ q \in Queries /\ q.use \notin {"depart", "matrix"} /\ suffix - 1 \in Rounds
      /\ bags \in [Rounds -> [Stops -> SUBSET ReverseLabels]]
      /\ line \in DOMAIN q.pattern_stops /\ place \in Nat
      /\ Len(StopsOf(line)) \in Nat /\ \A i \in 1 .. Len(StopsOf(line)) : StopsOf(line)[i] \in Stops
  BY ScanAt
<1>2. PICK a \in place + 1 .. Len(StopsOf(line)) :
        \E l \in bags[suffix - 1][StopsOf(line)[a]] : AlightsFor(o, a, l)
  BY DEF GInv, OnboardSound
<1>3. PICK l \in bags[suffix - 1][StopsOf(line)[a]] : AlightsFor(o, a, l)
  BY <1>2
<1>4. a \in 1 .. Len(StopsOf(line)) /\ StopsOf(line)[a] \in Stops
  BY <1>1
<1>5. l \in ReverseLabels /\ Alights(o.stream, o.trip, line, a, l)
  BY <1>1, <1>3, <1>4 DEF AlightsFor, Alights
<1> QED BY <1>1, <1>3, <1>4, <1>5, AchievedIs DEF AlightsFor

\* Whoever can alight further on is onboard one position on.
LEMMA StaysAboard ==
  ASSUME GInv, OnboardCovers, phase = "scan", place > 0,
         NEW a \in place .. Len(StopsOf(line)), Open(StopsOf(line)[a]),
         NEW l \in bags[suffix - 1][StopsOf(line)[a]], NEW d, NEW t, Alights(d, t, line, a, l),
         Open(StopsOf(line)[place])
  PROVE  \E o \in EarliestOnboard(onboard \cup Joining(line, place, bags[suffix - 1][StopsOf(line)[place]])) :
           AboardFor(o, d, t, a, l)
<1> DEFINE joining == Joining(line, place, bags[suffix - 1][StopsOf(line)[place]])
           riders == onboard \cup joining
<1>1. /\ q \in Queries /\ q.use \notin {"depart", "matrix"} /\ suffix - 1 \in Rounds
      /\ bags \in [Rounds -> [Stops -> SUBSET ReverseLabels]]
      /\ line \in DOMAIN q.pattern_stops /\ place \in 1 .. Len(StopsOf(line)) /\ place \in Nat
      /\ Len(StopsOf(line)) \in Nat /\ \A i \in 1 .. Len(StopsOf(line)) : StopsOf(line)[i] \in Stops
  BY ScanAt
<1>2. \A r \in riders : r.achieved \in Nat
  <2>1. ASSUME NEW r \in joining PROVE r.achieved \in Nat
    <3>1. PICK m \in bags[suffix - 1][StopsOf(line)[place]] : AlightsFor(r, place, m)
      BY <2>1, JoiningSound
    <3>2. m \in ReverseLabels /\ Alights(r.stream, r.trip, line, place, m)
      BY <1>1, <3>1 DEF AlightsFor, Alights
    <3> QED BY <1>1, <3>1, <3>2, AchievedIs DEF AlightsFor
  <2> HIDE DEF joining
  <2> QED BY <2>1, OnboardTimes
<1>3. a \in 1 .. Len(StopsOf(line)) /\ l \in ReverseLabels /\ d \in Streams
  <2>1. a \in 1 .. Len(StopsOf(line))
    BY <1>1
  <2> QED BY <1>1, <2>1 DEF Alights
<1>4. PICK r \in riders : AboardFor(r, d, t, a, l)
  <2>1. CASE a = place
    <3>1. PICK u \in TripsInto(line, place, d, l) : t <= u /\ (Fixed(l) \/ u = t)
      BY <1>1, <1>3, <2>1, TripsIntoAre
    <3> DEFINE r == [trip |-> u, stream |-> d, achieved |-> Achieved(l, u, place, d), seed |-> l.seed]
    <3>2. r \in joining
      BY <1>3, <2>1, JoiningIs
    <3>3. Achieved(l, u, place, d) = Achieved(l, t, place, d)
      BY <3>1 DEF Achieved
    <3>4. Achieved(l, t, place, d) \in Nat
      BY <1>1, <1>3, <2>1, AchievedIs
    <3>5. AboardFor(r, d, t, a, l)
      BY <2>1, <3>1, <3>3, <3>4 DEF AboardFor
    <3> HIDE DEF r, joining
    <3> QED BY <3>2, <3>5
  <2>2. CASE a # place
    <3>1. a \in place + 1 .. Len(StopsOf(line))
      BY <1>1, <2>2
    <3> QED BY <3>1 DEF OnboardCovers
  <2> QED BY <2>1, <2>2
<1>5. PICK o \in EarliestOnboard(riders) : Rider(o) = Rider(r) /\ o.achieved <= r.achieved
  <2> HIDE DEF riders
  <2> QED BY <1>2, <1>4, EarliestStays
<1>6. o.trip = r.trip /\ o.stream = r.stream /\ o.seed = r.seed
  BY <1>5 DEF Rider
<1>7. o.achieved \in Nat /\ r.achieved \in Nat /\ Achieved(l, t, a, d) \in Nat
  <2>1. o \in riders
    BY <1>5 DEF EarliestOnboard
  <2> HIDE DEF riders
  <2> QED BY <1>1, <1>2, <1>3, <1>4, <2>1, AchievedIs
<1>8. AboardFor(o, d, t, a, l)
  BY <1>4, <1>5, <1>6, <1>7 DEF AboardFor
<1> QED BY <1>5, <1>8

LEMMA NoneMissingScanPosition == GInv /\ VInv /\ q' = q /\ ScanPosition => VInv'
<1> SUFFICES ASSUME GInv, VInv, q' = q, ScanPosition PROVE VInv'
  OBVIOUS
<1> DEFINE s == StopsOf(line)[place]
           riders == Boardings(line, place, onboard)
           joining == Joining(line, place, bags[suffix - 1][s])
<1>1. /\ phase = "scan" /\ place > 0 /\ s \in Stops /\ place' = place - 1
      /\ UNCHANGED <<phase, suffix, upstream, line, elected, answers>>
      /\ \A k \in Rounds, x \in Stops : k # suffix \/ x # s \/ ~Open(s) => bags'[k][x] = bags[k][x]
      /\ Open(s) => /\ bags'[suffix][s] = InsertAll(bags[suffix][s], riders)
                    /\ touched' = touched \cup {<<s, l>> : l \in riders \cap InsertAll(bags[suffix][s], riders)}
                    /\ changed' = changed \cup {s : l \in riders \cap InsertAll(bags[suffix][s], riders)}
                    /\ onboard' = EarliestOnboard(onboard \cup joining)
      /\ ~Open(s) => UNCHANGED <<bags, touched, changed, onboard>>
      /\ bags' \in BagTables
  BY ScannedBags DEF BagTables
<1>2. /\ q \in Queries /\ q.use \notin {"depart", "matrix"}
      /\ suffix \in 1 .. q.rounds /\ suffix \in Rounds /\ suffix - 1 \in Rounds
      /\ suffix - 1 # suffix /\ suffix \in Nat /\ bags \in BagTables
      /\ line \in DOMAIN q.pattern_stops /\ place \in 1 .. Len(StopsOf(line)) /\ place \in Nat
      /\ Len(StopsOf(line)) \in Nat /\ \A i \in 1 .. Len(StopsOf(line)) : StopsOf(line)[i] \in Stops
  BY <1>1, ScanAt DEF BagTables
<1>3. SeedsCovered /\ RoundsCovered /\ ChangesMarked /\ ScansCovered /\ QueuedFarEnough /\ OnboardCovers /\ AllTouched
  BY <1>1 DEF VInv, ScanInv, Searching
<1>4. Open(s) => riders \in SUBSET ReverseLabels
  BY <1>1, BoardingsSound DEF ReverseLabels
<1>5. AsGoodAs(bags'[suffix], bags[suffix])
  <2>1. ASSUME NEW x \in Stops, NEW y \in ReverseLabels, HasAsGood(bags[suffix][x], y)
        PROVE  HasAsGood(bags'[suffix][x], y)
    <3>1. CASE x = s /\ Open(s)
      <4>1. bags[suffix][s] \in SUBSET ReverseLabels
        BY <1>1, <1>2 DEF BagTables
      <4> HIDE DEF s, riders, joining
      <4> QED BY <1>1, <1>2, <1>4, <2>1, <3>1, <4>1, InsertedAsGood
    <3>2. CASE ~(x = s /\ Open(s))
      BY <1>1, <1>2, <2>1, <3>2
    <3> QED BY <3>1, <3>2
  <2> QED BY <2>1 DEF AsGoodAs
<1>6. ASSUME NEW k \in Rounds, k # suffix, NEW x \in Stops PROVE bags'[k][x] = bags[k][x]
  BY <1>1, <1>6
<1> HIDE DEF s, riders, joining
<1>7. SeedsCovered'
  <2>1. 0 \in Rounds /\ 0 # suffix
    BY <1>2, RoundNumbers
  <2>2. \A x \in Stops : bags'[0][x] = bags[0][x]
    BY <1>6, <2>1
  <2> QED BY <1>2, <1>3, <2>2, SeedsStayCovered
<1>8. RoundsCovered'
  <2>1. ASSUME NEW k \in 1 .. q.rounds, k < suffix PROVE RoundCovered(bags', k)
    <3>1. RoundCovered(bags, k)
      BY <1>3, <2>1 DEF RoundsCovered
    <3>2. k \in Rounds /\ k - 1 \in Rounds /\ k # suffix /\ k - 1 # suffix
      BY <1>2, <2>1, RoundNumbers
    <3>3. \A x \in Stops : bags'[k - 1][x] = bags[k - 1][x] /\ bags'[k][x] = bags[k][x]
      BY <1>6, <3>2
    <3> QED BY <1>1, <1>2, <3>1, <3>3, RoundsStayCovered
  <2> QED BY <1>1, <2>1, CoverStays DEF RoundsCovered
<1>9. \A x \in Stops : bags'[suffix - 1][x] = bags[suffix - 1][x]
  BY <1>2, <1>6
<1>10. ScansCovered'
  <2>1. ASSUME NEW p \in DOMAIN q.pattern_stops \ DOMAIN upstream
        PROVE  RidesCovered(bags', suffix, p, IF p = line THEN place - 1 ELSE 0)
    <3>1. RidesCovered(bags', suffix, p, IF p = line THEN place ELSE 0)
      <4>1. RidesCovered(bags, suffix, p, IF p = line THEN place ELSE 0)
        BY <1>3 DEF ScansCovered
      <4> QED BY <1>1, <1>2, <1>5, <1>9, <4>1, RidesStayCovered
    <3>2. CASE p # line
      BY <3>1, <3>2
    <3>3. CASE p = line
      <4>1. ASSUME NEW d \in Streams, NEW t \in q.usable[d], q.trip_pattern[t] = line,
                   NEW board \in 1 .. Len(StopsOf(line)), NEW alight \in 1 .. Len(StopsOf(line)),
                   Usable(d, t, board, alight), place - 1 < board,
                   NEW l \in bags'[suffix - 1][StopsOf(line)[alight]],
                   q.arrival[t][alight] <= l.departure + Offset(d)
            PROVE  HasAsGood(bags'[suffix][StopsOf(line)[board]], Boarding(d, t, board, alight, l))
        <5>1. CASE place < board
          BY <3>1, <3>3, <4>1, <5>1 DEF RidesCovered
        <5>2. CASE ~(place < board)
          <6>1. board = place
            BY <1>2, <4>1, <5>2
          <6>2. l \in bags[suffix - 1][StopsOf(line)[alight]] /\ StopsOf(line)[alight] \in Stops
            BY <1>2, <1>9, <4>1
          <6>3. l \in ReverseLabels
            BY <1>2, <6>2 DEF BagTables
          <6>4. HasAsGood(riders, Boarding(d, t, place, alight, l))
            BY <1>1, <1>3, <4>1, <6>1, <6>2, BoardsHere DEF riders
          <6>5. Open(s)
            BY <4>1, <6>1 DEF Usable, StopAt, s
          <6>6. Boarding(d, t, place, alight, l) \in ReverseLabels
            BY <1>2, <4>1, <6>1, <6>3, BoardingIs DEF ReverseLabels
          <6>7. HasAsGood(bags[suffix][s] \cup riders, Boarding(d, t, place, alight, l))
            BY <6>4 DEF HasAsGood
          <6>8. bags[suffix][s] \in SUBSET ReverseLabels
            BY <1>1, <1>2 DEF BagTables
          <6>9. HasAsGood(InsertAll(bags[suffix][s], riders), Boarding(d, t, place, alight, l))
            BY <1>2, <1>4, <6>5, <6>6, <6>7, <6>8, InsertCovers
          <6>10. StopsOf(line)[board] = s
            BY <6>1 DEF s
          <6> QED BY <1>1, <6>1, <6>5, <6>9, <6>10
        <5> QED BY <5>1, <5>2
      <4>2. RidesCovered(bags', suffix, line, place - 1)
        BY <4>1 DEF RidesCovered
      <4> QED BY <3>3, <4>2
    <3> QED BY <3>2, <3>3
  <2> QED BY <1>1, <2>1, CoverStays DEF ScansCovered
<1>11. QueuedFarEnough'
  <2>1. ReverseTypeOK
    BY DEF GInv
  <2>2. ASSUME NEW p \in DOMAIN upstream, NEW i \in upstream[p] + 1 .. Len(StopsOf(p))
        PROVE  bags'[suffix - 1][StopsOf(p)[i]] = {}
    <3>1. p \in DOMAIN q.pattern_stops /\ upstream[p] \in 1 .. Len(StopsOf(p))
      BY <2>1 DEF ReverseTypeOK
    <3>2. Len(StopsOf(p)) \in Nat /\ \A j \in 1 .. Len(StopsOf(p)) : StopsOf(p)[j] \in Stops
      BY <1>1, <3>1, ScanAt
    <3>3. i \in 1 .. Len(StopsOf(p))
      BY <3>1, <3>2
    <3>4. bags[suffix - 1][StopsOf(p)[i]] = {}
      BY <1>3 DEF QueuedFarEnough
    <3> QED BY <1>9, <3>2, <3>3, <3>4
  <2>3. upstream' = upstream /\ suffix' = suffix /\ \A p : StopsOf(p)' = StopsOf(p)
    BY <1>1 DEF StopsOf
  <2> QED BY <2>2, <2>3 DEF QueuedFarEnough
<1>12. OnboardCovers'
  <2>1. ASSUME NEW a \in place' + 1 .. Len(StopsOf(line)), Open(StopsOf(line)[a]),
               NEW l \in bags'[suffix - 1][StopsOf(line)[a]], NEW d, NEW t, Alights(d, t, line, a, l)
        PROVE  \E o \in onboard' : AboardFor(o, d, t, a, l)
    <3>1. a \in place .. Len(StopsOf(line)) /\ a \in 1 .. Len(StopsOf(line))
      BY <1>1, <1>2
    <3>2. l \in bags[suffix - 1][StopsOf(line)[a]]
      BY <1>2, <1>9, <3>1
    <3>3. CASE Open(s)
      BY <1>1, <1>3, <2>1, <3>1, <3>2, <3>3, StaysAboard DEF s, joining
    <3>4. CASE ~Open(s)
      <4>1. a # place
        BY <2>1, <3>4 DEF s
      <4>2. a \in place + 1 .. Len(StopsOf(line))
        BY <1>2, <3>1, <4>1
      <4> QED BY <1>1, <1>3, <2>1, <3>2, <3>4, <4>2 DEF OnboardCovers
    <3> QED BY <3>3, <3>4
  <2>2. suffix' = suffix /\ line' = line /\ StopsOf(line)' = StopsOf(line) /\ \A x : Open(x)' <=> Open(x)
    BY <1>1 DEF StopsOf, Open
  <2>3. \A o, d, t, a, l : AboardFor(o, d, t, a, l)' <=> AboardFor(o, d, t, a, l)
    BY DEF AboardFor, Achieved, Fixed
  <2>4. \A d, t, p, a, l : Alights(d, t, p, a, l)' <=> Alights(d, t, p, a, l)
    BY DEF Alights
  <2> QED BY <2>1, <2>2, <2>3, <2>4 DEF OnboardCovers
<1>13. ASSUME NEW x \in Stops, NEW l \in bags'[suffix][x] PROVE <<x, l>> \in touched' /\ x \in changed'
  <2>1. CASE l \in bags[suffix][x]
    <3>1. <<x, l>> \in touched /\ x \in changed
      BY <1>3, <2>1 DEF AllTouched, ChangesMarked
    <3> QED BY <1>1, <3>1
  <2>2. CASE l \notin bags[suffix][x]
    <3>1. x = s /\ Open(s)
      BY <1>1, <1>2, <1>13, <2>2
    <3>2. l \in riders /\ l \in InsertAll(bags[suffix][s], riders)
      BY <1>1, <1>13, <2>2, <3>1, InsertAmong
    <3> QED BY <1>1, <3>1, <3>2
  <2> QED BY <2>1, <2>2
<1>14. AllTouched' /\ ChangesMarked'
  BY <1>1, <1>13 DEF AllTouched, ChangesMarked
<1> QED BY <1>1, <1>7, <1>8, <1>10, <1>11, <1>12, <1>14 DEF VInv, ScanInv, Searching, Elected

LEMMA NoneMissingExtend == GInv /\ VInv /\ q' = q /\ Extend => VInv'
<1> SUFFICES ASSUME GInv, VInv, q' = q, Extend PROVE VInv'
  OBVIOUS
<1>1. /\ phase = "scan" /\ place = 0 /\ DOMAIN upstream = {} /\ phase' = "round" /\ suffix' = suffix
      /\ changed' = changed \cup {x[1] : x \in Footpathed}
      /\ \A s \in Stops : bags'[suffix][s] = InsertAll(bags[suffix][s], At(Footpathed, s))
      /\ \A k \in Rounds, s \in Stops : k # suffix => bags'[k][s] = bags[k][s]
      /\ \A s \in Stops : \A l \in At(Footpathed, s) : <<s, l>> \in Footpathed /\ l \in FixedLabels
      /\ bags' \in BagTables
  BY ExtendedBags DEF BagTables
<1>2. /\ q \in Queries /\ q.use \notin {"depart", "matrix"}
      /\ suffix \in 1 .. q.rounds /\ suffix \in Rounds /\ suffix - 1 \in Rounds
      /\ suffix - 1 # suffix /\ suffix \in Nat /\ bags \in BagTables
  BY <1>1, ScanAt DEF BagTables
<1>3. SeedsCovered /\ RoundsCovered /\ ChangesMarked /\ ScansCovered /\ AllTouched
  BY <1>1 DEF VInv, ScanInv, Searching
<1>4. ASSUME NEW s \in Stops
      PROVE  bags[suffix][s] \in SUBSET ReverseLabels /\ At(Footpathed, s) \in SUBSET ReverseLabels
  BY <1>1, <1>2, ZenonT(60) DEF BagTables, ReverseLabels
<1>5. AsGoodAs(bags'[suffix], bags[suffix])
  BY <1>1, <1>2, <1>4, InsertedAsGood DEF AsGoodAs
<1>6. SeedsCovered'
  <2>1. \A x \in Stops : bags'[0][x] = bags[0][x]
    BY <1>1, <1>2, RoundNumbers
  <2> QED BY <1>2, <1>3, <2>1, SeedsStayCovered
<1>7. ASSUME NEW k \in 1 .. q.rounds, k < suffix PROVE RoundCovered(bags', k)
  <2>1. RoundCovered(bags, k)
    BY <1>3, <1>7 DEF RoundsCovered
  <2>2. k \in Rounds /\ k - 1 \in Rounds /\ k # suffix /\ k - 1 # suffix
    BY <1>2, <1>7, RoundNumbers
  <2>3. \A x \in Stops : bags'[k - 1][x] = bags[k - 1][x] /\ bags'[k][x] = bags[k][x]
    BY <1>1, <2>2
  <2> QED BY <1>1, <1>2, <2>1, <2>3, RoundsStayCovered
<1>8. \A p \in DOMAIN q.pattern_stops : RidesCovered(bags', suffix, p, 0)
  <2>1. ASSUME NEW p \in DOMAIN q.pattern_stops PROVE RidesCovered(bags', suffix, p, 0)
    <3>1. RidesCovered(bags, suffix, p, 0)
      BY <1>1, <1>3 DEF ScansCovered
    <3>2. \A x \in Stops : bags'[suffix - 1][x] = bags[suffix - 1][x]
      BY <1>1, <1>2
    <3> QED BY <1>1, <1>2, <1>5, <3>1, <3>2, RidesStayCovered
  <2> QED BY <2>1
<1>9. WalksCovered(bags', suffix)
  <2>1. ASSUME NEW s \in Stops, NEW l \in bags'[suffix][s], NEW e \in q.transfers,
               l.rooted, e.to = s, Open(e.from), e.duration <= l.departure
        PROVE  HasAsGood(bags'[suffix][e.from], WalkingTo(e, l))
    <3>1. e.from \in Stops
      BY <1>2, QueriesAssumption DEF WellFormedTransfers
    <3>2. l \notin At(Footpathed, s)
      <4>1. ASSUME l \in At(Footpathed, s) PROVE l.rooted = FALSE
        <5>1. PICK y \in Footpathed : y[2] = l
          BY <4>1 DEF At
        <5>2. PICK x \in touched, f \in q.transfers : y = <<f.from, WalkingTo(f, x[2])>>
          BY <5>1, FootpathedIs
        <5> QED BY <5>1, <5>2 DEF WalkingTo, Continuation
      <4> QED BY <2>1, <4>1
    <3>3. l \in bags[suffix][s]
      BY <1>1, <2>1, <3>2, InsertAmong
    <3>4. <<s, l>> \in touched
      BY <1>3, <3>3 DEF AllTouched
    <3> DEFINE w == WalkingTo(e, l)
    <3>5. <<e.from, w>> \in Footpathed
      <4>1. <<s, l>>[1] = s /\ <<s, l>>[2] = l
        OBVIOUS
      <4> QED BY <2>1, <3>4, <4>1, FootpathedIs
    <3>6. w \in At(Footpathed, e.from)
      <4>1. <<e.from, w>>[1] = e.from /\ <<e.from, w>>[2] = w
        OBVIOUS
      <4> HIDE DEF w
      <4> QED BY <3>5, <4>1 DEF At
    <3>7. w \in ReverseLabels
      BY <1>4, <3>1, <3>6
    <3> HIDE DEF w
    <3>8. HasAsGood(bags[suffix][e.from] \cup At(Footpathed, e.from), w)
      BY <1>2, <3>6, <3>7, DominatesItself DEF HasAsGood
    <3>9. HasAsGood(InsertAll(bags[suffix][e.from], At(Footpathed, e.from)), w)
      BY <1>2, <1>4, <3>1, <3>7, <3>8, InsertCovers
    <3> QED BY <1>1, <3>1, <3>9 DEF w
  <2> QED BY <2>1 DEF WalksCovered
<1>10. RoundsCovered'
  <2>1. \A k \in 1 .. q.rounds : k < suffix \/ k = suffix => RoundCovered(bags', k)
    BY <1>7, <1>8, <1>9 DEF RoundCovered
  <2> QED BY <1>1, <2>1, CoverStays DEF RoundsCovered
<1>11. ChangesMarked'
  <2>1. ASSUME NEW s \in Stops, NEW l \in bags'[suffix][s] PROVE s \in changed'
    <3>1. CASE l \in bags[suffix][s]
      BY <1>1, <1>3, <3>1 DEF ChangesMarked
    <3>2. CASE l \notin bags[suffix][s]
      <4>1. l \in At(Footpathed, s)
        BY <1>1, <2>1, <3>2, InsertAmong
      <4>2. <<s, l>> \in Footpathed /\ <<s, l>>[1] = s
        BY <1>1, <4>1
      <4> QED BY <1>1, <4>2
    <3> QED BY <3>1, <3>2
  <2> QED BY <1>1, <2>1 DEF ChangesMarked
<1> QED BY <1>1, <1>6, <1>10, <1>11 DEF VInv, Searching, Elected

\* Where the search is left alone, nothing is missing.
LEMMA NoneMissingQuiet ==
  ASSUME GInv, VInv, q' = q, UNCHANGED <<suffix, search>>, phase # "scan", phase' # "scan",
         phase \notin {"idle", "seed"}, ~Searching',
         Elected' => suffix = q.rounds \/ \A s \in Stops : bags[suffix][s] = {}
  PROVE  VInv'
<1>1. /\ bags' = bags /\ suffix' = suffix /\ q \in Queries /\ q.use \notin {"depart", "matrix"}
      /\ SeedsCovered /\ RoundsCovered
  BY DEF search, GInv, ReverseTypeOK, VInv
<1>2. SeedsCovered'
  BY <1>1, SeedsStayCovered
<1>3. RoundsCovered'
  BY <1>1, CoverStays DEF RoundsCovered
<1> QED BY <1>1, <1>2, <1>3 DEF VInv

LEMMA NoneMissingEnds ==
  ASSUME GInv, VInv, q' = q, EndRounds \/ Elect \/ Replay \/ AnswerTimes \/ AnswerNearest
  PROVE  VInv'
<1>1. /\ UNCHANGED <<suffix, search>>
      /\ phase \in {"round", "elect", "replay", "times", "nearest"}
      /\ phase' \in {"elect", "times", "nearest", "replay", "answered"}
  BY QuietSteps
<1>2. suffix = q.rounds \/ \A s \in Stops : bags[suffix][s] = {}
  <2>1. CASE phase = "round"
    <3>1. suffix = q.rounds \/ changed = {}
      BY <2>1 DEF EndRounds, Elect, Replay, AnswerTimes, AnswerNearest
    <3>2. ChangesMarked
      BY <2>1 DEF VInv, Searching
    <3> QED BY <3>1, <3>2 DEF ChangesMarked
  <2>2. CASE phase # "round"
    <3>1. Elected
      BY <1>1, <2>2 DEF Elected
    <3> QED BY <3>1 DEF VInv
  <2> QED BY <2>1, <2>2
<1>3. phase # "scan" /\ phase' # "scan" /\ phase \notin {"idle", "seed"} /\ ~Searching'
  BY <1>1 DEF Searching
<1> QED BY <1>1, <1>2, <1>3, NoneMissingQuiet

LEMMA NoneMissingStutter == GInv /\ VInv /\ UNCHANGED <<q, reverseVars>> => VInv'
<1> SUFFICES ASSUME GInv, VInv, UNCHANGED <<q, reverseVars>> PROVE VInv'
  OBVIOUS
<1>1. /\ q' = q /\ phase' = phase /\ suffix' = suffix /\ bags' = bags /\ changed' = changed
      /\ upstream' = upstream /\ line' = line /\ place' = place /\ onboard' = onboard /\ touched' = touched
  BY DEF reverseVars, search, scan
<1>2. phase \notin {"idle", "seed"} => SeedsCovered' /\ RoundsCovered'
  <2>1. ASSUME phase \notin {"idle", "seed"} PROVE SeedsCovered'
    <3>1. q \in Queries /\ q.use \notin {"depart", "matrix"} /\ SeedsCovered
      BY <2>1 DEF VInv, GInv, ReverseTypeOK
    <3> QED BY <1>1, <3>1, SeedsStayCovered
  <2>2. ASSUME phase \notin {"idle", "seed"} PROVE RoundsCovered'
    BY <1>1, <2>2, CoverStays DEF RoundsCovered, VInv
  <2> QED BY <2>1, <2>2
<1>3. phase = "scan" => ScanInv'
  <2>1. ASSUME phase = "scan" PROVE ScansCovered'
    BY <1>1, <2>1, CoverStays DEF ScansCovered, VInv, ScanInv
  <2>2. ASSUME phase = "scan" PROVE QueuedFarEnough'
    BY <1>1, <2>2 DEF QueuedFarEnough, VInv, ScanInv, StopsOf
  <2>3. ASSUME phase = "scan" PROVE OnboardCovers'
    <3>1. OnboardCovers
      BY <2>3 DEF VInv, ScanInv
    <3>2. StopsOf(line)' = StopsOf(line) /\ \A x : Open(x)' <=> Open(x)
      BY <1>1 DEF StopsOf, Open
    <3>3. \A o, d, t, a, l : AboardFor(o, d, t, a, l)' <=> AboardFor(o, d, t, a, l)
      BY <1>1 DEF AboardFor, Achieved, Fixed
    <3>4. \A d, t, p, a, l : Alights(d, t, p, a, l)' <=> Alights(d, t, p, a, l)
      BY <1>1 DEF Alights
    <3> QED BY <1>1, <3>1, <3>2, <3>3, <3>4 DEF OnboardCovers
  <2>4. ASSUME phase = "scan" PROVE AllTouched'
    BY <1>1, <2>4 DEF AllTouched, VInv, ScanInv
  <2> QED BY <2>1, <2>2, <2>3, <2>4 DEF ScanInv
<1>4. Searching' => ChangesMarked'
  BY <1>1 DEF Searching, ChangesMarked, VInv
<1>5. Elected' => (suffix' = q'.rounds \/ \A s \in Stops : bags'[suffix'][s] = {})
  BY <1>1 DEF Elected, VInv
<1> QED BY <1>1, <1>2, <1>3, <1>4, <1>5 DEF VInv

LEMMA NoneMissingNext == GInv /\ VInv /\ [ReverseNext /\ UNCHANGED q]_<<q, reverseVars>> => VInv'
<1> SUFFICES ASSUME GInv, VInv, [ReverseNext /\ UNCHANGED q]_<<q, reverseVars>> PROVE VInv'
  OBVIOUS
<1>1. CASE UNCHANGED <<q, reverseVars>>
  BY <1>1, NoneMissingStutter
<1>2. CASE ReverseNext /\ UNCHANGED q
  <2>1. q' = q
    BY <1>2
  <2>2. CASE SeedEgress
    BY <2>1, <2>2, NoneMissingSeedEgress
  <2>3. CASE StartRound
    BY <2>1, <2>3, NoneMissingStartRound
  <2>4. CASE StartPattern
    BY <2>1, <2>4, NoneMissingStartPattern
  <2>5. CASE ScanPosition
    BY <2>1, <2>5, NoneMissingScanPosition
  <2>6. CASE Extend
    BY <2>1, <2>6, NoneMissingExtend
  <2>7. CASE EndRounds \/ Elect \/ Replay \/ AnswerTimes \/ AnswerNearest
    BY <2>1, <2>7, NoneMissingEnds
  <2> QED BY <1>2, <2>2, <2>3, <2>4, <2>5, <2>6, <2>7 DEF ReverseNext
<1> QED BY <1>1, <1>2

LEMMA NoneMissingAlways == ReverseSpec => []VInv
<1>1. q \in Queries /\ ReverseInit => VInv
  BY DEF ReverseInit, VInv, Searching, Elected
<1>2. GInv /\ VInv /\ [ReverseNext /\ UNCHANGED q]_<<q, reverseVars>> => VInv'
  BY NoneMissingNext
<1> QED BY <1>1, <1>2, GenuineAlways, PTL DEF ReverseSpec

----------------------------------------------------------------------------
(* The labels of finished rounds are the undominated continuations.        *)

LEMMA FixedIs ==
  ASSUME q \in Queries, q.use \notin {"depart", "matrix"}, NEW c \in FixedLabels
  PROVE  Fixed(c) /\ c \in ReverseLabels /\ c.departure \in 0 .. Deadline /\ c.achieved \in 0 .. Deadline
<1>1. Deadline \in Nat /\ Deadline < Unreached /\ c.achieved \in 0 .. Deadline
  BY DeadlineTime DEF FixedLabels
<1>2. c.achieved # Unreached
  BY <1>1
<1> QED BY <1>1, <1>2 DEF Fixed, Unset, ReverseLabels, FixedLabels

\* A boarding is as good as a continuation that arrives no earlier.
LEMMA BoardingAsGood ==
  ASSUME q \in Queries, q.use \notin {"depart", "matrix"}, NEW d, NEW t, NEW board, NEW alight,
         Usable(d, t, board, alight), NEW l \in ReverseLabels, q.arrival[t][alight] <= l.departure + Offset(d),
         NEW achieved \in 0 .. Deadline, Achieved(l, t, alight, d) <= achieved
  PROVE  LET x == Continuation(q.departure[t][board] - Offset(d), achieved, TRUE, l.seed)
             c == Boarding(d, t, board, alight, l)
         IN  /\ x \in ReverseLabels /\ c \in ReverseLabels /\ Dominates(c, x)
             /\ q.departure[t][board] - Offset(d) \in 0 .. Deadline
<1> DEFINE x == Continuation(q.departure[t][board] - Offset(d), achieved, TRUE, l.seed)
           c == Boarding(d, t, board, alight, l)
<1>1. /\ c \in FixedLabels /\ c.departure = q.departure[t][board] - Offset(d)
      /\ c.achieved = Achieved(l, t, alight, d) /\ c.seed = l.seed /\ c.rooted = TRUE
  <2>1. /\ Boarding(d, t, board, alight, l) \in FixedLabels
        /\ Alights(d, t, q.trip_pattern[t], alight, l)
        /\ Boarding(d, t, board, alight, l).departure = q.departure[t][board] - Offset(d)
        /\ Boarding(d, t, board, alight, l).achieved = Achieved(l, t, alight, d)
        /\ Boarding(d, t, board, alight, l).seed = l.seed
        /\ Boarding(d, t, board, alight, l).rooted = TRUE
    BY BoardingIs
  <2> QED BY <2>1
<1>2. x.departure = q.departure[t][board] - Offset(d) /\ x.achieved = achieved /\ x.seed = l.seed
  BY DEF Continuation
<1>3. l.seed \in ReverseSeeds
  BY DEF ReverseLabels, PendingLabels, FixedLabels
<1>4. q.departure[t][board] - Offset(d) \in 0 .. Deadline
  BY <1>1 DEF FixedLabels
<1>5. x \in FixedLabels
  BY <1>3, <1>4 DEF Continuation, FixedLabels
<1> HIDE DEF x, c
<1>6. Fixed(x) /\ Fixed(c) /\ x \in ReverseLabels /\ c \in ReverseLabels
  BY <1>1, <1>5, FixedIs
<1>7. c.departure >= x.departure
  <2>1. q.departure[t][board] - Offset(d) \in Int
    BY <1>4, DeadlineTime
  <2> QED BY <1>1, <1>2, <2>1
<1>8. Dominates(c, x)
  BY <1>1, <1>2, <1>6, <1>7 DEF Dominates
<1> QED BY <1>4, <1>6, <1>8 DEF x, c

\* A ride in front of a label the round holds gives one it has as good.
LEMMA RideReaches ==
  ASSUME q \in Queries, q.use \notin {"depart", "matrix"}, NEW b \in BagTables, NEW k \in 1 .. q.rounds,
         RoundCovered(b, k), NEW r \in OpenRides, NEW l \in b[k - 1][R!StopAt(q, r, r.alight)],
         R!AlightedAt(q, r) <= l.departure, NEW achieved \in 0 .. Deadline,
         Achieved(l, r.trip, r.alight, r.stream) <= achieved
  PROVE  /\ R!StopAt(q, r, r.board) \in Stops /\ R!BoardedAt(q, r) \in 0 .. Deadline
         /\ HasAsGood(b[k][R!StopAt(q, r, r.board)], Continuation(R!BoardedAt(q, r), achieved, TRUE, l.seed))
<1>0. PICK d, t, board, alight : d = r.stream /\ t = r.trip /\ board = r.board /\ alight = r.alight
  OBVIOUS
<1>1. /\ Usable(d, t, board, alight)
      /\ R!StopAt(q, r, r.board) = StopAt(t, board) /\ R!StopAt(q, r, r.alight) = StopAt(t, alight)
      /\ R!BoardedAt(q, r) = q.departure[t][board] - Offset(d)
      /\ R!AlightedAt(q, r) = q.arrival[t][alight] - Offset(d)
      /\ Achieved(l, t, alight, d) <= achieved
  BY <1>0, RideUsable
<1> DEFINE p == q.trip_pattern[t]
<1>2. /\ d \in Streams /\ t \in q.usable[d] /\ Offset(d) \in Nat /\ p \in DOMAIN q.pattern_stops
      /\ StopAt(t, board) \in Stops /\ StopAt(t, alight) \in Stops /\ q.arrival[t][alight] \in Nat
  BY <1>1, UsableFacts
<1>3. board \in 1 .. Len(StopsOf(p)) /\ alight \in 1 .. Len(StopsOf(p)) /\ 0 < board
  BY <1>1 DEF Usable
<1>4. k - 1 \in Rounds /\ k \in Rounds
  BY RoundNumbers
<1>5. l \in ReverseLabels
  BY <1>1, <1>2, <1>4 DEF BagTables
<1>6. q.arrival[t][alight] <= l.departure + Offset(d)
  <2>1. l.departure \in 0 .. Deadline /\ Deadline \in Nat
    BY <1>5, LabelFacts, DeadlineTime
  <2> QED BY <1>1, <1>2, <2>1
<1> DEFINE x == Continuation(q.departure[t][board] - Offset(d), achieved, TRUE, l.seed)
           c == Boarding(d, t, board, alight, l)
<1>7. /\ x \in ReverseLabels /\ c \in ReverseLabels /\ Dominates(c, x)
      /\ q.departure[t][board] - Offset(d) \in 0 .. Deadline
  BY <1>1, <1>5, <1>6, BoardingAsGood
<1>8. HasAsGood(b[k][StopAt(t, board)], c)
  <2>1. RidesCovered(b, k, p, 0)
    BY <1>2 DEF RoundCovered
  <2>2. StopsOf(p)[board] = StopAt(t, board) /\ StopsOf(p)[alight] = StopAt(t, alight)
    BY DEF StopAt
  <2>3. l \in b[k - 1][StopsOf(p)[alight]]
    BY <1>1, <2>2
  <2>4. HasAsGood(b[k][StopsOf(p)[board]], c)
    BY <1>1, <1>2, <1>3, <1>6, <2>1, <2>3 DEF RidesCovered
  <2> QED BY <2>2, <2>4
<1> HIDE DEF c, x
<1>9. PICK m \in b[k][StopAt(t, board)] : Dominates(m, c)
  BY <1>8 DEF HasAsGood
<1>10. m \in ReverseLabels
  BY <1>2, <1>4 DEF BagTables
<1>11. Dominates(m, x)
  BY <1>7, <1>9, <1>10, DominatesOn
<1>12. HasAsGood(b[k][StopAt(t, board)], x)
  BY <1>11 DEF HasAsGood
<1> QED BY <1>1, <1>2, <1>7, <1>12 DEF x

\* Every continuation of k rides has a label as good.
HeldAsGood(b, k, o) ==
  \A x \in ContinuationsTo(LinksOf(o))[k] :
    /\ x.stop \in Stops /\ x.departure \in 0 .. Deadline /\ x.achieved \in 0 .. Deadline
    /\ HasAsGood(b[k][x.stop], Continuation(x.departure, x.achieved, TRUE, o))

LEMMA SeedReached ==
  ASSUME q \in Queries, q.use \notin {"depart", "matrix"}, SeedsCovered,
         NEW e \in q.egress, Open(e.stop), NEW r \in OpenRides, NEW w \in OnFoot(r, e.stop),
         R!AlightedAt(q, r) + w + e.duration <= Deadline
  PROVE  /\ w + e.duration \in Nat /\ w + e.duration <= Deadline
         /\ HasAsGood(bags[0][R!StopAt(q, r, r.alight)],
                      Pending(Deadline - (w + e.duration), w + e.duration, SeedOf(e)))
<1>1. /\ q.egress \subseteq [stop : Stops, duration : Nat]
      /\ q.transfers \subseteq [from : Stops, to : Stops, duration : Nat]
  BY QueriesAssumption DEF WellFormedRequest, WellFormedTransfers
<1>2. Deadline \in Nat /\ e.duration \in Nat
  BY <1>1, DeadlineTime
<1>3. R!AlightedAt(q, r) \in Nat /\ Open(R!StopAt(q, r, r.alight))
  <2>1. /\ Usable(r.stream, r.trip, r.board, r.alight)
        /\ R!AlightedAt(q, r) = q.arrival[r.trip][r.alight] - Offset(r.stream)
    BY RideUsable
  <2>2. q.arrival[r.trip][r.alight] \in Nat /\ Offset(r.stream) \in Nat
    BY <2>1, UsableFacts
  <2>3. R!AlightedAt(q, r) >= 0 /\ Open(R!StopAt(q, r, r.alight))
    BY DEF OpenRides
  <2> QED BY <2>1, <2>2, <2>3
<1>4. CASE w = 0 /\ e.stop = R!StopAt(q, r, r.alight)
  <2> DEFINE x == <<e.stop, Pending(Deadline - e.duration, e.duration, SeedOf(e))>>
  <2>1. ~(Deadline < e.duration) /\ w + e.duration = e.duration
    BY <1>2, <1>3, <1>4
  <2>2. x \in SeedsOf(e)
    BY <2>1 DEF SeedsOf
  <2>3. x[1] = e.stop /\ x[2] = Pending(Deadline - e.duration, e.duration, SeedOf(e))
    OBVIOUS
  <2> HIDE DEF x
  <2>4. HasAsGood(bags[0][x[1]], x[2])
    BY <2>2 DEF SeedsCovered
  <2> QED BY <1>2, <1>4, <2>1, <2>3, <2>4
<1>5. CASE \E f \in q.transfers : f.from = R!StopAt(q, r, r.alight) /\ f.to = e.stop /\ w = f.duration
  <2>1. PICK f \in q.transfers : f.from = R!StopAt(q, r, r.alight) /\ f.to = e.stop /\ w = f.duration
    BY <1>5
  <2>2. f.duration \in Nat
    BY <1>1
  <2>3. /\ ~(Deadline < e.duration) /\ e.duration + f.duration <= Deadline /\ e.duration + f.duration \in Nat
        /\ w + e.duration = e.duration + f.duration
        /\ Deadline - (w + e.duration) = Deadline - e.duration - f.duration
    BY <1>2, <1>3, <2>1, <2>2
  <2> DEFINE x == <<f.from, Pending(Deadline - e.duration - f.duration, e.duration + f.duration, SeedOf(e))>>
  <2>4. x \in SeedsOf(e)
    BY <1>3, <2>1, <2>3 DEF SeedsOf
  <2>5. x[1] = f.from /\ x[2] = Pending(Deadline - (w + e.duration), w + e.duration, SeedOf(e))
    BY <2>3
  <2> HIDE DEF x
  <2>6. HasAsGood(bags[0][x[1]], x[2])
    BY <2>4 DEF SeedsCovered
  <2> QED BY <2>1, <2>3, <2>5, <2>6
<1> QED BY <1>4, <1>5, OnFootIs

LEMMA SeedsIn == q \in Queries /\ q.use \notin {"depart", "matrix"} => SeedsInUse \subseteq ReverseSeeds
<1> SUFFICES ASSUME q \in Queries, q.use \notin {"depart", "matrix"} PROVE SeedsInUse \subseteq ReverseSeeds
  OBVIOUS
<1>1. WellFormedArriveBy(q)
  BY ArriveByAssumption
<1> QED BY <1>1 DEF WellFormedArriveBy, SeedsInUse, ReverseSeeds, Range

LEMMA FirstHeld ==
  ASSUME q \in Queries, q.use \notin {"depart", "matrix"}, bags \in BagTables, SeedsCovered,
         RoundCovered(bags, 1), \A s \in Stops : \A l \in bags[0][s] : ~Fixed(l), NEW o \in ReverseSeeds
  PROVE  HeldAsGood(bags, 1, o)
<1>1. 1 \in 1 .. q.rounds /\ 0 \in Rounds /\ 1 - 1 = 0 /\ Deadline \in Nat
  BY RoundNumbers, DeadlineTime
<1>2. ASSUME NEW x \in ContinuationsTo(LinksOf(o))[1]
      PROVE  /\ x.stop \in Stops /\ x.departure \in 0 .. Deadline /\ x.achieved \in 0 .. Deadline
             /\ HasAsGood(bags[1][x.stop], Continuation(x.departure, x.achieved, TRUE, o))
  <2>1. PICK r \in OpenRides, e \in LinksOf(o) :
          /\ Open(e.stop) /\ x.achieved <= Deadline
          /\ \E w \in OnFoot(r, e.stop) : x = Opened(r, R!AlightedAt(q, r) + w + e.duration)
    BY LastRideOf
  <2>2. PICK w \in OnFoot(r, e.stop) : x = Opened(r, R!AlightedAt(q, r) + w + e.duration)
    BY <2>1
  <2>3. /\ e \in q.egress /\ SeedOf(e) = o
        /\ x.stop = R!StopAt(q, r, r.board) /\ x.departure = R!BoardedAt(q, r)
        /\ x.achieved = R!AlightedAt(q, r) + w + e.duration
    BY <2>1, <2>2 DEF LinksOf, Opened
  <2>4. PICK v \in Nat : v = w + e.duration
    BY <2>1, <2>3, SeedReached
  <2>5. v <= Deadline /\ HasAsGood(bags[0][R!StopAt(q, r, r.alight)], Pending(Deadline - v, v, o))
    <3>1. /\ w + e.duration <= Deadline
          /\ HasAsGood(bags[0][R!StopAt(q, r, r.alight)], Pending(Deadline - (w + e.duration), w + e.duration, SeedOf(e)))
      BY <2>1, <2>3, SeedReached
    <3> QED BY <2>3, <2>4, <3>1
  <2>6. /\ Pending(Deadline - v, v, o).trailing = v /\ Pending(Deadline - v, v, o).seed = o
        /\ Pending(Deadline - v, v, o).departure = Deadline - v /\ ~Fixed(Pending(Deadline - v, v, o))
    BY <2>5, PendingIs
  <2>7. PICK l \in bags[0][R!StopAt(q, r, r.alight)] : Dominates(l, Pending(Deadline - v, v, o))
    BY <2>5 DEF HasAsGood
  <2>8. l.seed = o /\ l.departure >= Deadline - v /\ l.trailing <= v
    BY <2>6, <2>7 DEF Dominates
  <2>9. /\ R!StopAt(q, r, r.alight) \in Stops /\ R!AlightedAt(q, r) \in Nat
        /\ R!AlightedAt(q, r) = q.arrival[r.trip][r.alight] - Offset(r.stream)
    <3>1. /\ Usable(r.stream, r.trip, r.board, r.alight)
          /\ R!StopAt(q, r, r.alight) = StopAt(r.trip, r.alight)
          /\ R!AlightedAt(q, r) = q.arrival[r.trip][r.alight] - Offset(r.stream)
      BY RideUsable
    <3>2. q.arrival[r.trip][r.alight] \in Nat /\ Offset(r.stream) \in Nat /\ StopAt(r.trip, r.alight) \in Stops
      BY <3>1, UsableFacts
    <3>3. R!AlightedAt(q, r) >= 0
      BY DEF OpenRides
    <3> QED BY <3>1, <3>2, <3>3
  <2>10. l \in ReverseLabels /\ ~Fixed(l)
    BY <1>1, <2>9 DEF BagTables
  <2>11. l.departure \in Nat /\ l.trailing \in Nat
    <3>1. l.departure \in 0 .. Deadline /\ l.trailing \in 0 .. Deadline
      BY <2>10, LabelFacts
    <3> QED BY <1>1, <3>1
  <2>12. x.achieved = R!AlightedAt(q, r) + v /\ x.achieved \in 0 .. Deadline
    <3>1. w + e.duration = v /\ x.achieved = R!AlightedAt(q, r) + w + e.duration
      BY <2>3, <2>4
    <3>2. e.duration \in Nat /\ w \in Int
      <4>1. e.duration \in Nat
        BY <2>3, QueriesAssumption DEF WellFormedRequest
      <4>2. w = 0 \/ \E f \in q.transfers : w = f.duration
        BY OnFootIs
      <4>3. \A f \in q.transfers : f.duration \in Nat
        BY QueriesAssumption DEF WellFormedTransfers
      <4> QED BY <4>1, <4>2, <4>3
    <3> QED BY <1>1, <2>1, <2>9, <3>1, <3>2, SMTT(30)
  <2>13. R!AlightedAt(q, r) <= l.departure
    BY <1>1, <2>1, <2>8, <2>9, <2>11, <2>12, SMTT(30)
  <2>14. Achieved(l, r.trip, r.alight, r.stream) <= x.achieved
    <3>1. Achieved(l, r.trip, r.alight, r.stream) = R!AlightedAt(q, r) + l.trailing
      BY <2>9, <2>10 DEF Achieved
    <3> QED BY <2>8, <2>9, <2>11, <2>12, <3>1
  <2>15. /\ R!StopAt(q, r, r.board) \in Stops /\ R!BoardedAt(q, r) \in 0 .. Deadline
         /\ HasAsGood(bags[1][R!StopAt(q, r, r.board)], Continuation(R!BoardedAt(q, r), x.achieved, TRUE, l.seed))
    BY <1>1, <2>12, <2>13, <2>14, RideReaches
  <2> QED BY <2>3, <2>8, <2>12, <2>15
<1> QED BY <1>2 DEF HeldAsGood

LEMMA NextHeld ==
  ASSUME q \in Queries, q.use \notin {"depart", "matrix"}, NEW b \in BagTables, NEW k \in 2 .. q.rounds,
         RoundCovered(b, k - 1), RoundCovered(b, k), \A s \in Stops : \A l \in b[k - 1][s] : Fixed(l),
         NEW o \in ReverseSeeds, HeldAsGood(b, k - 1, o)
  PROVE  HeldAsGood(b, k, o)
<1>1. k \in 1 .. q.rounds /\ k - 1 \in Rounds /\ k - 1 \in 1 .. q.rounds /\ Deadline \in Nat
  <2>1. \A n \in Nat : \A i \in 2 .. n : i \in 1 .. n /\ i - 1 \in 0 .. n /\ i - 1 \in 1 .. n
    OBVIOUS
  <2> QED BY <2>1, RoundNumbers, DeadlineTime
<1>2. ASSUME NEW x \in ContinuationsTo(LinksOf(o))[k]
      PROVE  /\ x.stop \in Stops /\ x.departure \in 0 .. Deadline /\ x.achieved \in 0 .. Deadline
             /\ HasAsGood(b[k][x.stop], Continuation(x.departure, x.achieved, TRUE, o))
  <2>1. PICK r \in OpenRides, y \in ContinuationsTo(LinksOf(o))[k - 1] :
          /\ x = Opened(r, y.achieved)
          /\ \E w \in OnFoot(r, y.stop) : R!AlightedAt(q, r) + w <= y.departure
    BY NextRideOf
  <2>2. PICK w \in OnFoot(r, y.stop) : R!AlightedAt(q, r) + w <= y.departure
    BY <2>1
  <2>3. /\ x.stop = R!StopAt(q, r, r.board) /\ x.departure = R!BoardedAt(q, r) /\ x.achieved = y.achieved
    BY <2>1 DEF Opened
  <2>4. /\ y.stop \in Stops /\ y.departure \in 0 .. Deadline /\ y.achieved \in 0 .. Deadline
        /\ HasAsGood(b[k - 1][y.stop], Continuation(y.departure, y.achieved, TRUE, o))
    BY DEF HeldAsGood
  <2>5. PICK m \in b[k - 1][y.stop] : Dominates(m, Continuation(y.departure, y.achieved, TRUE, o))
    BY <2>4 DEF HasAsGood
  <2>6. m \in ReverseLabels /\ Fixed(m)
    BY <1>1, <2>4 DEF BagTables
  <2>7. m.seed = o /\ m.rooted /\ m.departure >= y.departure /\ m.achieved <= y.achieved
    <3> DEFINE c == Continuation(y.departure, y.achieved, TRUE, o)
    <3>1. c.departure = y.departure /\ c.achieved = y.achieved /\ c.rooted = TRUE /\ c.seed = o
      BY DEF Continuation
    <3>2. c \in FixedLabels
      BY <2>4 DEF Continuation, FixedLabels
    <3> HIDE DEF c
    <3>3. Fixed(c)
      BY <3>2, FixedIs
    <3>4. Dominates(m, c)
      BY <2>5 DEF c
    <3> QED BY <3>1, <3>3, <3>4 DEF Dominates
  <2>8. m \in FixedLabels /\ m.departure \in Nat /\ m.achieved \in Nat /\ y.departure \in Nat /\ y.achieved \in Nat
    <3>1. m \in FixedLabels /\ m.departure \in 0 .. Deadline /\ m.achieved \in 0 .. Deadline
      BY <2>6, LabelFacts
    <3> QED BY <1>1, <2>4, <3>1
  <2>9. R!AlightedAt(q, r) \in Nat /\ R!StopAt(q, r, r.alight) \in Stops /\ Open(R!StopAt(q, r, r.alight))
    <3>1. /\ Usable(r.stream, r.trip, r.board, r.alight)
          /\ R!StopAt(q, r, r.alight) = StopAt(r.trip, r.alight)
          /\ R!AlightedAt(q, r) = q.arrival[r.trip][r.alight] - Offset(r.stream)
      BY RideUsable
    <3>2. q.arrival[r.trip][r.alight] \in Nat /\ Offset(r.stream) \in Nat /\ StopAt(r.trip, r.alight) \in Stops
      BY <3>1, UsableFacts
    <3>3. R!AlightedAt(q, r) >= 0 /\ Open(R!StopAt(q, r, r.alight))
      BY DEF OpenRides
    <3> QED BY <3>1, <3>2, <3>3
  <2>10. PICK l \in b[k - 1][R!StopAt(q, r, r.alight)] :
           /\ Fixed(l) /\ R!AlightedAt(q, r) <= l.departure /\ l.achieved <= y.achieved /\ l.seed = o
    <3>1. CASE w = 0 /\ y.stop = R!StopAt(q, r, r.alight)
      <4>1. m \in b[k - 1][R!StopAt(q, r, r.alight)] /\ R!AlightedAt(q, r) <= m.departure
        BY <2>2, <2>7, <2>8, <2>9, <3>1
      <4> QED BY <2>6, <2>7, <4>1
    <3>2. CASE \E f \in q.transfers : f.from = R!StopAt(q, r, r.alight) /\ f.to = y.stop /\ w = f.duration
      <4>1. PICK f \in q.transfers : f.from = R!StopAt(q, r, r.alight) /\ f.to = y.stop /\ w = f.duration
        BY <3>2
      <4>2. f.duration \in Nat
        BY QueriesAssumption DEF WellFormedTransfers
      <4>3. f.duration <= m.departure
        BY <2>2, <2>7, <2>8, <2>9, <4>1, <4>2
      <4>4. HasAsGood(b[k - 1][f.from], WalkingTo(f, m))
        BY <2>4, <2>7, <2>9, <4>1, <4>3 DEF RoundCovered, WalksCovered
      <4>5. PICK l \in b[k - 1][f.from] : Dominates(l, WalkingTo(f, m))
        BY <4>4 DEF HasAsGood
      <4>6. /\ Fixed(WalkingTo(f, m)) /\ WalkingTo(f, m).departure = m.departure - f.duration
            /\ WalkingTo(f, m).achieved = m.achieved /\ WalkingTo(f, m).seed = m.seed
        BY <2>8, <4>3, WalkingToIs
      <4>7. /\ Fixed(l) /\ l.departure >= m.departure - f.duration /\ l.achieved <= m.achieved /\ l.seed = o
        BY <2>7, <4>5, <4>6 DEF Dominates
      <4>8. l.departure \in Nat /\ l.achieved \in Nat
        <5>1. l \in ReverseLabels
          BY <1>1, <2>9, <4>1 DEF BagTables
        <5>2. l.departure \in 0 .. Deadline /\ l.achieved \in 0 .. Deadline
          BY <4>7, <5>1, LabelFacts
        <5> QED BY <1>1, <5>2
      <4>9. R!AlightedAt(q, r) <= l.departure /\ l.achieved <= y.achieved
        BY <2>2, <2>7, <2>8, <2>9, <4>1, <4>2, <4>7, <4>8
      <4> QED BY <4>1, <4>7, <4>9
    <3> QED BY <3>1, <3>2, OnFootIs
  <2>11. Achieved(l, r.trip, r.alight, r.stream) <= x.achieved
    BY <2>3, <2>10 DEF Achieved
  <2>12. x.achieved \in 0 .. Deadline
    BY <2>3, <2>4
  <2>13. /\ R!StopAt(q, r, r.board) \in Stops /\ R!BoardedAt(q, r) \in 0 .. Deadline
         /\ HasAsGood(b[k][R!StopAt(q, r, r.board)], Continuation(R!BoardedAt(q, r), x.achieved, TRUE, l.seed))
    BY <1>1, <2>10, <2>11, <2>12, RideReaches
  <2> QED BY <2>3, <2>10, <2>12, <2>13
<1> QED BY <1>2 DEF HeldAsGood

\* The rounds not run had nothing to add.
LEMMA AllRoundsCovered ==
  ASSUME GInv, VInv, Elected, NEW k \in 1 .. q.rounds
  PROVE  RoundCovered(bags, k)
<1>1. /\ q \in Queries /\ suffix \in Rounds /\ LevelsOK /\ RoundsCovered /\ phase # "scan"
      /\ suffix = q.rounds \/ \A s \in Stops : bags[suffix][s] = {}
  BY DEF GInv, ReverseTypeOK, VInv, Elected
<1>2. /\ q.rounds \in Nat /\ suffix \in Nat /\ k \in Nat /\ k - 1 \in Rounds /\ k \in Rounds /\ k > 0
      /\ k <= q.rounds
  BY <1>1, RoundNumbers
<1>3. CASE k <= suffix
  BY <1>1, <1>2, <1>3 DEF RoundsCovered
<1>4. CASE k > suffix
  <2>1. \A s \in Stops : bags[k][s] = {} /\ bags[k - 1][s] = {}
    <3>1. k - 1 = suffix \/ k - 1 > suffix
      BY <1>2, <1>4
    <3>2. suffix # q.rounds
      BY <1>2, <1>4
    <3> QED BY <1>1, <1>2, <1>4, <3>1, <3>2 DEF LevelsOK
  <2>2. \A p \in DOMAIN q.pattern_stops : RidesCovered(bags, k, p, 0)
    <3>1. ASSUME NEW p \in DOMAIN q.pattern_stops PROVE RidesCovered(bags, k, p, 0)
      <4>1. StopsOf(p) \in Seq(Stops)
        BY <1>1, QueriesAssumption DEF WellFormedTimetable, StopsOf
      <4>2. \A i \in 1 .. Len(StopsOf(p)) : StopsOf(p)[i] \in Stops
        BY <4>1, ElementOfSeq
      <4> QED BY <1>1, <2>1, <4>2, NothingToCover
    <3> QED BY <3>1
  <2>3. WalksCovered(bags, k)
    BY <2>1 DEF WalksCovered
  <2> QED BY <2>2, <2>3 DEF RoundCovered
<1> QED BY <1>2, <1>3, <1>4

LEMMA AllHeld ==
  ASSUME GInv, VInv, Elected, NEW o \in ReverseSeeds
  PROVE  \A k \in 1 .. q.rounds : HeldAsGood(bags, k, o)
<1>1. /\ q \in Queries /\ q.use \notin {"depart", "matrix"} /\ bags \in BagTables /\ LevelsOK /\ SeedsCovered
  BY DEF GInv, ReverseTypeOK, VInv, Elected, BagTables
<1>2. \A k \in 1 .. q.rounds : RoundCovered(bags, k)
  BY AllRoundsCovered
<1>3. q.rounds \in Nat /\ 1 \in 1 .. q.rounds
  BY <1>1, RoundNumbers
<1> DEFINE missing == {k \in 1 .. q.rounds : ~HeldAsGood(bags, k, o)}
<1>4. ASSUME missing # {} PROVE FALSE
  <2>1. missing \in SUBSET Nat
    BY <1>3
  <2>2. PICK k \in missing : \A j \in missing : k <= j
    <3> HIDE DEF missing
    <3> QED BY <1>4, <2>1, SmallestElement
  <2>3. k \in 1 .. q.rounds /\ ~HeldAsGood(bags, k, o)
    BY <2>2
  <2>4. CASE k = 1
    <3>1. \A s \in Stops : \A l \in bags[0][s] : ~Fixed(l)
      BY <1>1, RoundNumbers DEF LevelsOK
    <3> QED BY <1>1, <1>2, <1>3, <2>3, <2>4, <3>1, FirstHeld
  <2>5. CASE k # 1
    <3>1. /\ k \in 2 .. q.rounds /\ k - 1 \in 1 .. q.rounds /\ ~(k <= k - 1)
          /\ k - 1 \in Rounds /\ k - 1 > 0
      <4>1. \A n \in Nat : \A i \in 1 .. n : i # 1 =>
              i \in 2 .. n /\ i - 1 \in 1 .. n /\ ~(i <= i - 1) /\ i - 1 \in 0 .. n /\ i - 1 > 0
        OBVIOUS
      <4> QED BY <1>1, <1>3, <2>3, <2>5, <4>1, RoundNumbers
    <3>2. HeldAsGood(bags, k - 1, o)
      BY <2>2, <3>1
    <3>3. \A s \in Stops : \A l \in bags[k - 1][s] : Fixed(l)
      BY <1>1, <3>1 DEF LevelsOK
    <3> QED BY <1>1, <1>2, <2>3, <3>1, <3>2, <3>3, NextHeld
  <2> QED BY <2>4, <2>5
<1> QED BY <1>4

LEMMA ContinuationHeld ==
  ASSUME GInv, VInv, Elected, NEW o \in ReverseSeeds, NEW k \in 1 .. q.rounds, NEW x \in ContinuationsTo(LinksOf(o))[k]
  PROVE  /\ x.stop \in Stops /\ x.departure \in 0 .. Deadline /\ x.achieved \in 0 .. Deadline
         /\ \E l \in bags[k][x.stop] :
              /\ Fixed(l) /\ l.rooted /\ l.seed = o
              /\ l.departure >= x.departure /\ l.achieved <= x.achieved
<1>1. q \in Queries /\ q.use \notin {"depart", "matrix"}
  BY DEF GInv, ReverseTypeOK, Elected
<1>2. HeldAsGood(bags, k, o)
  BY AllHeld
<1>3. /\ x.stop \in Stops /\ x.departure \in 0 .. Deadline /\ x.achieved \in 0 .. Deadline
      /\ HasAsGood(bags[k][x.stop], Continuation(x.departure, x.achieved, TRUE, o))
  BY <1>2 DEF HeldAsGood
<1>4. PICK m \in bags[k][x.stop] : Dominates(m, Continuation(x.departure, x.achieved, TRUE, o))
  BY <1>3 DEF HasAsGood
<1> DEFINE c == Continuation(x.departure, x.achieved, TRUE, o)
<1>5. c.departure = x.departure /\ c.achieved = x.achieved /\ c.rooted = TRUE /\ c.seed = o
  BY DEF Continuation
<1>6. c \in FixedLabels
  BY <1>3 DEF Continuation, FixedLabels
<1> HIDE DEF c
<1>7. Fixed(c)
  BY <1>1, <1>6, FixedIs
<1>8. Dominates(m, c)
  BY <1>4 DEF c
<1>9. Fixed(m) /\ m.rooted /\ m.seed = o /\ m.departure >= x.departure /\ m.achieved <= x.achieved
  BY <1>5, <1>7, <1>8 DEF Dominates
<1> QED BY <1>3, <1>9

LEMMA HeldContinues ==
  ASSUME GInv, Elected, NEW k \in 1 .. q.rounds, NEW s \in Stops, NEW l \in bags[k][s], l.rooted
  PROVE  [stop |-> s, departure |-> l.departure, achieved |-> l.achieved] \in ContinuationsTo(LinksOf(l.seed))[k]
<1>1. BagsSound
  BY DEF GInv, Elected
<1>2. ContinuesAt(k, s, l)
  BY <1>1 DEF BagsSound
<1> QED BY <1>2 DEF ContinuesAt, RiddenFrom

\* Once the rounds are over, the continuations of k rides held for a destination
\* can be ridden, and one as late and as early is held for every one that can:
\* for any timetable, and however many queries share the rounds.
THEOREM ReverseContinuationsExact == ReverseSpec => []ContinuationsExact
<1>1. ASSUME GInv, VInv PROVE ContinuationsExact
  <2> SUFFICES ASSUME phase \in {"elect", "times", "nearest"}, NEW o \in SeedsInUse,
                      NEW k \in 1 .. q.rounds, NEW s \in Stops
               PROVE  LET exact == {x \in ContinuationsTo(LinksOf(o))[k] : x.stop = s}
                          held == {l \in bags[k][s] : Fixed(l) /\ l.rooted /\ l.seed = o}
                      IN  /\ \A l \in held : \E x \in exact : x.departure = l.departure /\ x.achieved = l.achieved
                          /\ \A x \in exact : \E l \in held : l.departure >= x.departure /\ l.achieved <= x.achieved
    BY DEF ContinuationsExact
  <2>1. Elected
    BY DEF Elected
  <2>2. o \in ReverseSeeds
    BY <1>1, <2>1, SeedsIn DEF GInv, ReverseTypeOK, Elected
  <2>3. ASSUME NEW l \in bags[k][s], Fixed(l), l.rooted, l.seed = o
        PROVE  \E x \in ContinuationsTo(LinksOf(o))[k] : x.stop = s /\ x.departure = l.departure /\ x.achieved = l.achieved
    <3> DEFINE x == [stop |-> s, departure |-> l.departure, achieved |-> l.achieved]
    <3>1. x \in ContinuationsTo(LinksOf(o))[k]
      BY <1>1, <2>1, <2>3, HeldContinues
    <3>2. x.stop = s /\ x.departure = l.departure /\ x.achieved = l.achieved
      OBVIOUS
    <3> HIDE DEF x
    <3> QED BY <3>1, <3>2
  <2>4. ASSUME NEW x \in ContinuationsTo(LinksOf(o))[k], x.stop = s
        PROVE  \E l \in bags[k][s] :
                 Fixed(l) /\ l.rooted /\ l.seed = o /\ l.departure >= x.departure /\ l.achieved <= x.achieved
    BY <1>1, <2>1, <2>2, <2>4, ContinuationHeld
  <2> QED BY <2>3, <2>4
<1> QED BY <1>1, GenuineAlways, NoneMissingAlways, PTL

----------------------------------------------------------------------------
(* The forward engine, of the same rides.                                  *)

LEMMA OpenRideFacts ==
  ASSUME q \in Queries, NEW r \in OpenRides
  PROVE  /\ R!StopAt(q, r, r.board) \in Stops /\ Open(R!StopAt(q, r, r.board))
         /\ R!StopAt(q, r, r.alight) \in Stops /\ Open(R!StopAt(q, r, r.alight))
         /\ R!BoardedAt(q, r) \in Nat /\ R!BoardedAt(q, r) < Unreached /\ R!AlightedAt(q, r) \in Nat
<1>1. /\ Usable(r.stream, r.trip, r.board, r.alight)
      /\ R!StopAt(q, r, r.board) = StopAt(r.trip, r.board)
      /\ R!StopAt(q, r, r.alight) = StopAt(r.trip, r.alight)
      /\ R!BoardedAt(q, r) = q.departure[r.trip][r.board] - Offset(r.stream)
      /\ R!AlightedAt(q, r) = q.arrival[r.trip][r.alight] - Offset(r.stream)
  BY RideUsable
<1>2. /\ R!BoardedAt(q, r) >= 0 /\ R!AlightedAt(q, r) >= 0
      /\ Open(R!StopAt(q, r, r.board)) /\ Open(R!StopAt(q, r, r.alight))
  BY DEF OpenRides
<1>3. /\ StopAt(r.trip, r.board) \in Stops /\ StopAt(r.trip, r.alight) \in Stops
      /\ q.departure[r.trip][r.board] \in Nat /\ q.arrival[r.trip][r.alight] \in Nat
      /\ Offset(r.stream) \in Nat /\ r.trip \in q.trips
  BY <1>1, UsableFacts
<1>4. q.departure[r.trip][r.board] < Unreached /\ Unreached \in Nat
  <2>1. r.board \in 1 .. Len(StopsOf(q.trip_pattern[r.trip]))
    BY <1>1 DEF Usable
  <2> QED BY <1>3, <2>1, QueriesAssumption, TimeAssumption DEF WellFormedTimetable, StopsOf
<1> QED BY <1>1, <1>2, <1>3, <1>4

LEMMA ForwardArrivals ==
  ASSUME q \in Queries, NEW d \in Nat
  PROVE  \A k \in Rounds :
           /\ R!Earliest(q, {d})[k] \in [Stops -> 0 .. Unreached]
           /\ \A s \in Stops : R!Earliest(q, {d})[k][s] # Unreached => Open(s)
<1> DEFINE g(k) == R!Earliest(q, {d})[k]
           Fine(k) == g(k) \in [Stops -> 0 .. Unreached] /\ \A s \in Stops : g(k)[s] # Unreached => Open(s)
           others == {k \in 0 .. q.rounds : ~Fine(k)}
<1>1. Unreached \in Nat /\ q.rounds \in Nat /\ Rounds = 0 .. q.rounds
  BY RoundNumbers, TimeAssumption
<1>2. Fine(0)
  <2>1. g(0) = R!Started(q, {d}) /\ R!Started(q, {d}) \in [Stops -> Nat]
    BY EarliestRounds, StartedIs
  <2>2. \A s \in Stops : g(0)[s] <= Unreached /\ (g(0)[s] # Unreached => Open(s))
    BY <2>1, StartedIs DEF Open
  <2>3. PICK h \in [Stops -> Nat] : h = g(0)
    BY <2>1
  <2> HIDE DEF g
  <2>4. \A s \in Stops : h[s] \in 0 .. Unreached
    BY <1>1, <2>2, <2>3
  <2>5. h \in [Stops -> 0 .. Unreached]
    BY <2>4
  <2> QED BY <2>2, <2>3, <2>5
<1>3. ASSUME NEW k \in 1 .. q.rounds, Fine(k - 1) PROVE Fine(k)
  <2>1. g(k) = R!Further(q, g(k - 1))
    BY EarliestRounds
  <2> HIDE DEF g
  <2>2. PICK h : h = g(k - 1)
    OBVIOUS
  <2>3. h \in [Stops -> Nat] /\ \A s \in Stops : h[s] <= Unreached /\ (h[s] # Unreached => Open(s))
    BY <1>1, <1>3, <2>2
  <2>4. ASSUME NEW s \in Stops
        PROVE  /\ R!Further(q, h)[s] \in 0 .. Unreached
               /\ R!Further(q, h)[s] # Unreached => Open(s)
    <3>1. PICK at : at = R!Further(q, h)[s]
      OBVIOUS
    <3>2. at \in Nat /\ at <= h[s]
      BY <2>3, <3>1, FurtherIs
    <3>3. at # h[s] => <<s, at>> \in R!RideArrivals(q, h) \cup R!WalkArrivals(q, R!RideArrivals(q, h))
      BY <2>3, <3>1, FurtherIs
    <3>4. \A x \in R!RideArrivals(q, h) \cup R!WalkArrivals(q, R!RideArrivals(q, h)) : x[1] \notin q.excluded
      BY DEF R!RideArrivals, R!WalkArrivals
    <3>5. at # h[s] => Open(s)
      BY <3>3, <3>4 DEF Open
    <3> QED BY <1>1, <2>3, <3>1, <3>2, <3>5
  <2>5. R!Further(q, h) \in [Stops -> 0 .. Unreached]
    BY <2>4 DEF R!Further
  <2> QED BY <2>1, <2>2, <2>4, <2>5
<1> HIDE DEF Fine
<1>4. ASSUME others # {} PROVE FALSE
  <2>1. others \in SUBSET Nat
    BY <1>1
  <2>2. PICK k \in others : \A j \in others : k <= j
    <3> HIDE DEF others
    <3> QED BY <1>4, <2>1, SmallestElement
  <2>3. k \in 1 .. q.rounds /\ k - 1 \in 0 .. q.rounds /\ ~(k <= k - 1)
    BY <1>1, <1>2, <2>2
  <2> QED BY <1>3, <2>2, <2>3
<1> QED BY <1>1, <1>4 DEF Fine


LEMMA ForwardRide ==
  ASSUME q \in Queries, NEW d \in Nat, NEW k \in 1 .. q.rounds, NEW s \in Stops,
         R!Earliest(q, {d})[k][s] < R!Earliest(q, {d})[k - 1][s]
  PROVE  \E r \in OpenRides :
           /\ R!Earliest(q, {d})[k - 1][R!StopAt(q, r, r.board)] <= R!BoardedAt(q, r)
           /\ \E w \in OnFoot(r, s) : R!Earliest(q, {d})[k][s] = R!AlightedAt(q, r) + w
<1>1. k \in Rounds /\ k - 1 \in Rounds /\ Unreached \in Nat
  BY RoundNumbers, TimeAssumption
<1>2. R!Earliest(q, {d})[k] = R!Further(q, R!Earliest(q, {d})[k - 1])
  BY EarliestRounds
<1>3. PICK h : h = R!Earliest(q, {d})[k - 1]
  OBVIOUS
<1>4. h \in [Stops -> 0 .. Unreached] /\ \A u \in Stops : h[u] # Unreached => Open(u)
  BY <1>1, <1>3, ForwardArrivals
<1>5. h \in [Stops -> Nat]
  BY <1>1, <1>4
<1>6. PICK at : at = R!Further(q, h)[s]
  OBVIOUS
<1>7. at # h[s] /\ at = R!Earliest(q, {d})[k][s]
  <2>1. h[s] \in Nat /\ at \in Nat
    BY <1>5, <1>6, FurtherIs
  <2> QED BY <1>2, <1>3, <1>6, <2>1
<1>8. <<s, at>> \in R!RideArrivals(q, h) \cup R!WalkArrivals(q, R!RideArrivals(q, h))
  BY <1>5, <1>6, <1>7, FurtherIs
<1>9. ASSUME NEW x \in R!RideArrivals(q, h)
      PROVE  \E r \in OpenRides : /\ h[R!StopAt(q, r, r.board)] <= R!BoardedAt(q, r)
                                  /\ x = <<R!StopAt(q, r, r.alight), R!AlightedAt(q, r)>>
  <2>1. PICK r \in R!PossibleRides(q) :
          /\ R!StopAt(q, r, r.alight) \notin q.excluded
          /\ h[R!StopAt(q, r, r.board)] # Unreached
          /\ h[R!StopAt(q, r, r.board)] <= R!BoardedAt(q, r)
          /\ x = <<R!StopAt(q, r, r.alight), R!AlightedAt(q, r)>>
    BY DEF R!RideArrivals
  <2>2. StopAt(r.trip, r.alight) \notin q.excluded
    BY <2>1 DEF R!StopAt, StopAt, StopsOf
  <2>3. /\ Ridable(r.stream, r.trip, r.board, r.alight)
        /\ R!StopAt(q, r, r.board) = StopAt(r.trip, r.board)
        /\ R!BoardedAt(q, r) = q.departure[r.trip][r.board] - Offset(r.stream)
    BY <2>2, PossibleRide
  <2>4. /\ StopAt(r.trip, r.board) \in Stops /\ Offset(r.stream) \in Nat
        /\ r.trip \in Twins(r.stream, r.trip, r.board)
    BY <2>3, RidableFacts
  <2>5. q.departure[r.trip][r.board] \in Nat
    BY <2>3, <2>4, RidableFacts
  <2>6. R!AlightedAt(q, r) \in Nat
    BY <1>5, RideArrivalTimes, <2>1
  <2>7. R!BoardedAt(q, r) \in Int /\ R!BoardedAt(q, r) >= 0
    <3>1. h[StopAt(r.trip, r.board)] \in Nat
      BY <1>5, <2>4
    <3> QED BY <2>1, <2>3, <2>4, <2>5, <3>1
  <2>8. r \in OpenRides
    BY <1>4, <2>1, <2>3, <2>4, <2>6, <2>7 DEF OpenRides, Open
  <2> QED BY <2>1, <2>8
<1>10. CASE <<s, at>> \in R!RideArrivals(q, h)
  <2>1. PICK r \in OpenRides : /\ h[R!StopAt(q, r, r.board)] <= R!BoardedAt(q, r)
                               /\ <<s, at>> = <<R!StopAt(q, r, r.alight), R!AlightedAt(q, r)>>
    BY <1>9, <1>10
  <2>2. 0 \in OnFoot(r, s) /\ at = R!AlightedAt(q, r) + 0
    BY <2>1, OnFootIs, OpenRideFacts
  <2> QED BY <1>3, <1>7, <2>1, <2>2
<1>11. CASE <<s, at>> \in R!WalkArrivals(q, R!RideArrivals(q, h))
  <2>1. PICK x \in R!RideArrivals(q, h), e \in q.transfers : /\ <<s, at>> = <<e.to, x[2] + e.duration>>
                                                            /\ e.from = x[1]
    <3>1. PICK y \in R!RideArrivals(q, h) \X q.transfers :
            <<s, at>> = <<y[2].to, y[1][2] + y[2].duration>> /\ y[2].from = y[1][1]
      BY <1>11 DEF R!WalkArrivals
    <3> QED BY <3>1
  <2>2. PICK r \in OpenRides : /\ h[R!StopAt(q, r, r.board)] <= R!BoardedAt(q, r)
                               /\ x = <<R!StopAt(q, r, r.alight), R!AlightedAt(q, r)>>
    BY <1>9
  <2>3. e.duration \in OnFoot(r, s) /\ at = R!AlightedAt(q, r) + e.duration
    BY <2>1, <2>2, OnFootIs
  <2> QED BY <1>3, <1>7, <2>2, <2>3
<1> QED BY <1>8, <1>10, <1>11

LEMMA ForwardTakes ==
  ASSUME q \in Queries, NEW d \in Nat, NEW k \in 1 .. q.rounds, NEW r \in OpenRides,
         R!Earliest(q, {d})[k - 1][R!StopAt(q, r, r.board)] <= R!BoardedAt(q, r),
         NEW s \in Stops, Open(s), NEW w \in OnFoot(r, s)
  PROVE  R!Earliest(q, {d})[k][s] <= R!AlightedAt(q, r) + w
<1>1. k \in Rounds /\ k - 1 \in Rounds /\ Unreached \in Nat
  BY RoundNumbers, TimeAssumption
<1>2. R!Earliest(q, {d})[k] = R!Further(q, R!Earliest(q, {d})[k - 1])
  BY EarliestRounds
<1>3. PICK h : h = R!Earliest(q, {d})[k - 1]
  OBVIOUS
<1>4. h \in [Stops -> Nat]
  <2>1. h \in [Stops -> 0 .. Unreached]
    BY <1>1, <1>3, ForwardArrivals
  <2> QED BY <1>1, <2>1
<1>5. /\ R!StopAt(q, r, r.board) \in Stops /\ Open(R!StopAt(q, r, r.alight))
      /\ R!BoardedAt(q, r) \in Nat /\ R!BoardedAt(q, r) < Unreached /\ R!AlightedAt(q, r) \in Nat
  BY OpenRideFacts
<1>6. h[R!StopAt(q, r, r.board)] <= R!BoardedAt(q, r) /\ h[R!StopAt(q, r, r.board)] # Unreached
  BY <1>1, <1>3, <1>4, <1>5
<1>7. r \in R!PossibleRides(q)
  BY DEF OpenRides
<1>8. <<R!StopAt(q, r, r.alight), R!AlightedAt(q, r)>> \in R!RideArrivals(q, h)
  BY <1>5, <1>6, <1>7 DEF R!RideArrivals, Open
<1>9. \A x \in R!RideArrivals(q, h) \cup R!WalkArrivals(q, R!RideArrivals(q, h)) :
         x[1] = s => R!Further(q, h)[s] <= x[2]
  BY <1>4, FurtherIs
<1>10. CASE w = 0 /\ s = R!StopAt(q, r, r.alight)
  <2>1. R!Further(q, h)[s] <= R!AlightedAt(q, r)
    BY <1>8, <1>10, <1>9
  <2> QED BY <1>2, <1>3, <1>5, <1>10, <2>1
<1>11. CASE \E e \in q.transfers : e.from = R!StopAt(q, r, r.alight) /\ e.to = s /\ w = e.duration
  <2>1. PICK e \in q.transfers : e.from = R!StopAt(q, r, r.alight) /\ e.to = s /\ w = e.duration
    BY <1>11
  <2>2. <<s, R!AlightedAt(q, r) + w>> \in R!WalkArrivals(q, R!RideArrivals(q, h))
    <3> DEFINE x == <<<<R!StopAt(q, r, r.alight), R!AlightedAt(q, r)>>, e>>
    <3>1. x \in {y \in R!RideArrivals(q, h) \X q.transfers : y[2].from = y[1][1] /\ y[2].to \notin q.excluded}
      BY <1>8, <2>1 DEF Open
    <3>2. <<s, R!AlightedAt(q, r) + w>> = <<x[2].to, x[1][2] + x[2].duration>>
      BY <2>1
    <3> HIDE DEF x
    <3> QED BY <3>1, <3>2 DEF R!WalkArrivals
  <2>3. R!Further(q, h)[s] <= R!AlightedAt(q, r) + w
    BY <1>9, <2>2
  <2> QED BY <1>2, <1>3, <2>3
<1> QED BY <1>10, <1>11, OnFootIs


----------------------------------------------------------------------------
(* Meeting the forward engine halfway.                                     *)

\* A continuation opens with a ride, from a stop it may board at.
LEMMA ContinuationOpens ==
  ASSUME q \in Queries, NEW links, NEW k \in 1 .. q.rounds, NEW y \in ContinuationsTo(links)[k]
  PROVE  y.stop \in Stops /\ Open(y.stop) /\ y.departure \in Nat /\ y.departure < Unreached
<1>1. \E r \in OpenRides : y.stop = R!StopAt(q, r, r.board) /\ y.departure = R!BoardedAt(q, r)
  <2>1. CASE k = 1
    BY <2>1, LastRideOf DEF Opened
  <2>2. CASE k # 1
    <3>1. k \in 2 .. q.rounds
      BY <2>2, RoundNumbers
    <3> QED BY <3>1, NextRideOf DEF Opened
  <2> QED BY <2>1, <2>2
<1> QED BY <1>1, OpenRideFacts

\* Who can take a continuation of k rides after i rides reaches a link after
\* i + k, no later than it says.
LEMMA RidesThrough ==
  ASSUME q \in Queries, NEW links \in SUBSET q.egress, NEW d \in Nat
  PROVE  \A k \in 1 .. q.rounds : \A i \in 0 .. q.rounds - k : \A y \in ContinuationsTo(links)[k] :
           R!Earliest(q, {d})[i][y.stop] <= y.departure =>
             \E e \in links : Open(e.stop) /\ R!Earliest(q, {d})[i + k][e.stop] + e.duration <= y.achieved
<1> DEFINE g(k) == R!Earliest(q, {d})[k]
           Through(k) == \A i \in 0 .. q.rounds - k : \A y \in ContinuationsTo(links)[k] :
             g(i)[y.stop] <= y.departure =>
               \E e \in links : Open(e.stop) /\ g(i + k)[e.stop] + e.duration <= y.achieved
           others == {k \in 1 .. q.rounds : ~Through(k)}
<1>1. q.rounds \in Nat /\ q.rounds > 0 /\ Rounds = 0 .. q.rounds /\ Unreached \in Nat
  BY RoundNumbers, TimeAssumption
<1>2. \A e \in links : e.stop \in Stops /\ e.duration \in Nat
  BY QueriesAssumption DEF WellFormedRequest
<1>3. \A k \in Rounds, s \in Stops : g(k)[s] \in Nat
  <2>1. \A k \in Rounds : g(k) \in [Stops -> 0 .. Unreached]
    BY ForwardArrivals
  <2> HIDE DEF g
  <2> QED BY <1>1, <2>1
<1>4. \A k \in 1 .. q.rounds, r \in OpenRides, s \in Stops : Open(s) =>
        \A w \in OnFoot(r, s) : g(k - 1)[R!StopAt(q, r, r.board)] <= R!BoardedAt(q, r) =>
          g(k)[s] <= R!AlightedAt(q, r) + w
  BY ForwardTakes
<1> HIDE DEF g
<1>5. \A s : \A r \in OpenRides : \A w \in OnFoot(r, s) : w \in Nat /\ R!AlightedAt(q, r) \in Nat
  BY OnFootIs, OpenRideFacts, QueriesAssumption DEF WellFormedTransfers
<1>6. Through(1)
  <2> SUFFICES ASSUME NEW i \in 0 .. q.rounds - 1, NEW y \in ContinuationsTo(links)[1], g(i)[y.stop] <= y.departure
               PROVE  \E e \in links : Open(e.stop) /\ g(i + 1)[e.stop] + e.duration <= y.achieved
    OBVIOUS
  <2>1. PICK r \in OpenRides, e \in links :
          Open(e.stop) /\ \E w \in OnFoot(r, e.stop) : y = Opened(r, R!AlightedAt(q, r) + w + e.duration)
    BY LastRideOf
  <2>2. PICK w \in OnFoot(r, e.stop) : y = Opened(r, R!AlightedAt(q, r) + w + e.duration)
    BY <2>1
  <2>3. y.stop = R!StopAt(q, r, r.board) /\ y.departure = R!BoardedAt(q, r)
        /\ y.achieved = R!AlightedAt(q, r) + w + e.duration
    BY <2>2 DEF Opened
  <2>4. i + 1 \in 1 .. q.rounds /\ (i + 1) - 1 = i /\ i + 1 \in Rounds
    BY <1>1
  <2>5. g(i + 1)[e.stop] <= R!AlightedAt(q, r) + w
    BY <1>2, <1>4, <2>1, <2>3, <2>4
  <2>6. g(i + 1)[e.stop] \in Nat /\ e.duration \in Nat /\ w \in Nat /\ R!AlightedAt(q, r) \in Nat
    BY <1>2, <1>3, <1>5, <2>4
  <2> QED BY <2>1, <2>3, <2>5, <2>6
<1>7. ASSUME NEW k \in 2 .. q.rounds, Through(k - 1) PROVE Through(k)
  <2> SUFFICES ASSUME NEW i \in 0 .. q.rounds - k, NEW y \in ContinuationsTo(links)[k], g(i)[y.stop] <= y.departure
               PROVE  \E e \in links : Open(e.stop) /\ g(i + k)[e.stop] + e.duration <= y.achieved
    OBVIOUS
  <2>1. PICK r \in OpenRides, x \in ContinuationsTo(links)[k - 1] :
          y = Opened(r, x.achieved) /\ \E w \in OnFoot(r, x.stop) : R!AlightedAt(q, r) + w <= x.departure
    BY NextRideOf
  <2>2. PICK w \in OnFoot(r, x.stop) : R!AlightedAt(q, r) + w <= x.departure
    BY <2>1
  <2>3. y.stop = R!StopAt(q, r, r.board) /\ y.departure = R!BoardedAt(q, r) /\ y.achieved = x.achieved
    BY <2>1 DEF Opened
  <2>4. /\ i + 1 \in 1 .. q.rounds /\ (i + 1) - 1 = i /\ i + 1 \in Rounds /\ k - 1 \in 1 .. q.rounds
        /\ i + 1 \in 0 .. q.rounds - (k - 1) /\ (i + 1) + (k - 1) = i + k
    BY <1>1
  <2>5. x.stop \in Stops /\ Open(x.stop) /\ x.departure \in Nat
    BY <2>4, ContinuationOpens
  <2>6. g(i + 1)[x.stop] <= R!AlightedAt(q, r) + w
    BY <1>4, <2>3, <2>4, <2>5
  <2>7. g(i + 1)[x.stop] <= x.departure
    BY <1>3, <1>5, <2>2, <2>4, <2>5, <2>6
  <2>8. \E e \in links : Open(e.stop) /\ g((i + 1) + (k - 1))[e.stop] + e.duration <= x.achieved
    BY <1>7, <2>4, <2>7
  <2> QED BY <2>3, <2>4, <2>8
<1> HIDE DEF Through
<1>8. ASSUME others # {} PROVE FALSE
  <2>1. others \in SUBSET Nat
    BY <1>1
  <2>2. PICK k \in others : \A j \in others : k <= j
    <3> HIDE DEF others
    <3> QED BY <1>8, <2>1, SmallestElement
  <2>3. k \in 2 .. q.rounds /\ k - 1 \in 1 .. q.rounds /\ ~(k <= k - 1)
    BY <1>1, <1>6, <2>2
  <2> QED BY <1>7, <2>2, <2>3
<1> QED BY <1>8 DEF Through, g


\* An access link is in time for a continuation of at most k rides.
InTime(links, d, k, at) ==
  \E n \in 1 .. k, a \in q.access : \E y \in ContinuationsTo(links)[n] :
    a.stop = y.stop /\ d + a.duration <= y.departure /\ y.achieved = at

\* Whatever the forward engine first reaches with its k-th ride, an access link
\* is in time for a continuation of no more rides that arrives as early.
LEMMA MeetsHalfway ==
  ASSUME q \in Queries, NEW links \in SUBSET q.egress, NEW d \in Nat, NEW k \in 1 .. q.rounds,
         NEW e \in links, Open(e.stop), R!Earliest(q, {d})[k][e.stop] < R!Earliest(q, {d})[k - 1][e.stop],
         NEW at, at = R!Earliest(q, {d})[k][e.stop] + e.duration, at <= Deadline
  PROVE  InTime(links, d, k, at)
<1> DEFINE g(i) == R!Earliest(q, {d})[i]
           Meets(i, n, y) == g(i)[y.stop] <= y.departure /\ y.achieved = at
           met == {i \in 0 .. k - 1 : \E n \in 1 .. k - i : \E y \in ContinuationsTo(links)[n] : Meets(i, n, y)}
<1>1. q.rounds \in Nat /\ k \in Nat /\ k >= 1 /\ k <= q.rounds /\ Rounds = 0 .. q.rounds /\ Unreached \in Nat
  BY RoundNumbers, TimeAssumption
<1>2. e.stop \in Stops /\ e.duration \in Nat
  BY QueriesAssumption DEF WellFormedRequest
<1>3. \A i \in Rounds, s \in Stops : g(i)[s] \in Nat
  <2>1. \A i \in Rounds : g(i) \in [Stops -> 0 .. Unreached]
    BY ForwardArrivals
  <2> HIDE DEF g
  <2> QED BY <1>1, <2>1
<1>4. \A i \in 1 .. q.rounds, s \in Stops : g(i)[s] < g(i - 1)[s] =>
        \E r \in OpenRides : /\ g(i - 1)[R!StopAt(q, r, r.board)] <= R!BoardedAt(q, r)
                             /\ \E w \in OnFoot(r, s) : g(i)[s] = R!AlightedAt(q, r) + w
  BY ForwardRide
<1>5. \A s \in Stops : g(0)[s] # Unreached =>
        \E a \in q.access : a.stop = s /\ g(0)[s] = d + a.duration
  BY EarliestRounds, StartedIs
<1>6. g(k)[e.stop] < g(k - 1)[e.stop] /\ at = g(k)[e.stop] + e.duration
  OBVIOUS
<1> HIDE DEF g
<1>7. k - 1 \in met
  <2>1. PICK r \in OpenRides : /\ g(k - 1)[R!StopAt(q, r, r.board)] <= R!BoardedAt(q, r)
                               /\ \E w \in OnFoot(r, e.stop) : g(k)[e.stop] = R!AlightedAt(q, r) + w
    BY <1>2, <1>4, <1>6
  <2>2. PICK w \in OnFoot(r, e.stop) : g(k)[e.stop] = R!AlightedAt(q, r) + w
    BY <2>1
  <2>3. R!AlightedAt(q, r) + w + e.duration = at
    BY <1>6, <2>2
  <2>4. Opened(r, at) \in ContinuationsTo(links)[1]
    BY <2>3, LastRide
  <2>5. Meets(k - 1, 1, Opened(r, at))
    BY <2>1 DEF Opened
  <2>6. k - 1 \in 0 .. k - 1 /\ 1 \in 1 .. k - (k - 1)
    BY <1>1
  <2> HIDE DEF Meets
  <2> QED BY <2>4, <2>5, <2>6
<1>8. ASSUME NEW i \in met, i # 0 PROVE \E j \in met : j < i
  <2>0. PICK n \in 1 .. k - i : \E y \in ContinuationsTo(links)[n] : Meets(i, n, y)
    OBVIOUS
  <2>1. PICK y \in ContinuationsTo(links)[n] : Meets(i, n, y)
    BY <2>0
  <2>2. /\ i \in 1 .. q.rounds /\ i \in Rounds /\ i - 1 \in Rounds /\ i - 1 \in 0 .. k - 1 /\ i - 1 < i
        /\ n \in 1 .. q.rounds /\ n + 1 \in 2 .. q.rounds /\ n + 1 \in 1 .. k - (i - 1) /\ (n + 1) - 1 = n
    <3>1. \A m \in Nat : \A l \in 1 .. m : \A j \in 1 .. l - 1 : \A o \in 1 .. l - j :
            /\ j \in 1 .. m /\ j \in 0 .. m /\ j - 1 \in 0 .. m /\ j - 1 \in 0 .. l - 1 /\ j - 1 < j
            /\ o \in 1 .. m /\ o + 1 \in 2 .. m /\ o + 1 \in 1 .. l - (j - 1) /\ (o + 1) - 1 = o
      OBVIOUS
    <3>2. i \in 1 .. k - 1
      BY <1>1, <1>8
    <3> QED BY <1>1, <3>1, <3>2, SMTT(30)
  <2>3. y.stop \in Stops /\ y.departure \in Nat
    BY <2>2, ContinuationOpens
  <2>4. CASE g(i - 1)[y.stop] <= y.departure
    <3>1. i - 1 \in met
      <4>1. Meets(i - 1, n, y) /\ n \in 1 .. k - (i - 1)
        BY <2>1, <2>2, <2>4
      <4> HIDE DEF Meets
      <4> QED BY <2>2, <4>1
    <3> QED BY <2>2, <3>1
  <2>5. CASE ~(g(i - 1)[y.stop] <= y.departure)
    <3>1. g(i)[y.stop] < g(i - 1)[y.stop]
      BY <1>3, <2>1, <2>2, <2>3, <2>5
    <3>2. PICK r \in OpenRides : /\ g(i - 1)[R!StopAt(q, r, r.board)] <= R!BoardedAt(q, r)
                                 /\ \E w \in OnFoot(r, y.stop) : g(i)[y.stop] = R!AlightedAt(q, r) + w
      BY <1>4, <2>2, <2>3, <3>1
    <3>3. PICK w \in OnFoot(r, y.stop) : R!AlightedAt(q, r) + w <= y.departure
      BY <2>1, <3>2
    <3>4. Opened(r, y.achieved) \in ContinuationsTo(links)[n + 1]
      BY <2>1, <2>2, <3>3, NextRide
    <3>5. Meets(i - 1, n + 1, Opened(r, y.achieved))
      BY <2>1, <3>2 DEF Opened
    <3>6. i - 1 \in met
      <4> HIDE DEF Meets
      <4> QED BY <2>2, <3>4, <3>5
    <3> QED BY <2>2, <3>6
  <2> QED BY <2>4, <2>5
<1>9. met \in SUBSET Nat
  BY <1>1
<1>10. 0 \in met
  <2>1. PICK i \in met : \A j \in met : i <= j
    <3> HIDE DEF met
    <3> QED BY <1>7, <1>9, SmallestElement
  <2>2. \A j \in met : ~(j < i)
    <3> HIDE DEF met
    <3> QED BY <1>9, <2>1
  <2> HIDE DEF met
  <2> QED BY <1>8, <2>2
<1>11. PICK n \in 1 .. k - 0 : \E y \in ContinuationsTo(links)[n] : Meets(0, n, y)
  BY <1>10
<1>12. PICK y \in ContinuationsTo(links)[n] : Meets(0, n, y)
  BY <1>11
<1>13. n \in 1 .. k /\ n \in 1 .. q.rounds
  BY <1>1
<1>14. y.stop \in Stops /\ y.departure \in Nat /\ y.departure < Unreached
  BY <1>13, ContinuationOpens
<1>15. g(0)[y.stop] # Unreached
  BY <1>1, <1>12, <1>14
<1>16. PICK a \in q.access : a.stop = y.stop /\ g(0)[y.stop] = d + a.duration
  BY <1>5, <1>14, <1>15
<1> QED BY <1>12, <1>13, <1>16 DEF InTime


----------------------------------------------------------------------------
(* What is elected.                                                        *)

\* The order of Winner, said of two.
Leads(c, d) ==
  \/ c.departure > d.departure
  \/ c.departure = d.departure /\ c.rides < d.rides
  \/ c.departure = d.departure /\ c.rides = d.rides /\ c.achieved <= d.achieved
Timed(c, n) == c.departure \in 0 .. n /\ c.rides \in Nat /\ c.achieved \in Nat

LEMMA LeaderIs ==
  ASSUME NEW A, A # {}, NEW n \in Nat, \A c \in A : Timed(c, n)
  PROVE  \E c \in A : \A d \in A : Leads(c, d)
<1> DEFINE departures == {c.departure : c \in A}
<1>1. departures \in SUBSET Int /\ departures # {} /\ \A i \in departures : i <= n
  BY DEF Timed
<1>2. PICK i \in departures : \A j \in departures : j <= i
  <2> HIDE DEF departures
  <2> QED BY <1>1, GreatestElement
<1> DEFINE latest == {c \in A : c.departure = i}
           rides == {c.rides : c \in latest}
<1>3. rides \in SUBSET Nat /\ rides # {}
  BY DEF Timed
<1>4. PICK k \in rides : \A j \in rides : k <= j
  <2> HIDE DEF rides
  <2> QED BY <1>3, SmallestElement
<1> DEFINE fewest == {c \in latest : c.rides = k}
           times == {c.achieved : c \in fewest}
<1>5. times \in SUBSET Nat /\ times # {}
  BY <1>4 DEF Timed
<1>6. PICK at \in times : \A j \in times : at <= j
  <2> HIDE DEF times
  <2> QED BY <1>5, SmallestElement
<1>7. PICK c \in fewest : c.achieved = at
  BY <1>6
<1>8. c \in A /\ c.departure = i /\ c.rides = k /\ c.achieved = at
  BY <1>7
<1>9. ASSUME NEW d \in A PROVE Leads(c, d)
  <2>1. d.departure <= i /\ d.departure \in Int /\ i \in Int /\ d.rides \in Nat /\ k \in Nat
    <3>1. d.departure \in departures /\ i \in departures
      OBVIOUS
    <3>2. d.rides \in Nat /\ k \in Nat
      BY <1>3 DEF Timed
    <3> HIDE DEF departures
    <3> QED BY <1>1, <1>2, <3>1, <3>2
  <2>2. d.departure = i => d.rides \in rides
    OBVIOUS
  <2>3. d.departure = i => k <= d.rides
    <3> HIDE DEF rides
    <3> QED BY <1>4, <2>2
  <2>4. d.departure = i /\ d.rides = k => d.achieved \in times
    OBVIOUS
  <2>5. d.departure = i /\ d.rides = k => at <= d.achieved
    <3> HIDE DEF times
    <3> QED BY <1>6, <2>4
  <2> HIDE DEF departures, latest, rides, fewest, times
  <2> QED BY <1>8, <2>1, <2>3, <2>5 DEF Leads
<1> QED BY <1>8, <1>9

\* A state is a continuation that can be ridden ...
LEMMA StateContinues ==
  ASSUME GInv, Elected, NEW s \in Stops, NEW x \in States(s)
  PROVE  /\ x.rides \in 1 .. q.rounds /\ x.departure \in 0 .. Deadline /\ x.achieved \in 0 .. Deadline
         /\ [stop |-> s, departure |-> x.departure, achieved |-> x.achieved]
              \in ContinuationsTo(LinksOf(x.seed))[x.rides]
<1>1. /\ q \in Queries /\ q.use \notin {"depart", "matrix"} /\ LevelsOK
      /\ bags \in [Rounds -> [Stops -> SUBSET ReverseLabels]]
  BY DEF GInv, ReverseTypeOK, Elected
<1> DEFINE of(k) == {[rides |-> k, departure |-> l.departure, achieved |-> l.achieved, seed |-> l.seed] :
                       l \in {l \in bags[k][s] : Fixed(l) /\ l.rooted}}
<1>2. PICK k \in Rounds : x \in of(k)
  BY DEF States
<1>3. PICK l \in bags[k][s] :
        /\ Fixed(l) /\ l.rooted
        /\ x.rides = k /\ x.departure = l.departure /\ x.achieved = l.achieved /\ x.seed = l.seed
  BY <1>2
<1>4. k # 0
  BY <1>1, <1>3, RoundNumbers DEF LevelsOK
<1>5. k \in 1 .. q.rounds
  BY <1>1, <1>4, RoundNumbers
<1>6. l \in ReverseLabels
  BY <1>1
<1>7. l.departure \in 0 .. Deadline /\ l.achieved \in 0 .. Deadline
  BY <1>1, <1>3, <1>6, LabelFacts
<1>8. [stop |-> s, departure |-> l.departure, achieved |-> l.achieved] \in ContinuationsTo(LinksOf(l.seed))[k]
  BY <1>3, <1>5, HeldContinues
<1> QED BY <1>3, <1>5, <1>7, <1>8

\* ... and one is as good as each of them.
LEMMA ContinuationState ==
  ASSUME GInv, VInv, Elected, NEW o \in ReverseSeeds, NEW k \in 1 .. q.rounds, NEW y \in ContinuationsTo(LinksOf(o))[k]
  PROVE  /\ y.stop \in Stops /\ y.departure \in 0 .. Deadline /\ y.achieved \in 0 .. Deadline
         /\ \E x \in States(y.stop) :
              x.rides = k /\ x.seed = o /\ x.departure >= y.departure /\ x.achieved <= y.achieved
<1>1. PICK s : s = y.stop
  OBVIOUS
<1>2. /\ s \in Stops /\ y.departure \in 0 .. Deadline /\ y.achieved \in 0 .. Deadline
      /\ \E l \in bags[k][s] :
           /\ Fixed(l) /\ l.rooted /\ l.seed = o
           /\ l.departure >= y.departure /\ l.achieved <= y.achieved
  BY <1>1, ContinuationHeld
<1>3. PICK l \in bags[k][s] :
        /\ Fixed(l) /\ l.rooted /\ l.seed = o
        /\ l.departure >= y.departure /\ l.achieved <= y.achieved
  BY <1>2
<1>4. k \in Rounds
  BY RoundNumbers DEF GInv, ReverseTypeOK
<1> DEFINE of(i) == {[rides |-> i, departure |-> m.departure, achieved |-> m.achieved, seed |-> m.seed] :
                       m \in {m \in bags[i][s] : Fixed(m) /\ m.rooted}}
           x == [rides |-> k, departure |-> l.departure, achieved |-> l.achieved, seed |-> l.seed]
<1>5. x \in of(k)
  BY <1>3
<1>6. x.rides = k /\ x.seed = o /\ x.departure >= y.departure /\ x.achieved <= y.achieved
  BY <1>3
<1>7. States(s) = UNION {of(i) : i \in Rounds}
  BY DEF States
<1> HIDE DEF of, x
<1>8. x \in States(s)
  BY <1>4, <1>5, <1>7
<1> QED BY <1>1, <1>2, <1>6, <1>8


LEMMA ComposedOf ==
  ASSUME NEW link, NEW states, NEW c \in Composed(link, states)
  PROVE  /\ c = Candidate(c.departure, c.rides, c.achieved)
         /\ \E x \in states : /\ link.duration <= x.departure
                              /\ c.departure = x.departure - link.duration /\ c.rides = x.rides /\ c.achieved = x.achieved
BY DEF Composed, Candidate

LEMMA ComposedIn ==
  ASSUME NEW link, NEW states, NEW x \in states, link.duration <= x.departure
  PROVE  \E c \in Composed(link, states) :
           c.departure = x.departure - link.duration /\ c.rides = x.rides /\ c.achieved = x.achieved
<1> DEFINE c == Candidate(x.departure - link.duration, x.rides, x.achieved)
<1>1. c \in Composed(link, states)
  BY DEF Composed
<1>2. c.departure = x.departure - link.duration /\ c.rides = x.rides /\ c.achieved = x.achieved
  BY DEF Candidate
<1> HIDE DEF c
<1> QED BY <1>1, <1>2

\* A round's winner at a mark leads every state of the round.
LEMMA WinnerLeads ==
  ASSUME NEW states, NEW n \in Nat, \A y \in states : Timed(y, n), NEW mark, NEW x \in By(states, mark)
  PROVE  \E w \in Winners(states, mark) : w \in By(states, mark) /\ w.rides = x.rides /\ Leads(w, x)
<1> DEFINE same == {y \in By(states, mark) : y.rides = x.rides}
<1>1. x \in same /\ \A y \in same : Timed(y, n)
  BY DEF By
<1>2. PICK w \in same : \A y \in same : Leads(w, y)
  <2> HIDE DEF same
  <2> QED BY <1>1, LeaderIs
<1>3. w \in By(states, mark) /\ w.rides = x.rides
  OBVIOUS
<1>4. \A y \in By(states, mark) : w.rides = y.rides => Leads(w, y)
  BY <1>2, <1>3
<1>5. \A y \in By(states, mark) : y.rides \in Nat
  BY DEF By, Timed
<1>6. \A y \in By(states, mark) : w.rides = y.rides =>
        w.departure > y.departure \/ (w.departure = y.departure /\ w.achieved <= y.achieved)
  BY <1>3, <1>4, <1>5 DEF Leads
<1>7. w \in Winners(states, mark)
  BY <1>3, <1>6 DEF Winners
<1> QED BY <1>3, <1>4, <1>7

\* A Pareto candidate is no worse than any.
LEMMA ParetoCovers ==
  ASSUME NEW A, NEW n \in Nat, \A c \in A : Timed(c, n), NEW c \in A
  PROVE  \E e \in Pareto(A) : e \in A /\ NoWorse(e, c)
<1> DEFINE better == {e \in A : NoWorse(e, c)}
<1>1. \A e \in better : Timed(e, n)
  OBVIOUS
<1>2. c \in better
  BY DEF NoWorse, Timed
<1>3. PICK e \in better : \A d \in better : Leads(e, d)
  <2> HIDE DEF better
  <2> QED BY <1>1, <1>2, LeaderIs
<1>4. e \in A /\ NoWorse(e, c) /\ Timed(e, n) /\ Timed(c, n)
  OBVIOUS
<1>5. ASSUME NEW d \in A, NoWorse(d, e) PROVE d.departure = e.departure /\ d.rides = e.rides /\ e.achieved <= d.achieved
  <2>1. Timed(d, n)
    OBVIOUS
  <2>2. NoWorse(d, c)
    BY <1>4, <1>5, <2>1 DEF NoWorse, Timed
  <2>3. Leads(e, d)
    BY <1>3, <2>2
  <2> HIDE DEF better
  <2> QED BY <1>4, <1>5, <2>1, <2>3 DEF NoWorse, Leads, Timed
<1>6. e \in Pareto(A)
  BY <1>4, <1>5 DEF Pareto
<1> QED BY <1>4, <1>6

LEMMA AllLinks == q.use # "nearest" => LinksOf(AnySeed) = q.egress
BY DEF LinksOf, SeedOf

\* A candidate is the walk all the way, or a state behind an access link.
LEMMA CandidateIs ==
  ASSUME GInv, Elected, q.use # "nearest", NEW i \in DOMAIN q.marks, NEW c \in CandidatesAt(q.marks[i])
  PROVE  /\ Timed(c, Deadline) /\ c.achieved <= q.marks[i] /\ c = Candidate(c.departure, c.rides, c.achieved)
         /\ c.rides # 0 => \E link \in q.access : \E x \in States(link.stop) :
              /\ link.stop \in Stops /\ link.duration <= x.departure
              /\ c.departure = x.departure - link.duration /\ c.rides = x.rides /\ c.achieved = x.achieved
<1>1. q \in Queries /\ q.use \notin {"depart", "matrix"}
  BY DEF GInv, ReverseTypeOK, Elected
<1>2. PICK mark : mark = q.marks[i]
  OBVIOUS
<1>3. Deadline \in Nat /\ mark \in Nat /\ mark <= Deadline
  BY <1>1, <1>2, DeadlineTime
<1>4. \A link \in q.access : link.stop \in Stops /\ link.duration \in Nat
  BY <1>1, QueriesAssumption DEF WellFormedRequest
<1>5. CASE c \in Placed(q.walks[AnySeed], mark)
  <2>1. q.walks[AnySeed] \in 0 .. Unreached /\ Unreached \in Nat
    BY <1>1, ArriveByAssumption, TimeAssumption DEF WellFormedArriveBy
  <2>2. PICK walk \in Nat : walk = q.walks[AnySeed]
    BY <2>1
  <2>3. ~(mark < walk) /\ c = Candidate(mark - walk, 0, mark)
    BY <1>5, <2>2 DEF Placed
  <2>4. c.departure = mark - walk /\ c.rides = 0 /\ c.achieved = mark /\ c = Candidate(c.departure, c.rides, c.achieved)
    BY <2>3 DEF Candidate
  <2>5. mark - walk \in 0 .. Deadline /\ mark <= mark
    BY <1>3, <2>2, <2>3
  <2> QED BY <1>2, <1>3, <2>4, <2>5 DEF Timed
<1>6. ASSUME NEW link \in q.access, NEW some \in SUBSET By(States(link.stop), mark), c \in Composed(link, some)
      PROVE  /\ Timed(c, Deadline) /\ c.achieved <= q.marks[i] /\ c = Candidate(c.departure, c.rides, c.achieved)
             /\ \E x \in States(link.stop) :
                  /\ link.stop \in Stops /\ link.duration <= x.departure
                  /\ c.departure = x.departure - link.duration /\ c.rides = x.rides /\ c.achieved = x.achieved
  <2>1. PICK x \in some : /\ link.duration <= x.departure
                          /\ c.departure = x.departure - link.duration /\ c.rides = x.rides /\ c.achieved = x.achieved
    BY <1>6, ComposedOf
  <2>2. x \in States(link.stop) /\ x.achieved <= mark
    BY DEF By
  <2>3. x.rides \in 1 .. q.rounds /\ x.departure \in 0 .. Deadline /\ x.achieved \in 0 .. Deadline
    BY <1>4, <2>2, StateContinues
  <2>4. q.rounds \in Nat
    BY <1>1, RoundNumbers
  <2>5. x.departure - link.duration \in 0 .. Deadline /\ x.rides \in Nat /\ x.achieved \in Nat
    BY <1>3, <1>4, <2>1, <2>3, <2>4
  <2>6. Timed(c, Deadline) /\ c.achieved <= q.marks[i]
    BY <1>2, <2>1, <2>2, <2>5 DEF Timed
  <2>7. c = Candidate(c.departure, c.rides, c.achieved)
    BY <1>6, ComposedOf
  <2> QED BY <1>4, <2>1, <2>2, <2>6, <2>7
<1>7. CASE q.use = "route"
  <2>1. PICK link \in q.access : c \in Composed(link, By(States(link.stop), mark))
    BY <1>2, <1>7 DEF CandidatesAt
  <2> QED BY <1>6, <2>1
<1>8. CASE q.use # "route" /\ c \notin Placed(q.walks[AnySeed], mark)
  <2>1. PICK link \in q.access : c \in Composed(link, Winners(States(link.stop), mark))
    <3> DEFINE through(link) == Composed(link, Winners(States(link.stop), mark))
    <3>1. CandidatesAt(mark) = (UNION {through(link) : link \in q.access}) \cup Placed(q.walks[AnySeed], mark)
      BY <1>8 DEF CandidatesAt
    <3> HIDE DEF through
    <3>2. \E link \in q.access : c \in through(link)
      BY <1>2, <1>8, <3>1
    <3> QED BY <3>2 DEF through
  <2>2. Winners(States(link.stop), mark) \in SUBSET By(States(link.stop), mark)
    BY DEF Winners
  <2> QED BY <1>6, <2>1, <2>2
<1> QED BY <1>5, <1>7, <1>8


\* A continuation an access link is in time for gives a candidate that leaves
\* as late, and no later only where it arrives as early.
LEMMA CandidateFor ==
  ASSUME GInv, VInv, Elected, q.use # "nearest", NEW i \in DOMAIN q.marks, NEW k \in 1 .. q.rounds,
         NEW y \in ContinuationsTo(q.egress)[k], y.achieved <= q.marks[i],
         NEW link \in q.access, link.stop = y.stop, NEW d \in Nat, d + link.duration <= y.departure
  PROVE  \E c \in CandidatesAt(q.marks[i]) :
           c.rides = k /\ (c.departure > d \/ (c.departure = d /\ c.achieved <= y.achieved))
<1>1. q \in Queries /\ q.use \notin {"depart", "matrix"}
  BY DEF GInv, ReverseTypeOK, Elected
<1>2. PICK mark : mark = q.marks[i]
  OBVIOUS
<1>3. Deadline \in Nat /\ mark \in Nat /\ link.stop \in Stops /\ link.duration \in Nat
  BY <1>1, <1>2, DeadlineTime, QueriesAssumption DEF WellFormedRequest
<1>4. AnySeed \in ReverseSeeds /\ y \in ContinuationsTo(LinksOf(AnySeed))[k]
  BY AllLinks DEF ReverseSeeds
<1>5. PICK x \in States(link.stop) : x.rides = k /\ x.departure >= y.departure /\ x.achieved <= y.achieved
  BY <1>4, ContinuationState
<1>6. y.departure \in 0 .. Deadline /\ y.achieved \in 0 .. Deadline
  BY <1>4, ContinuationState
<1>7. \A z \in States(link.stop) : Timed(z, Deadline)
  <2>1. ASSUME NEW z \in States(link.stop) PROVE Timed(z, Deadline)
    <3>1. z.rides \in 1 .. q.rounds /\ z.departure \in 0 .. Deadline /\ z.achieved \in 0 .. Deadline
      BY <1>3, StateContinues
    <3> QED BY <3>1 DEF Timed
  <2> QED BY <2>1
<1>8. Timed(x, Deadline)
  BY <1>7
<1>9. x \in By(States(link.stop), mark)
  BY <1>2, <1>3, <1>5, <1>6, <1>8 DEF By, Timed
<1>10. ASSUME NEW some, NEW w \in some, Timed(w, Deadline), w.rides = x.rides, Leads(w, x)
       PROVE  \E c \in Composed(link, some) :
                c.rides = k /\ (c.departure > d \/ (c.departure = d /\ c.achieved <= y.achieved))
  <2>1. w.departure \in Nat /\ x.departure \in Nat /\ y.departure \in Nat /\ w.achieved \in Nat
        /\ x.achieved \in Nat /\ y.achieved \in Nat /\ w.rides \in Nat
    BY <1>6, <1>8, <1>10 DEF Timed
  <2>2. \/ w.departure > x.departure
        \/ w.departure = x.departure /\ w.achieved <= x.achieved
    BY <1>10, <2>1 DEF Leads
  <2>3. link.duration <= w.departure
    BY <1>3, <1>5, <2>1, <2>2
  <2>4. PICK c \in Composed(link, some) :
          c.departure = w.departure - link.duration /\ c.rides = w.rides /\ c.achieved = w.achieved
    BY <2>3, ComposedIn
  <2>5. c.departure > d \/ (c.departure = d /\ c.achieved <= y.achieved)
    <3>1. \A at, after, latest, walk \in Nat : d + walk <= at /\ at <= after /\ after <= latest =>
            latest - walk >= d /\ (latest - walk = d => latest = after)
      OBVIOUS
    <3>2. c.departure >= d /\ (c.departure = d => w.departure = x.departure) /\ c.departure \in Int
      <4>1. y.departure <= x.departure /\ x.departure <= w.departure
        BY <1>5, <2>1, <2>2
      <4>2. PICK at \in Nat, after \in Nat, latest \in Nat, walk \in Nat :
              at = y.departure /\ after = x.departure /\ latest = w.departure /\ walk = link.duration
        BY <1>3, <2>1
      <4>3. latest - walk >= d /\ (latest - walk = d => latest = after)
        BY <3>1, <4>1, <4>2
      <4> QED BY <2>4, <4>2, <4>3
    <3>3. w.departure = x.departure => c.achieved <= y.achieved
      BY <1>5, <2>1, <2>2, <2>4
    <3> QED BY <3>2, <3>3
  <2> QED BY <1>5, <1>10, <2>4, <2>5
<1>11. CASE q.use = "route"
  <2>1. x.departure <= x.departure /\ x.achieved <= x.achieved
    BY <1>8 DEF Timed
  <2>2. Leads(x, x)
    BY <2>1 DEF Leads
  <2>3. PICK c \in Composed(link, By(States(link.stop), mark)) :
          c.rides = k /\ (c.departure > d \/ (c.departure = d /\ c.achieved <= y.achieved))
    BY <1>8, <1>9, <1>10, <2>2
  <2>4. c \in CandidatesAt(mark)
    <3> DEFINE through(l) == Composed(l, By(States(l.stop), mark))
    <3>1. CandidatesAt(mark) = UNION {through(l) : l \in q.access}
      BY <1>11 DEF CandidatesAt
    <3>2. c \in through(link)
      OBVIOUS
    <3> HIDE DEF through
    <3> QED BY <3>1, <3>2
  <2> QED BY <1>2, <2>3, <2>4
<1>12. CASE q.use # "route"
  <2>1. PICK w \in Winners(States(link.stop), mark) :
          w \in By(States(link.stop), mark) /\ w.rides = x.rides /\ Leads(w, x)
    BY <1>3, <1>7, <1>9, WinnerLeads
  <2>2. Timed(w, Deadline)
    BY <1>7, <2>1 DEF By
  <2>3. PICK c \in Composed(link, Winners(States(link.stop), mark)) :
          c.rides = k /\ (c.departure > d \/ (c.departure = d /\ c.achieved <= y.achieved))
    BY <1>10, <2>1, <2>2
  <2>4. c \in CandidatesAt(mark)
    <3> DEFINE through(l) == Composed(l, Winners(States(l.stop), mark))
    <3>1. CandidatesAt(mark) = (UNION {through(l) : l \in q.access}) \cup Placed(q.walks[AnySeed], mark)
      BY <1>12 DEF CandidatesAt
    <3>2. c \in through(link)
      OBVIOUS
    <3> HIDE DEF through
    <3> QED BY <3>1, <3>2
  <2> QED BY <1>2, <2>3, <2>4
<1> QED BY <1>11, <1>12


----------------------------------------------------------------------------
(* What the forward engine answers.                                        *)

LEMMA ForwardArrivalIs ==
  ASSUME q \in Queries, NEW d \in Nat, NEW k \in 1 .. q.rounds
  PROVE  /\ ForwardArrival(d)[k] \in 0 .. Unreached
         /\ ForwardArrival(d)[k] # Unreached => \E e \in q.egress :
              /\ Open(e.stop) /\ R!Earliest(q, {d})[k][e.stop] < R!Earliest(q, {d})[k - 1][e.stop]
              /\ ForwardArrival(d)[k] = R!Earliest(q, {d})[k][e.stop] + e.duration
         /\ \A e \in q.egress :
              Open(e.stop) /\ R!Earliest(q, {d})[k][e.stop] < R!Earliest(q, {d})[k - 1][e.stop] =>
                ForwardArrival(d)[k] <= R!Earliest(q, {d})[k][e.stop] + e.duration
<1> DEFINE g(i) == R!Earliest(q, {d})[i]
           links == {e \in q.egress : Open(e.stop) /\ g(k)[e.stop] < g(k - 1)[e.stop]}
           times == {Unreached} \cup {g(k)[e.stop] + e.duration : e \in links}
<1>1. k \in Rounds /\ Unreached \in Nat
  BY RoundNumbers, TimeAssumption
<1>2. ForwardArrival(d)[k] = Min(times)
  BY DEF ForwardArrival, EarliestArrival
<1>3. g(k) \in [Stops -> 0 .. Unreached]
  BY <1>1, ForwardArrivals
<1> HIDE DEF g
<1>4. times \in SUBSET Nat /\ Unreached \in times
  <2>1. \A e \in q.egress : e.stop \in Stops /\ e.duration \in Nat
    BY QueriesAssumption DEF WellFormedRequest
  <2>2. \A e \in links : g(k)[e.stop] + e.duration \in Nat
    BY <1>1, <1>3, <2>1
  <2> QED BY <1>1, <2>2
<1>5. PICK at \in times : at = Min(times) /\ \A i \in times : at <= i
  <2> HIDE DEF times
  <2> QED BY <1>4, MinIs
<1>6. at \in 0 .. Unreached
  <2> HIDE DEF times
  <2> QED BY <1>1, <1>4, <1>5
<1>7. at # Unreached => \E e \in links : at = g(k)[e.stop] + e.duration
  BY <1>5
<1>8. \A e \in links : at <= g(k)[e.stop] + e.duration
  BY <1>5
<1> HIDE DEF times
<1> QED BY <1>2, <1>5, <1>6, <1>7, <1>8 DEF g

LEMMA ForwardAnswerIs ==
  ASSUME NEW d, NEW f \in ForwardAnswers(d)
  PROVE  /\ f = Candidate(d, f.rides, f.achieved) /\ f.departure = d /\ f.rides \in 1 .. q.rounds
         /\ f.achieved = ForwardArrival(d)[f.rides]
         /\ \A j \in 1 .. f.rides : f.achieved < Unreached /\ (j < f.rides => f.achieved < ForwardArrival(d)[j])
BY DEF ForwardAnswers, Candidate

\* An arrival is answered, or one as early with fewer rides.
LEMMA ForwardAnswerBy ==
  ASSUME q \in Queries, NEW d \in Nat, NEW k \in 1 .. q.rounds, ForwardArrival(d)[k] < Unreached
  PROVE  \E f \in ForwardAnswers(d) : f.rides <= k /\ f.achieved <= ForwardArrival(d)[k]
<1> DEFINE arrival(j) == ForwardArrival(d)[j]
           early == {j \in 1 .. q.rounds : arrival(j) <= arrival(k)}
<1>1. /\ q.rounds \in Nat /\ Unreached \in Nat
      /\ \A j \in 1 .. q.rounds : arrival(j) \in 0 .. Unreached
  BY RoundNumbers, TimeAssumption, ForwardArrivalIs
<1>2. arrival(k) < Unreached
  OBVIOUS
<1>3. ForwardAnswers(d) = {Candidate(d, j, arrival(j)) :
         j \in {j \in 1 .. q.rounds : \A i \in 1 .. j : arrival(j) < Unreached /\ (i < j => arrival(j) < arrival(i))}}
  BY DEF ForwardAnswers
<1> HIDE DEF arrival
<1>4. early \in SUBSET Nat /\ k \in early
  BY <1>1
<1>5. PICK j \in early : \A i \in early : j <= i
  <2> HIDE DEF early
  <2> QED BY <1>4, SmallestElement
<1>6. j \in 1 .. q.rounds /\ arrival(j) <= arrival(k) /\ j <= k
  BY <1>4, <1>5
<1>7. ASSUME NEW i \in 1 .. j PROVE arrival(j) < Unreached /\ (i < j => arrival(j) < arrival(i))
  <2>1. i \in 1 .. q.rounds
    BY <1>1, <1>6
  <2>2. i < j => ~(arrival(i) <= arrival(k))
    BY <1>5, <1>6, <2>1
  <2> QED BY <1>1, <1>2, <1>6, <2>1, <2>2
<1> DEFINE f == Candidate(d, j, arrival(j))
<1>8. f \in ForwardAnswers(d)
  BY <1>3, <1>6, <1>7
<1>9. f.rides = j /\ f.achieved = arrival(j)
  BY DEF Candidate
<1> HIDE DEF f
<1> QED BY <1>6, <1>8, <1>9 DEF arrival

\* Every answer of the forward engine by a mark has a candidate that is as good
\* for it.
LEMMA AnswerMatched ==
  ASSUME GInv, VInv, Elected, q.use # "nearest", NEW i \in DOMAIN q.marks, NEW d \in Nat,
         NEW f \in ForwardAnswers(d), f.achieved <= q.marks[i]
  PROVE  \E c \in CandidatesAt(q.marks[i]) :
           c.rides <= f.rides /\ (c.departure > d \/ (c.departure = d /\ c.achieved <= f.achieved))
<1>1. q \in Queries /\ q.use \notin {"depart", "matrix"}
  BY DEF GInv, ReverseTypeOK, Elected
<1>2. PICK k \in 1 .. q.rounds, at \in 0 .. Unreached : k = f.rides /\ at = f.achieved
  BY <1>1, ForwardAnswerIs, ForwardArrivalIs, ZenonT(60)
<1>3. /\ q.rounds \in Nat /\ k \in 1 .. k /\ Unreached \in Nat
      /\ Deadline \in Nat /\ q.marks[i] \in Nat /\ q.marks[i] <= Deadline
  BY <1>1, RoundNumbers, DeadlineTime, TimeAssumption
<1>4. at = ForwardArrival(d)[k] /\ at < Unreached
  <2>1. /\ f.achieved = ForwardArrival(d)[f.rides]
        /\ \A j \in 1 .. f.rides : f.achieved < Unreached
    BY ForwardAnswerIs, ZenonT(60)
  <2>2. at = ForwardArrival(d)[k] /\ \A j \in 1 .. k : at < Unreached
    BY <1>2, <2>1
  <2> QED BY <1>3, <2>2
<1>5. PICK e \in q.egress : /\ Open(e.stop) /\ R!Earliest(q, {d})[k][e.stop] < R!Earliest(q, {d})[k - 1][e.stop]
                            /\ at = R!Earliest(q, {d})[k][e.stop] + e.duration
  BY <1>1, <1>3, <1>4, ForwardArrivalIs
<1>6. at <= Deadline
  BY <1>2, <1>3
<1>7. PICK n \in 1 .. k, a \in q.access : \E y \in ContinuationsTo(q.egress)[n] :
             a.stop = y.stop /\ d + a.duration <= y.departure /\ y.achieved = at
  <2>1. q.egress \in SUBSET q.egress
    OBVIOUS
  <2>2. InTime(q.egress, d, k, at)
    BY <1>1, <1>5, <1>6, <2>1, MeetsHalfway
  <2> QED BY <2>2 DEF InTime
<1>8. PICK y \in ContinuationsTo(q.egress)[n] :
             a.stop = y.stop /\ d + a.duration <= y.departure /\ y.achieved = at
  BY <1>7
<1>9. n \in 1 .. q.rounds /\ n <= k
  BY <1>3
<1>10. PICK c \in CandidatesAt(q.marks[i]) :
         c.rides = n /\ (c.departure > d \/ (c.departure = d /\ c.achieved <= y.achieved))
  BY <1>2, <1>8, <1>9, CandidateFor
<1> QED BY <1>2, <1>8, <1>9, <1>10


\* Where the forward engine does not answer a candidate, walking through a stop
\* of both tables is as fast: it reaches an egress stop of the candidate as
\* early with no ride, or sooner than the candidate its arrival would be
\* elected.
LEMMA DetourWalked ==
  ASSUME GInv, VInv, Elected, q.use # "nearest", NEW i \in DOMAIN q.marks,
         NEW c \in Pareto(CandidatesAt(q.marks[i])), ~Replayed(c)
  PROVE  \E w \in WalksThrough : c.departure + w <= c.achieved
<1>1. q \in Queries /\ q.use \notin {"depart", "matrix"}
  BY DEF GInv, ReverseTypeOK, Elected
<1>2. /\ c \in CandidatesAt(q.marks[i]) /\ c.rides # 0 /\ c \notin ForwardAnswers(c.departure)
      /\ \A b \in CandidatesAt(q.marks[i]) :
           NoWorse(b, c) => b.departure = c.departure /\ b.rides = c.rides /\ c.achieved <= b.achieved
  BY DEF Pareto, Replayed
<1>3. /\ Timed(c, Deadline) /\ c.achieved <= q.marks[i] /\ c = Candidate(c.departure, c.rides, c.achieved)
      /\ \E link \in q.access : \E x \in States(link.stop) :
           /\ link.stop \in Stops /\ link.duration <= x.departure
           /\ c.departure = x.departure - link.duration /\ c.rides = x.rides /\ c.achieved = x.achieved
  BY <1>2, CandidateIs
<1>4. PICK link \in q.access : \E x \in States(link.stop) :
        /\ link.stop \in Stops /\ link.duration <= x.departure
        /\ c.departure = x.departure - link.duration /\ c.rides = x.rides /\ c.achieved = x.achieved
  BY <1>3
<1>5. PICK x \in States(link.stop) :
        /\ link.stop \in Stops /\ link.duration <= x.departure
        /\ c.departure = x.departure - link.duration /\ c.rides = x.rides /\ c.achieved = x.achieved
  BY <1>4
<1>6. PICK d \in Nat, k \in 1 .. q.rounds, at \in Nat :
        d = c.departure /\ k = c.rides /\ at = c.achieved /\ at <= q.marks[i]
  <2>1. x.rides \in 1 .. q.rounds
    BY <1>5, StateContinues
  <2>2. c.departure \in Nat /\ c.achieved \in Nat
    BY <1>3 DEF Timed
  <2> QED BY <1>3, <1>5, <2>1, <2>2
<1>7. PICK y \in ContinuationsTo(LinksOf(x.seed))[k] : y.stop = link.stop /\ y.departure = x.departure /\ y.achieved = at
  <2> DEFINE y == [stop |-> link.stop, departure |-> x.departure, achieved |-> x.achieved]
  <2>1. y \in ContinuationsTo(LinksOf(x.seed))[k]
    BY <1>5, <1>6, StateContinues
  <2>2. y.stop = link.stop /\ y.departure = x.departure /\ y.achieved = at
    BY <1>5, <1>6
  <2> HIDE DEF y
  <2> QED BY <2>1, <2>2
<1>8. /\ q.rounds \in Nat /\ Unreached \in Nat /\ link.duration \in Nat /\ link.stop \in Stops
      /\ q.marks[i] \in Nat /\ q.marks[i] < Unreached /\ \A e \in q.egress : e.stop \in Stops /\ e.duration \in Nat
  <2>1. q.marks[i] \in Nat /\ q.marks[i] <= Deadline /\ Deadline \in Nat /\ Deadline < Unreached
    BY <1>1, DeadlineTime
  <2> QED BY <1>1, <1>5, <2>1, RoundNumbers, TimeAssumption, QueriesAssumption DEF WellFormedRequest
<1> DEFINE g(j) == R!Earliest(q, {d})[j]
<1>9. g(0)[y.stop] <= y.departure
  <2>1. Open(y.stop) /\ y.stop \in Stops
    BY <1>1, ContinuationOpens
  <2>2. g(0)[link.stop] <= d + link.duration
    BY <1>1, <1>7, <1>8, <2>1, EarliestRounds, StartedIs DEF Open
  <2>3. d + link.duration = x.departure
    <3>1. x.departure \in Int
      <4>1. x.departure \in 0 .. Deadline
        BY <1>8, StateContinues
      <4> QED BY <4>1
    <3> QED BY <1>5, <1>6, <1>8, <3>1
  <2> QED BY <1>7, <2>2, <2>3
<1>10. PICK e \in q.egress : Open(e.stop) /\ g(k)[e.stop] + e.duration <= at
  <2>1. LinksOf(x.seed) \in SUBSET q.egress
    BY DEF LinksOf
  <2>2. 0 \in 0 .. q.rounds - k /\ 0 + k = k
    BY <1>8
  <2>3. \E e \in LinksOf(x.seed) : Open(e.stop) /\ g(0 + k)[e.stop] + e.duration <= y.achieved
    BY <1>1, <1>9, <2>1, <2>2, RidesThrough
  <2> QED BY <1>7, <2>1, <2>2, <2>3
<1>11. \A j \in 0 .. q.rounds : g(j)[e.stop] \in 0 .. Unreached
  <2>1. \A j \in 0 .. q.rounds : g(j) \in [Stops -> 0 .. Unreached]
    BY <1>1, RoundNumbers, ForwardArrivals
  <2> HIDE DEF g
  <2> QED BY <1>8, <2>1
<1>12. g(0)[e.stop] # Unreached => \E a \in q.access : a.stop = e.stop /\ g(0)[e.stop] = d + a.duration
  BY <1>1, <1>8, EarliestRounds, StartedIs
<1>13. \A j \in 1 .. q.rounds : g(j)[e.stop] < g(j - 1)[e.stop] => ForwardArrival(d)[j] <= g(j)[e.stop] + e.duration
  BY <1>1, <1>10, ForwardArrivalIs
<1> HIDE DEF g
<1> DEFINE as == {j \in 0 .. k : g(j)[e.stop] <= g(k)[e.stop]}
<1>14. as \in SUBSET Nat /\ k \in as
  BY <1>8, <1>11
<1>15. PICK j \in as : \A l \in as : j <= l
  <2> HIDE DEF as
  <2> QED BY <1>14, SmallestElement
<1>16. j \in 0 .. q.rounds /\ j <= k /\ g(j)[e.stop] <= g(k)[e.stop] /\ k \in 0 .. q.rounds
  BY <1>8, <1>15
<1>17. g(j)[e.stop] + e.duration <= at /\ g(j)[e.stop] \in Nat /\ e.duration \in Nat
  BY <1>8, <1>10, <1>11, <1>16
<1>18. CASE j = 0
  <2>1. g(0)[e.stop] # Unreached
    BY <1>6, <1>8, <1>17, <1>18
  <2>2. PICK a \in q.access : a.stop = e.stop /\ g(0)[e.stop] = d + a.duration
    BY <1>12, <2>1
  <2>3. a.duration \in Nat
    BY <1>1, QueriesAssumption DEF WellFormedRequest
  <2>4. a.duration + e.duration \in WalksThrough
    <3>1. <<a, e>> \in {z \in q.access \X q.egress : z[1].stop = z[2].stop}
      BY <2>2
    <3> QED BY <3>1 DEF WalksThrough
  <2>5. d + (a.duration + e.duration) <= at
    BY <1>17, <1>18, <2>2, <2>3
  <2> QED BY <1>6, <2>4, <2>5
<1>19. CASE j # 0
  <2>1. j \in 1 .. q.rounds /\ j - 1 \in 0 .. k /\ j - 1 \in 0 .. q.rounds /\ ~(j <= j - 1)
    BY <1>8, <1>16, <1>19
  <2>2. ~(g(j - 1)[e.stop] <= g(k)[e.stop])
    BY <1>15, <2>1
  <2>3. g(j)[e.stop] < g(j - 1)[e.stop]
    BY <1>8, <1>11, <1>16, <2>1, <2>2
  <2>4. ForwardArrival(d)[j] <= at /\ ForwardArrival(d)[j] < Unreached
    <3>1. ForwardArrival(d)[j] <= g(j)[e.stop] + e.duration
      BY <1>13, <2>1, <2>3
    <3>2. ForwardArrival(d)[j] \in 0 .. Unreached
      BY <1>1, <2>1, ForwardArrivalIs
    <3> QED BY <1>6, <1>8, <1>17, <3>1, <3>2
  <2>5. PICK f \in ForwardAnswers(d) : f.rides <= j /\ f.achieved <= ForwardArrival(d)[j]
    BY <1>1, <2>1, <2>4, ForwardAnswerBy
  <2>6. /\ f = Candidate(d, f.rides, f.achieved) /\ f.rides \in Nat /\ f.achieved \in Nat
        /\ f.achieved <= at /\ f.achieved <= q.marks[i] /\ f.rides <= k
    <3>1. f = Candidate(d, f.rides, f.achieved) /\ f.rides \in 1 .. q.rounds /\ f.achieved = ForwardArrival(d)[f.rides]
      BY ForwardAnswerIs
    <3>2. f.achieved \in 0 .. Unreached /\ ForwardArrival(d)[j] \in 0 .. Unreached
      BY <1>1, <2>1, <3>1, ForwardArrivalIs
    <3> QED BY <1>6, <1>8, <1>16, <2>4, <2>5, <3>1, <3>2
  <2>7. PICK b \in CandidatesAt(q.marks[i]) :
          b.rides <= f.rides /\ (b.departure > d \/ (b.departure = d /\ b.achieved <= f.achieved))
    BY <2>6, AnswerMatched
  <2>8. Timed(b, Deadline)
    BY CandidateIs
  <2>9. NoWorse(b, c)
    BY <1>6, <1>8, <2>6, <2>7, <2>8 DEF NoWorse, Timed
  <2>10. b.departure = d /\ b.rides = k /\ at <= b.achieved
    BY <1>2, <1>6, <2>9
  <2>11. f.rides = k /\ f.achieved = at
    BY <1>6, <1>8, <2>6, <2>7, <2>8, <2>10 DEF Timed
  <2>12. f = c
    BY <1>3, <1>6, <2>6, <2>11
  <2> QED BY <1>2, <1>6, <2>12
<1> QED BY <1>18, <1>19


----------------------------------------------------------------------------
(* The answers.                                                            *)

Ballot == UNION {Pareto(CandidatesAt(q.marks[i])) : i \in DOMAIN q.marks}
\* What a query answers, of its bags.
AInv ==
  /\ phase = "nearest" => q.use = "nearest"
  /\ phase = "times" => q.use = "times"
  /\ phase \in {"elect", "replay"} => q.use \notin {"nearest", "times"}
  /\ phase = "replay" => elected = Ballot
  /\ phase = "answered" =>
       /\ q.use = "nearest" => answers = Nearest([o \in Destinations |-> CandidatesTo(o)])
       /\ q.use = "times" => answers = WinnersByStop
       /\ q.use \notin {"nearest", "times"} => elected = Ballot /\ answers = {c \in elected : Replayed(c)}

LEMMA StatesStay == q' = q /\ bags' = bags => \A s : States(s)' = States(s)
BY DEF States, Rounds, Fixed

LEMMA BallotStays == q' = q /\ bags' = bags => Ballot' = Ballot
<1> SUFFICES ASSUME q' = q, bags' = bags PROVE Ballot' = Ballot
  OBVIOUS
<1>1. \A s : States(s)' = States(s)
  BY StatesStay
<1>2. \A mark : CandidatesAt(mark)' = CandidatesAt(mark)
  BY <1>1 DEF CandidatesAt
<1> QED BY <1>2 DEF Ballot

LEMMA FastPathsStay ==
  q' = q /\ bags' = bags =>
    /\ Nearest([o \in Destinations |-> CandidatesTo(o)])' = Nearest([o \in Destinations |-> CandidatesTo(o)])
    /\ WinnersByStop' = WinnersByStop
<1> SUFFICES ASSUME q' = q, bags' = bags
             PROVE  /\ Nearest([o \in Destinations |-> CandidatesTo(o)])' = Nearest([o \in Destinations |-> CandidatesTo(o)])
                    /\ WinnersByStop' = WinnersByStop
  OBVIOUS
<1>1. \A s : States(s)' = States(s)
  BY StatesStay
<1>2. Deadline' = Deadline /\ Destinations' = Destinations
  BY DEF Deadline, Destinations
<1>3. \A o : CandidatesTo(o)' = CandidatesTo(o)
  BY <1>1, <1>2 DEF CandidatesTo
<1>4. [o \in Destinations |-> CandidatesTo(o)]' = [o \in Destinations |-> CandidatesTo(o)]
  BY <1>2, <1>3
<1>5. \A to : Nearest(to)' = Nearest(to)
  BY <1>2 DEF Nearest
<1>6. \A s : TimesFrom(s)' = TimesFrom(s)
  BY <1>1, <1>2 DEF TimesFrom, WalkingOnly, Open
<1>7. WinnersByStop' = WinnersByStop
  BY <1>6 DEF WinnersByStop
<1> QED BY <1>4, <1>5, <1>7

LEMMA ReplayedStays == q' = q => \A c : Replayed(c)' <=> Replayed(c)
<1> SUFFICES ASSUME q' = q PROVE \A c : Replayed(c)' <=> Replayed(c)
  OBVIOUS
<1>1. \A d : ForwardArrival(d)' = ForwardArrival(d)
  BY DEF ForwardArrival, EarliestArrival, Open
<1>2. \A d : ForwardAnswers(d)' = ForwardAnswers(d)
  BY <1>1 DEF ForwardAnswers
<1> QED BY <1>2 DEF Replayed


LEMMA AnswersInit == ReverseInit => AInv
<1> SUFFICES ASSUME ReverseInit PROVE AInv
  OBVIOUS
<1>1. phase \in {"idle", "seed"}
  BY DEF ReverseInit
<1> QED BY <1>1 DEF AInv

LEMMA AnswersNext == AInv /\ [ReverseNext /\ UNCHANGED q]_<<q, reverseVars>> => AInv'
<1> SUFFICES ASSUME AInv, [ReverseNext /\ UNCHANGED q]_<<q, reverseVars>> PROVE AInv'
  OBVIOUS
<1>1. CASE SeedEgress \/ StartRound \/ StartPattern \/ ScanPosition \/ Extend
  <2>1. phase' \in {"round", "scan"}
    BY <1>1 DEF SeedEgress, StartRound, StartPattern, ScanPosition, Extend
  <2> QED BY <2>1 DEF AInv
<1>2. ASSUME q' = q, EndRounds PROVE AInv'
  <2>1. phase' = CASE q.use = "nearest" -> "nearest" [] q.use = "times" -> "times" [] OTHER -> "elect"
    BY <1>2 DEF EndRounds
  <2>2. CASE q.use = "nearest"
    <3>1. phase' = "nearest"
      BY <2>1, <2>2
    <3> QED BY <1>2, <2>2, <3>1 DEF AInv
  <2>3. CASE q.use = "times"
    <3>1. phase' = "times"
      BY <2>1, <2>3
    <3> QED BY <1>2, <2>3, <3>1 DEF AInv
  <2>4. CASE q.use \notin {"nearest", "times"}
    <3>1. phase' = "elect"
      BY <2>1, <2>4
    <3> QED BY <1>2, <2>4, <3>1 DEF AInv
  <2> QED BY <2>2, <2>3, <2>4
<1>3. ASSUME q' = q, Elect PROVE AInv'
  <2>1. phase = "elect" /\ phase' = "replay" /\ elected' = Ballot /\ bags' = bags
    BY <1>3 DEF Elect, Ballot, search
  <2>2. q.use \notin {"nearest", "times"} /\ elected' = Ballot'
    BY <1>3, <2>1, BallotStays DEF AInv
  <2> QED BY <1>3, <2>1, <2>2 DEF AInv
<1>4. ASSUME q' = q, Replay PROVE AInv'
  <2>1. /\ phase = "replay" /\ phase' = "answered" /\ elected' = elected /\ bags' = bags
        /\ answers' = {c \in elected : Replayed(c)}
    BY <1>4 DEF Replay, search
  <2>2. q.use \notin {"nearest", "times"} /\ elected' = Ballot'
    BY <1>4, <2>1, BallotStays DEF AInv
  <2>3. \A c : Replayed(c)' <=> Replayed(c)
    BY <1>4, ReplayedStays
  <2>4. answers' = {c \in elected : Replayed(c)}'
    BY <2>1, <2>3
  <2> QED BY <1>4, <2>1, <2>2, <2>4 DEF AInv
<1>5. ASSUME q' = q, AnswerTimes PROVE AInv'
  <2>1. phase = "times" /\ phase' = "answered" /\ bags' = bags /\ answers' = WinnersByStop
    BY <1>5 DEF AnswerTimes, search
  <2>2. q.use = "times" /\ answers' = WinnersByStop'
    BY <1>5, <2>1, FastPathsStay DEF AInv
  <2> QED BY <1>5, <2>1, <2>2 DEF AInv
<1>6. ASSUME q' = q, AnswerNearest PROVE AInv'
  <2>1. /\ phase = "nearest" /\ phase' = "answered" /\ bags' = bags
        /\ answers' = Nearest([o \in Destinations |-> CandidatesTo(o)])
    BY <1>6 DEF AnswerNearest, search
  <2>2. q.use = "nearest" /\ answers' = Nearest([o \in Destinations |-> CandidatesTo(o)])'
    BY <1>6, <2>1, FastPathsStay DEF AInv
  <2> QED BY <1>6, <2>1, <2>2 DEF AInv
<1>7. CASE UNCHANGED <<q, reverseVars>>
  <2>1. /\ q' = q /\ phase' = phase /\ elected' = elected /\ answers' = answers /\ bags' = bags
    BY <1>7 DEF reverseVars, search
  <2>2. Ballot' = Ballot
    BY <2>1, BallotStays
  <2>3. /\ Nearest([o \in Destinations |-> CandidatesTo(o)])' = Nearest([o \in Destinations |-> CandidatesTo(o)])
        /\ WinnersByStop' = WinnersByStop
    BY <2>1, FastPathsStay
  <2>4. {c \in elected : Replayed(c)}' = {c \in elected : Replayed(c)}
    BY <2>1, ReplayedStays
  <2> QED BY <2>1, <2>2, <2>3, <2>4 DEF AInv
<1> QED BY <1>1, <1>2, <1>3, <1>4, <1>5, <1>6, <1>7 DEF ReverseNext

LEMMA AnswersAlways == ReverseSpec => []AInv
BY AnswersInit, AnswersNext, PTL DEF ReverseSpec


\* Nothing the forward engine answers is missing, and what it does not answer is
\* a detour.
LEMMA DetoursOnly == GInv /\ VInv /\ AInv => OnlyDetoursDropped
<1> SUFFICES ASSUME GInv, VInv, AInv, phase = "answered", q.use \in {"route", "profile"}, NEW c \in elected \ answers
             PROVE  \E w \in WalksThrough : c.departure + w <= c.achieved
  BY DEF OnlyDetoursDropped
<1>1. elected = Ballot /\ answers = {e \in elected : Replayed(e)}
  BY DEF AInv
<1>2. PICK i \in DOMAIN q.marks : c \in Pareto(CandidatesAt(q.marks[i]))
  BY <1>1 DEF Ballot
<1>3. ~Replayed(c) /\ Elected /\ q.use # "nearest"
  BY <1>1 DEF Elected
<1> QED BY <1>2, <1>3, DetourWalked

LEMMA NoneLost == GInv /\ VInv /\ AInv => NoAnswerLost
<1> SUFFICES ASSUME GInv, VInv, AInv, phase = "answered", q.use \in {"route", "profile"},
                    NEW d \in 0 .. Deadline, NEW f \in ForwardAnswers(d), NEW i \in DOMAIN q.marks,
                    f.achieved <= q.marks[i]
             PROVE  \/ \E c \in answers : NoWorse(c, f) /\ c.achieved <= q.marks[i]
                    \/ \E w \in WalkSeconds : d + w <= q.marks[i]
  BY DEF NoAnswerLost
<1>1. elected = Ballot /\ answers = {e \in elected : Replayed(e)} /\ Elected /\ q.use # "nearest"
  BY DEF AInv, Elected
<1>2. q \in Queries /\ q.use \notin {"depart", "matrix"}
  BY DEF GInv, ReverseTypeOK
<1>3. Deadline \in Nat /\ d \in Nat /\ q.marks[i] \in Nat
  BY <1>2, DeadlineTime
<1>4. \A c \in CandidatesAt(q.marks[i]) : Timed(c, Deadline) /\ c.achieved <= q.marks[i]
  BY <1>1, CandidateIs
<1>5. PICK b \in CandidatesAt(q.marks[i]) :
        b.rides <= f.rides /\ (b.departure > d \/ (b.departure = d /\ b.achieved <= f.achieved))
  BY <1>1, <1>3, AnswerMatched
<1>6. PICK c \in Pareto(CandidatesAt(q.marks[i])) : c \in CandidatesAt(q.marks[i]) /\ NoWorse(c, b)
  BY <1>3, <1>4, ParetoCovers
<1>7. Timed(c, Deadline) /\ Timed(b, Deadline) /\ c.achieved <= q.marks[i]
  BY <1>4, <1>6
<1>8. f.departure = d /\ f.rides \in Nat
  BY <1>2, ForwardAnswerIs, RoundNumbers
<1>9. NoWorse(c, f)
  BY <1>3, <1>5, <1>6, <1>7, <1>8 DEF NoWorse, Timed
<1>10. CASE Replayed(c)
  <2>1. c \in answers
    BY <1>1, <1>10 DEF Ballot
  <2> QED BY <1>7, <1>9, <2>1
<1>11. CASE ~Replayed(c)
  <2>1. PICK w \in WalksThrough : c.departure + w <= c.achieved
    BY <1>1, <1>11, DetourWalked
  <2>2. w \in Nat
    <3>1. \A l \in q.access \cup q.egress : l.duration \in Nat
      BY <1>2, QueriesAssumption DEF WellFormedRequest
    <3> QED BY <3>1 DEF WalksThrough
  <2>3. d + w <= q.marks[i]
    BY <1>3, <1>7, <1>8, <1>9, <2>1, <2>2 DEF NoWorse, Timed
  <2> QED BY <2>3 DEF WalkSeconds
<1> QED BY <1>10, <1>11


----------------------------------------------------------------------------
(* The fast paths answer as asked alone.                                   *)

IsCandidate(c, n) == Timed(c, n) /\ c = Candidate(c.departure, c.rides, c.achieved)
AsEarly(b, a) == b.departure >= a.departure /\ b.rides <= a.rides /\ b.achieved <= a.achieved
AllAsEarly(B, A) == \A a \in A : \E b \in B : AsEarly(b, a)

LEMMA WinnerIs ==
  ASSUME NEW A, A # {}, NEW n \in Nat, \A c \in A : IsCandidate(c, n)
  PROVE  Winner(A) \in A /\ \A d \in A : Leads(Winner(A), d)
<1>1. \E c \in A : \A d \in A : Leads(c, d)
  BY LeaderIs DEF IsCandidate
<1>2. Winner(A) = CHOOSE c \in A : \A d \in A : Leads(c, d)
  BY DEF Winner, Leads
<1> QED BY <1>1, <1>2

\* Two sets that are as early as each other have the same winner.
LEMMA SameWinner ==
  ASSUME NEW A, NEW B, NEW n \in Nat, \A c \in A \cup B : IsCandidate(c, n), AllAsEarly(A, B), AllAsEarly(B, A)
  PROVE  (A = {} <=> B = {}) /\ (A # {} => Winner(A) = Winner(B))
<1>1. A = {} <=> B = {}
  BY DEF AllAsEarly
<1>2. ASSUME A # {} PROVE Winner(A) = Winner(B)
  <2>1. PICK v \in A, w \in B : v = Winner(A) /\ w = Winner(B) /\ (\A d \in A : Leads(v, d)) /\ (\A d \in B : Leads(w, d))
    BY <1>1, <1>2, WinnerIs
  <2>2. PICK a \in A, b \in B : AsEarly(a, w) /\ AsEarly(b, v)
    BY <2>1 DEF AllAsEarly
  <2>3. Leads(v, a) /\ Leads(w, b)
    BY <2>1
  <2>4. \A c \in {v, w, a, b} : /\ c.departure \in Nat /\ c.rides \in Nat /\ c.achieved \in Nat
                                /\ c = Candidate(c.departure, c.rides, c.achieved)
    <3>1. \A c \in {v, w, a, b} : IsCandidate(c, n)
      BY <2>1, <2>2
    <3> QED BY <3>1 DEF IsCandidate, Timed
  <2>5. v.departure = w.departure /\ v.rides = w.rides /\ v.achieved = w.achieved
    BY <2>2, <2>3, <2>4 DEF Leads, AsEarly
  <2> QED BY <2>1, <2>4, <2>5
<1> QED BY <1>1, <1>2

\* Adding the same candidates to both keeps it so.
LEMMA AsEarlyWith ==
  ASSUME NEW A, NEW B, NEW P, NEW n \in Nat, \A c \in P : IsCandidate(c, n), AllAsEarly(A, B)
  PROVE  AllAsEarly(A \cup P, B \cup P)
<1>1. \A c \in P : AsEarly(c, c)
  BY DEF IsCandidate, Timed, AsEarly
<1> QED BY <1>1 DEF AllAsEarly

LEMMA PlacedIs ==
  ASSUME NEW mark \in Nat, NEW walk \in Nat, NEW c \in Placed(walk, mark)
  PROVE  IsCandidate(c, mark)
<1>1. ~(mark < walk) /\ c = Candidate(mark - walk, 0, mark)
  BY DEF Placed
<1>2. c.departure = mark - walk /\ c.rides = 0 /\ c.achieved = mark
  BY <1>1 DEF Candidate
<1>3. mark - walk \in 0 .. mark
  BY <1>1
<1> QED BY <1>1, <1>2, <1>3 DEF IsCandidate, Timed

\* Nobody continues to no link.
LEMMA NowhereTo ==
  ASSUME q \in Queries
  PROVE  \A k \in 1 .. q.rounds : ContinuationsTo({})[k] = {}
<1> DEFINE some == {k \in 1 .. q.rounds : ContinuationsTo({})[k] # {}}
<1>1. some \in SUBSET Nat /\ q.rounds \in Nat
  BY RoundNumbers
<1>2. ASSUME some # {} PROVE FALSE
  <2>1. PICK k \in some : \A j \in some : k <= j
    <3> HIDE DEF some
    <3> QED BY <1>1, <1>2, SmallestElement
  <2>2. PICK y \in ContinuationsTo({})[k] : TRUE
    BY <2>1
  <2>3. CASE k = 1
    BY <2>2, <2>3, LastRideOf
  <2>4. CASE k # 1
    <3>1. k \in 2 .. q.rounds /\ k - 1 \in 1 .. q.rounds /\ ~(k <= k - 1)
      BY <1>1, <2>1, <2>4
    <3>2. ContinuationsTo({})[k - 1] # {}
      BY <2>2, <3>1, NextRideOf
    <3> QED BY <2>1, <3>1, <3>2
  <2> QED BY <2>3, <2>4
<1> QED BY <1>2

\* The candidates for a destination, from the labels of all, and those it has
\* when asked about alone.
Shared(access, o) == UNION {Composed(link, {x \in States(link.stop) : x.seed = o}) : link \in access}

LEMMA SharedAlone ==
  ASSUME GInv, VInv, Elected, NEW o \in ReverseSeeds, NEW access \in SUBSET [stop : Stops, duration : Nat]
  PROVE  /\ \A c \in Shared(access, o) \cup AskedAlone(access, o) : IsCandidate(c, Deadline)
         /\ AllAsEarly(AskedAlone(access, o), Shared(access, o))
         /\ AllAsEarly(Shared(access, o), AskedAlone(access, o))
<1>1. q \in Queries /\ q.use \notin {"depart", "matrix"} /\ Deadline \in Nat /\ q.rounds \in Nat
  BY DeadlineTime, RoundNumbers DEF GInv, ReverseTypeOK, Elected
<1>2. \A link \in access : link.stop \in Stops /\ link.duration \in Nat
  OBVIOUS
<1> DEFINE C(k) == ContinuationsTo(LinksOf(o))[k]
           alone(k, link) == {Candidate(y.departure - link.duration, k, y.achieved) :
                                y \in {y \in C(k) : y.stop = link.stop /\ link.duration <= y.departure}}
           from(link) == Composed(link, {x \in States(link.stop) : x.seed = o})
<1>3. AskedAlone(access, o) = UNION {alone(k, link) : k \in 1 .. q.rounds, link \in access}
  BY DEF AskedAlone
<1>4. Shared(access, o) = UNION {from(link) : link \in access}
  BY DEF Shared
<1>5. ASSUME NEW c \in AskedAlone(access, o)
      PROVE  /\ IsCandidate(c, Deadline)
             /\ \E b \in Shared(access, o) : AsEarly(b, c)
  <2>1. PICK k \in 1 .. q.rounds, link \in access : c \in alone(k, link)
    <3> HIDE DEF alone
    <3> QED BY <1>3
  <2>2. PICK y \in C(k) : y.stop = link.stop /\ link.duration <= y.departure
                          /\ c = Candidate(y.departure - link.duration, k, y.achieved)
    BY <2>1
  <2>3. c.departure = y.departure - link.duration /\ c.rides = k /\ c.achieved = y.achieved
    BY <2>2 DEF Candidate
  <2>4. /\ y.stop \in Stops /\ y.departure \in 0 .. Deadline /\ y.achieved \in 0 .. Deadline
        /\ \E x \in States(y.stop) :
             x.rides = k /\ x.seed = o /\ x.departure >= y.departure /\ x.achieved <= y.achieved
    BY ContinuationState
  <2>5. PICK x \in States(link.stop) :
          x.rides = k /\ x.seed = o /\ x.departure >= y.departure /\ x.achieved <= y.achieved
    BY <2>2, <2>4
  <2>6. x.departure \in 0 .. Deadline /\ x.achieved \in 0 .. Deadline
    BY <1>2, <2>5, StateContinues
  <2>7. link.duration <= x.departure /\ link.duration \in Nat /\ y.departure - link.duration \in 0 .. Deadline
        /\ x.departure - link.duration >= y.departure - link.duration
    BY <1>1, <1>2, <2>2, <2>4, <2>5, <2>6
  <2>8. PICK b \in from(link) : b.departure = x.departure - link.duration /\ b.rides = x.rides /\ b.achieved = x.achieved
    <3> DEFINE mine == {z \in States(link.stop) : z.seed = o}
    <3>1. x \in mine
      BY <2>5
    <3> HIDE DEF mine
    <3>2. \E b \in Composed(link, mine) : b.departure = x.departure - link.duration /\ b.rides = x.rides /\ b.achieved = x.achieved
      BY <2>7, <3>1, ComposedIn
    <3> QED BY <3>2 DEF mine
  <2>9. b \in Shared(access, o)
    <3> HIDE DEF from
    <3> QED BY <1>4
  <2>10. AsEarly(b, c)
    <3>1. k <= k
      BY <1>1
    <3> QED BY <2>3, <2>5, <2>7, <2>8, <3>1 DEF AsEarly
  <2>11. IsCandidate(c, Deadline)
    <3>1. k \in Nat /\ y.achieved \in Nat
      BY <1>1, <2>4
    <3> QED BY <2>2, <2>3, <2>7, <3>1 DEF IsCandidate, Timed
  <2> QED BY <2>9, <2>10, <2>11
<1>6. ASSUME NEW c \in Shared(access, o)
      PROVE  IsCandidate(c, Deadline) /\ c \in AskedAlone(access, o)
  <2>1. PICK link \in access : c \in from(link)
    <3> HIDE DEF from
    <3> QED BY <1>4
  <2>2. PICK x \in {x \in States(link.stop) : x.seed = o} :
          /\ link.duration <= x.departure
          /\ c.departure = x.departure - link.duration /\ c.rides = x.rides /\ c.achieved = x.achieved
    BY <2>1, ComposedOf
  <2>3. c = Candidate(c.departure, c.rides, c.achieved)
    BY <2>1, ComposedOf
  <2>4. /\ x.rides \in 1 .. q.rounds /\ x.departure \in 0 .. Deadline /\ x.achieved \in 0 .. Deadline
        /\ [stop |-> link.stop, departure |-> x.departure, achieved |-> x.achieved] \in C(x.rides)
    BY <1>2, <2>2, StateContinues
  <2>5. c \in alone(x.rides, link)
    <3> DEFINE y == [stop |-> link.stop, departure |-> x.departure, achieved |-> x.achieved]
    <3>1. y.stop = link.stop /\ y.departure = x.departure /\ y.achieved = x.achieved
      OBVIOUS
    <3>2. y \in C(x.rides)
      BY <2>4
    <3> HIDE DEF y, C
    <3> QED BY <2>2, <2>3, <3>1, <3>2
  <2>6. c \in AskedAlone(access, o)
    <3> HIDE DEF alone
    <3> QED BY <1>3, <2>4, <2>5
  <2>7. x.departure - link.duration \in 0 .. Deadline /\ x.rides \in Nat /\ x.achieved \in Nat
    BY <1>1, <1>2, <2>2, <2>4
  <2> QED BY <2>2, <2>3, <2>6, <2>7 DEF IsCandidate, Timed
<1>7. \A c \in Shared(access, o) : AsEarly(c, c)
  <2>1. \A c : IsCandidate(c, Deadline) => AsEarly(c, c)
    BY <1>1 DEF IsCandidate, Timed, AsEarly
  <2> QED BY <1>6, <2>1
<1> QED BY <1>5, <1>6, <1>7 DEF AllAsEarly

\* Nearest's destination is the first of the shortest.
LEMMA NearestIs ==
  ASSUME NEW to, NEW n \in Nat, Destinations \subseteq Nat,
         \A o \in Destinations : \A c \in to[o] : IsCandidate(c, n)
  PROVE  LET reached == {o \in Destinations : to[o] # {}}
             length(o) == Duration(Winner(to[o]))
         IN  /\ Nearest(to) = {} => reached = {}
             /\ \A a \in Nearest(to) :
                  /\ a.destination \in reached /\ a.duration = length(a.destination)
                  /\ \A o \in reached : a.duration <= length(o)
                  /\ \A o \in reached : o < a.destination => a.duration < length(o)
<1> DEFINE reached == {o \in Destinations : to[o] # {}}
           length(o) == Duration(Winner(to[o]))
           lengths == {length(o) : o \in reached}
           shortest == Min(lengths)
           first == {o \in reached : length(o) = shortest}
<1>1. Range([o \in reached |-> length(o)]) = lengths
  BY DEF Range
<1>2. Nearest(to) = IF reached = {} THEN {} ELSE {[destination |-> Min(first), duration |-> shortest]}
  <2> DEFINE duration == [o \in reached |-> length(o)]
             quickest == Min(Range(duration))
  <2>1. Nearest(to) = IF reached = {} THEN {}
                      ELSE {[destination |-> Min({o \in reached : duration[o] = quickest}), duration |-> quickest]}
    BY DEF Nearest
  <2>2. quickest = shortest
    BY <1>1
  <2>3. {o \in reached : duration[o] = quickest} = first
    BY <2>2
  <2> HIDE DEF duration, quickest, first, reached, shortest
  <2> QED BY <2>1, <2>2, <2>3
<1>3. \A o \in reached : length(o) \in Int /\ length(o) >= -n
  <2>1. ASSUME NEW o \in reached PROVE length(o) \in Int /\ length(o) >= -n
    <3>1. Winner(to[o]) \in to[o]
      BY WinnerIs
    <3>2. IsCandidate(Winner(to[o]), n)
      BY <3>1
    <3> QED BY <3>2 DEF IsCandidate, Timed, Duration
  <2> QED BY <2>1
<1> HIDE DEF length
<1>4. CASE reached = {}
  BY <1>2, <1>4 DEF length
<1>5. CASE reached # {}
  <2>1. lengths \in SUBSET Int /\ lengths # {} /\ \A i \in lengths : i >= -n
    BY <1>3, <1>5
  <2>2. shortest \in lengths /\ \A i \in lengths : shortest <= i
    <3> HIDE DEF lengths
    <3> QED BY <2>1, LeastOf
  <2>3. first \in SUBSET Nat /\ first # {}
    BY <2>2
  <2>4. PICK f : f = Min(first)
    OBVIOUS
  <2>5. f \in first /\ \A o \in first : f <= o
    <3> HIDE DEF first
    <3> QED BY <2>3, <2>4, MinIs
  <2>6. f \in reached /\ f \in Nat /\ length(f) = shortest /\ \A o \in reached : shortest <= length(o)
    BY <2>2, <2>5
  <2>7. ASSUME NEW o \in reached, o < f PROVE shortest < length(o)
    <3>1. \A i, j \in Nat : i < j => ~(j <= i)
      OBVIOUS
    <3>2. o \in Nat
      OBVIOUS
    <3>3. ~(f <= o)
      <4> HIDE DEF first
      <4> QED BY <2>6, <2>7, <3>1, <3>2
    <3>4. length(o) # shortest
      BY <2>5, <3>3
    <3>5. length(o) \in Int /\ length(f) \in Int
      BY <1>3, <2>6
    <3> HIDE DEF shortest
    <3> QED BY <2>6, <3>4, <3>5
  <2>8. Nearest(to) = {[destination |-> f, duration |-> shortest]}
    BY <1>2, <1>5, <2>4
  <2> HIDE DEF reached, shortest, first, lengths
  <2>9. ASSUME NEW a \in Nearest(to) PROVE a.destination = f /\ a.duration = shortest
    BY <2>8
  <2>10. Nearest(to) # {}
    BY <2>8
  <2> QED BY <2>6, <2>7, <2>9, <2>10 DEF length, reached
<1> QED BY <1>4, <1>5


LEMMA NearestAgrees == GInv /\ VInv /\ AInv /\ phase = "answered" /\ q.use = "nearest" => NearestAlone
<1> SUFFICES ASSUME GInv, VInv, AInv, phase = "answered", q.use = "nearest" PROVE NearestAlone
  OBVIOUS
<1>1. answers = Nearest([o \in Destinations |-> CandidatesTo(o)]) /\ Elected
  BY DEF AInv, Elected
<1>2. q \in Queries /\ q.use \notin {"depart", "matrix"} /\ Deadline \in Nat
  BY DeadlineTime DEF GInv, ReverseTypeOK
<1>3. WellFormedArriveBy(q) /\ q.access \in SUBSET [stop : Stops, duration : Nat] /\ Unreached \in Nat
  BY <1>2, ArriveByAssumption, QueriesAssumption, TimeAssumption DEF WellFormedRequest
<1>4. Destinations \subseteq Nat /\ Destinations \subseteq ReverseSeeds /\ \A o \in Destinations : q.walks[o] \in Nat
  BY <1>3 DEF WellFormedArriveBy, Destinations, ReverseSeeds
<1> DEFINE to == [o \in Destinations |-> CandidatesTo(o)]
           alone == [o \in Destinations |-> AskedAlone(q.access, o) \cup Placed(q.walks[o], Deadline)]
<1>5. ASSUME NEW o \in Destinations
      PROVE  /\ \A c \in to[o] : IsCandidate(c, Deadline)
             /\ to[o] = {} <=> alone[o] = {}
             /\ to[o] # {} => Winner(to[o]) = Winner(alone[o])
  <2> DEFINE placed == Placed(q.walks[o], Deadline)
             A == Shared(q.access, o)
             B == AskedAlone(q.access, o)
  <2>1. to[o] = A \cup placed /\ alone[o] = B \cup placed
    BY DEF CandidatesTo, Shared
  <2>2. \A c \in placed : IsCandidate(c, Deadline)
    BY <1>2, <1>4, PlacedIs
  <2>3. (\A c \in A \cup B : IsCandidate(c, Deadline)) /\ AllAsEarly(B, A) /\ AllAsEarly(A, B)
    BY <1>1, <1>3, <1>4, SharedAlone
  <2> HIDE DEF placed, A, B, to, alone
  <2>4. AllAsEarly(A \cup placed, B \cup placed) /\ AllAsEarly(B \cup placed, A \cup placed)
    BY <1>2, <2>2, <2>3, AsEarlyWith
  <2>5. \A c \in (A \cup placed) \cup (B \cup placed) : IsCandidate(c, Deadline)
    BY <2>2, <2>3
  <2> QED BY <1>2, <2>1, <2>4, <2>5, SameWinner
<1> DEFINE reached == {o \in Destinations : to[o] # {}}
           length(o) == Duration(Winner(to[o]))
<1>6. /\ Nearest(to) = {} => reached = {}
      /\ \A a \in Nearest(to) :
           /\ a.destination \in reached /\ a.duration = length(a.destination)
           /\ \A o \in reached : a.duration <= length(o)
           /\ \A o \in reached : o < a.destination => a.duration < length(o)
  <2> HIDE DEF to
  <2> QED BY <1>2, <1>4, <1>5, NearestIs
<1>7. answers = Nearest(to)
  BY <1>1
<1> HIDE DEF to
<1>8. {o \in Destinations : alone[o] # {}} = reached
  BY <1>5
<1>9. [o \in {o \in Destinations : alone[o] # {}} |-> Duration(Winner(alone[o]))] = [o \in reached |-> length(o)]
  <2>1. \A o \in reached : Duration(Winner(alone[o])) = length(o)
    <3>1. \A o \in reached : Winner(to[o]) = Winner(alone[o])
      BY <1>5
    <3> HIDE DEF reached, alone
    <3> QED BY <3>1
  <2> HIDE DEF reached, length, alone
  <2> QED BY <1>8, <2>1
<1>10. NearestAlone <=>
         LET alones == {o \in Destinations : alone[o] # {}}
             duration == [o \in alones |-> Duration(Winner(alone[o]))]
         IN  /\ answers = {} => alones = {}
             /\ \A a \in answers :
                  /\ a.destination \in alones
                  /\ a.duration = duration[a.destination]
                  /\ \A o \in alones : a.duration <= duration[o]
                  /\ \A o \in alones : o < a.destination => a.duration < duration[o]
  BY DEF NearestAlone
<1> HIDE DEF alone, reached, length
<1> QED BY <1>6, <1>7, <1>8, <1>9, <1>10

LEMMA TimesAgree == GInv /\ VInv /\ AInv /\ phase = "answered" /\ q.use = "times" => TimesAlone
<1> SUFFICES ASSUME GInv, VInv, AInv, phase = "answered", q.use = "times" PROVE TimesAlone
  OBVIOUS
<1>1. answers = WinnersByStop /\ Elected
  BY DEF AInv, Elected
<1>2. q \in Queries /\ q.use \notin {"depart", "matrix"} /\ Deadline \in Nat
  BY DeadlineTime DEF GInv, ReverseTypeOK
<1>3. AnySeed \in ReverseSeeds
  BY DEF ReverseSeeds
<1>4. ASSUME NEW s \in Stops, NEW x \in States(s) PROVE x.seed = AnySeed
  <2>1. x.rides \in 1 .. q.rounds /\ ContinuationsTo(LinksOf(x.seed))[x.rides] # {}
    BY <1>1, StateContinues
  <2>2. LinksOf(x.seed) # {}
    BY <1>2, <2>1, NowhereTo
  <2> QED BY <2>2 DEF LinksOf, SeedOf
<1>5. ASSUME NEW s \in Stops
      PROVE  LET alone == AskedAlone({[stop |-> s, duration |-> 0]}, AnySeed) \cup WalkingOnly(s)
             IN  /\ TimesFrom(s) = {} <=> alone = {}
                 /\ TimesFrom(s) # {} => Winner(TimesFrom(s)) = Winner(alone)
  <2> DEFINE here == [stop |-> s, duration |-> 0]
             walking == WalkingOnly(s)
             A == Shared({here}, AnySeed)
             B == AskedAlone({here}, AnySeed)
  <2>1. A = Composed(here, States(s))
    <3>1. {x \in States(s) : x.seed = AnySeed} = States(s)
      BY <1>4
    <3>2. here.stop = s
      OBVIOUS
    <3>3. A = Composed(here, {x \in States(here.stop) : x.seed = AnySeed})
      <4> HIDE DEF here
      <4> QED BY DEF Shared
    <3> HIDE DEF A, here
    <3> QED BY <3>1, <3>2, <3>3
  <2>2. TimesFrom(s) = A \cup walking
    BY <2>1 DEF TimesFrom
  <2>3. \A c \in walking : IsCandidate(c, Deadline)
    <3>1. \A e \in q.egress : e.duration \in Nat
      BY <1>2, QueriesAssumption DEF WellFormedRequest
    <3>2. \A c \in walking : \E e \in q.egress : c \in Placed(e.duration, Deadline)
      BY DEF WalkingOnly
    <3> HIDE DEF walking
    <3> QED BY <1>2, <3>1, <3>2, PlacedIs
  <2>4. {here} \in SUBSET [stop : Stops, duration : Nat]
    OBVIOUS
  <2> HIDE DEF here
  <2>5. (\A c \in A \cup B : IsCandidate(c, Deadline)) /\ AllAsEarly(B, A) /\ AllAsEarly(A, B)
    BY <1>1, <1>3, <2>4, SharedAlone
  <2> HIDE DEF walking, A, B
  <2>6. AllAsEarly(A \cup walking, B \cup walking) /\ AllAsEarly(B \cup walking, A \cup walking)
    BY <1>2, <2>3, <2>5, AsEarlyWith
  <2>7. \A c \in (A \cup walking) \cup (B \cup walking) : IsCandidate(c, Deadline)
    BY <2>3, <2>5
  <2>8. (A \cup walking = {} <=> B \cup walking = {}) /\ (A \cup walking # {} => Winner(A \cup walking) = Winner(B \cup walking))
    BY <1>2, <2>6, <2>7, SameWinner
  <2> QED BY <2>2, <2>8 DEF walking, B, here
<1>6. ASSUME NEW s \in Stops
      PROVE  {a.winner : a \in {a \in answers : a.stop = s}} = IF TimesFrom(s) = {} THEN {} ELSE {Winner(TimesFrom(s))}
  <2> DEFINE quickest(u) == Winner(TimesFrom(u))
             item(u) == [stop |-> u, winner |-> quickest(u)]
  <2>1. answers = {item(u) : u \in {u \in Stops : TimesFrom(u) # {}}}
    BY <1>1 DEF WinnersByStop
  <2>2. \A u : item(u).stop = u /\ item(u).winner = quickest(u)
    OBVIOUS
  <2> HIDE DEF item, quickest
  <2>3. \A a \in answers : a.stop = s => TimesFrom(s) # {} /\ a.winner = quickest(s)
    BY <2>1, <2>2
  <2>4. TimesFrom(s) # {} => item(s) \in {a \in answers : a.stop = s}
    BY <2>1, <2>2
  <2>5. {a.winner : a \in {a \in answers : a.stop = s}} = IF TimesFrom(s) = {} THEN {} ELSE {quickest(s)}
    BY <2>2, <2>3, <2>4
  <2> QED BY <2>5 DEF quickest
<1>7. ASSUME NEW s \in Stops
      PROVE  LET alone == AskedAlone({[stop |-> s, duration |-> 0]}, AnySeed) \cup WalkingOnly(s)
             IN  {a.winner : a \in {a \in answers : a.stop = s}} = IF alone = {} THEN {} ELSE {Winner(alone)}
  <2> DEFINE alone == AskedAlone({[stop |-> s, duration |-> 0]}, AnySeed) \cup WalkingOnly(s)
  <2>1. /\ TimesFrom(s) = {} <=> alone = {}
        /\ TimesFrom(s) # {} => Winner(TimesFrom(s)) = Winner(alone)
    BY <1>5
  <2> HIDE DEF alone
  <2>2. {a.winner : a \in {a \in answers : a.stop = s}} = IF alone = {} THEN {} ELSE {Winner(alone)}
    BY <1>6, <2>1
  <2> QED BY <2>2 DEF alone
<1> QED BY <1>7 DEF TimesAlone

\* Once an arrive-by query is answered, the answer is what the forward engine
\* would answer for the mark, but for detours that walking makes needless; and
\* a fast path answers each destination, or origin, as if asked about it alone:
\* for any timetable, window of marks and access and egress tables.
THEOREM ReverseAnswersExact == ReverseSpec => []AnswersExact
<1>1. GInv /\ VInv /\ AInv => FastPathsAgree
  BY NearestAgrees, TimesAgree DEF FastPathsAgree
<1>2. GInv /\ VInv /\ AInv => AnswersExact
  BY <1>1, DetoursOnly, NoneLost DEF AnswersExact
<1> QED BY <1>2, GenuineAlways, NoneMissingAlways, AnswersAlways, PTL
=============================================================================
