------------------------------ MODULE TripMatrix ----------------------------
(***************************************************************************)
(* The scan behind the trip-based cost matrices (cafein-core,              *)
(* routers/tbtr/matrix.rs, tokens.rs): TripBased's scan without a          *)
(* destination, which records for every stop the arrival with exactly so   *)
(* many rides and the chain that won it, and of two chains that arrive     *)
(* together keeps the canonical one (routers/path_key.rs).                 *)
(***************************************************************************)
EXTENDS TripBased

VARIABLES
  tau,       \* tau[s][k]: the arrival at s that k rides last improved
  winners,   \* winners[s][k]: what reaches s then
  pending    \* pending[v][r]: the unscanned segment of v in round r, or 0

recorded == <<tau, winners, pending>>
unused == <<transit_best, joined, thresholds, journeys>>

----------------------------------------------------------------------------
(* Chains (tokens.rs): destination first, a ride before a walk before an  *)
(* access link.                                                           *)

WalkDuration(from, to) == (CHOOSE e \in q.transfers : e.from = from /\ e.to = to).duration
RideKey(v, board, alight) == <<0, v.trip, DayOffset(v.stream), board, alight>>
WalkKey(from, to) == IF from = to THEN <<>> ELSE <<1, from, to, WalkDuration(from, to)>>
AccessChain(link, departure) == [root |-> departure, tokens |-> <<2, link.stop, link.duration>>]

\* The chain behind the boarding of each segment of arena a.
Chains(a) ==
  LET chain[i \in DOMAIN a] ==
        LET o == a[i].origin IN
        IF o.kind = "access" THEN AccessChain(o.link, o.departure)
        ELSE [root |-> chain[o.parent].root,
              tokens |-> WalkKey(StopsOf(a[o.parent].trip)[o.alight], StopsOf(a[i].trip)[a[i].board])
                           \o RideKey(a[o.parent].trip, a[o.parent].board, o.alight)
                           \o chain[o.parent].tokens]
  IN  chain
Ridden(a, i, alight) ==
  LET c == Chains(a)[i]
  IN  [root |-> c.root, tokens |-> RideKey(a[i].trip, a[i].board, alight) \o c.tokens]
ChainOf(a, s, w) ==
  IF w.kind = "access" THEN AccessChain(w.link, w.departure)
  ELSE LET ridden == Ridden(a, w.segment, w.alight)
       IN  [root |-> ridden.root,
            tokens |-> WalkKey(StopsOf(a[w.segment].trip)[w.alight], s) \o ridden.tokens]

Smaller(a, b) ==
  \E i \in 1 .. Len(a) : i <= Len(b) /\ a[i] < b[i] /\ SubSeq(a, 1, i - 1) = SubSeq(b, 1, i - 1)
Wins(challenger, incumbent) ==
  \/ challenger.root > incumbent.root
  \/ challenger.root = incumbent.root /\ Smaller(challenger.tokens, incumbent.tokens)

AccessWinner(link, departure) == [kind |-> "access", link |-> link, departure |-> departure]
AlightWinner(i, alight) == [kind |-> "alight", segment |-> i, alight |-> alight]
WalkedWinner(i, alight) == [kind |-> "walked", segment |-> i, alight |-> alight]

----------------------------------------------------------------------------
(* Admission: strictly earlier, or as early over the canonical chain.     *)

TieWins(w, s, k, time, winner) ==
  /\ time = w.tau[s][k] /\ time < Unreached
  /\ Wins(ChainOf(w.arena, s, winner), ChainOf(w.arena, s, w.winners[s][k]))
Recorded(w, s, k, time, winner) ==
  [w EXCEPT !.tau[s][k] = time, !.winners[s][k] = winner]
\* Round r's scan writes slot r + 1 and lowers the labels of r and later.
Admits(w, s, time, r, winner) == Improves(w.labels, s, time, r) \/ TieWins(w, s, r + 1, time, winner)
Admit(w, s, time, r, winner) ==
  [Recorded(w, s, r + 1, time, winner) EXCEPT !.labels = Improved(w.labels, s, time, r)]

RelaxWalks(w, s, time, r, i, alight) ==
  FoldLeft(LAMBDA u, e :
             LET at == time + e.duration IN
             IF Admits(u, e.to, at, r, WalkedWinner(i, alight))
               THEN [Admit(u, e.to, at, r, WalkedWinner(i, alight)) EXCEPT
                       !.walked = Insert(@, [stop |-> e.to])]
               ELSE u,
           w, SetToSortSeq(FootpathsFrom(q.transfers, s), LAMBDA e, f : e.to < f.to))

\* When the chain behind a boarding is at the stop it boards at.
OriginReady(a, segment) ==
  LET o == segment.origin IN
  IF o.kind = "access" THEN o.departure + o.link.duration
  ELSE LET from == StopsOf(a[o.parent].trip)[o.alight]
           at == StopsOf(segment.trip)[segment.board]
       IN  Arrive(a[o.parent].trip, o.alight) + IF from = at THEN 0 ELSE WalkDuration(from, at)

\* An equal boarding of a segment nobody has scanned yet takes its place if
\* its chain is there first, or is canonical.
Replaces(a, segment, owner) ==
  \/ OriginReady(a, segment) < OriginReady(a, a[owner])
  \/ /\ OriginReady(a, segment) = OriginReady(a, a[owner])
     /\ LET with == Chains(Append(a, segment)) IN Wins(with[Len(a) + 1], with[owner])

EnqueueMatrix(w, r, segment) ==
  LET horizon == w.reached[segment.trip][r]
      owner == w.pending[segment.trip][r]
      closed == ReachedFrom(w.reached, segment.trip, r, segment.board)
  IN  IF segment.board > horizon THEN w
      ELSE IF segment.board = horizon THEN
        IF owner # 0 /\ w.arena[owner].board = segment.board /\ Replaces(w.arena, segment, owner)
          THEN [w EXCEPT !.arena[owner] = segment] ELSE w
      ELSE IF owner # 0 THEN [w EXCEPT !.arena[owner] = segment, !.reached = closed]
      ELSE [w EXCEPT !.reached = closed,
                     !.arena = Append(@, segment),
                     !.queue = Append(@, [segment |-> Len(w.arena) + 1, end |-> horizon]),
                     !.pending[segment.trip][r] = Len(w.arena) + 1]
BoardAll(w, r, transfers, origin) ==
  FoldLeft(LAMBDA u, x : EnqueueMatrix(u, r, [trip |-> x.trip, board |-> x.position, origin |-> origin]),
           w, transfers)

Tables == [labels |-> labels, tau |-> tau, winners |-> winners, walked |-> walked,
           reached |-> reached, arena |-> arena, queue |-> queue, pending |-> pending]
SetTables(w) ==
  /\ labels' = w.labels /\ tau' = w.tau /\ winners' = w.winners /\ walked' = w.walked
  /\ reached' = w.reached /\ arena' = w.arena /\ queue' = w.queue /\ pending' = w.pending

----------------------------------------------------------------------------
(* matrix_pass.                                                           *)

NoWinner == [kind |-> "unreached"]
MatrixInit ==
  /\ Init
  /\ tau = [s \in Stops |-> [k \in 0 .. q.rounds |-> Unreached]]
  /\ winners = [s \in Stops |-> [k \in 0 .. q.rounds |-> NoWinner]]
  /\ pending = [v \in View |-> [r \in Scans |-> 0]]

Leave(w, departure, a) ==
  LET time == departure + a.duration
      lower == [w EXCEPT !.labels = Improved(w.labels, a.stop, time, 0)]
  IN  IF time < w.tau[a.stop][0] \/ TieWins(w, a.stop, 0, time, AccessWinner(a, departure))
        THEN Recorded(lower, a.stop, 0, time, AccessWinner(a, departure)) ELSE lower
SeedMatrix(w, departure, a) ==
  BoardAll(w, 0, InServedOrder(Boardings(a.stop, departure + a.duration)),
           [kind |-> "access", link |-> a, departure |-> departure])
StartMatrixPass ==
  /\ pc = "pass" /\ pass < Len(q.departures)
  /\ pass' = pass + 1 /\ round' = 0
  /\ LET departure == q.departures[pass + 1]
         left == FoldLeft(LAMBDA w, a : Leave(w, departure, a), Tables, Access)
     IN  SetTables(FoldLeft(LAMBDA w, a : SeedMatrix(w, departure, a), left, Access))
  /\ pc' = "round"
  /\ UNCHANGED <<given, unused, segments, current, position>>

\* The drained queue's segments stop being pending.
StartMatrixRound ==
  /\ pc = "round" /\ round < q.rounds /\ queue # <<>>
  /\ segments' = queue /\ queue' = <<>> /\ walked' = <<>>
  /\ pending' = [v \in View |->
       [pending[v] EXCEPT ![round] = IF \E i \in DOMAIN queue : arena[queue[i].segment].trip = v THEN 0 ELSE @]]
  /\ pc' = "scan"
  /\ UNCHANGED <<given, unused, pass, round, reached, arena, current, position, labels, tau, winners>>

EndMatrixPass == EndPass /\ UNCHANGED recorded

ScanMatrixSegment ==
  /\ pc = "scan" /\ segments # <<>>
  /\ current' = [segment |-> Head(segments).segment, last |-> LastAlight(Head(segments)), bar |-> Unreached]
  /\ position' = arena[Head(segments).segment].board + 1
  /\ segments' = Tail(segments)
  /\ pc' = "alight"
  /\ UNCHANGED <<given, unused, recorded, pass, round, reached, arena, queue, labels, walked>>

MatrixAlight ==
  /\ pc = "alight" /\ position <= current.last
  /\ LET i == current.segment
         trip == arena[i].trip
         stop == StopsOf(trip)[position]
         time == Arrive(trip, position)
         admitted ==
           IF Admits(Tables, stop, time, round, AlightWinner(i, position))
             THEN RelaxWalks(Admit(Tables, stop, time, round, AlightWinner(i, position)),
                             stop, time, round, i, position)
             ELSE Tables
     IN  SetTables(IF round + 1 < q.rounds
                     THEN BoardAll(admitted, round + 1, set[trip][position],
                                   [kind |-> "transfer", parent |-> i, alight |-> position])
                     ELSE admitted)
  /\ position' = position + 1
  /\ UNCHANGED <<given, unused, pc, pass, round, segments, current>>

EndMatrixSegment == EndSegment /\ UNCHANGED recorded

\* Board from each walked stop's winner of now, if it still is a walk.
BoardWalked(w, x) ==
  LET winner == w.winners[x.stop][round + 1] IN
  IF winner.kind # "walked" THEN w
  ELSE BoardAll(w, round + 1, InServedOrder(Boardings(x.stop, w.tau[x.stop][round + 1])),
                [kind |-> "transfer", parent |-> winner.segment, alight |-> winner.alight])
EndMatrixRound ==
  /\ pc = "scan" /\ segments = <<>>
  /\ SetTables(IF round + 1 < q.rounds THEN FoldLeft(BoardWalked, Tables, walked) ELSE Tables)
  /\ round' = round + 1
  /\ pc' = "round"
  /\ UNCHANGED <<given, unused, pass, segments, current, position>>

MatrixNext ==
  \/ StartMatrixPass \/ StartMatrixRound \/ EndMatrixPass
  \/ ScanMatrixSegment \/ MatrixAlight \/ EndMatrixSegment \/ EndMatrixRound

ScansNext == (mode # "matrix" /\ Next /\ UNCHANGED recorded) \/ (mode = "matrix" /\ MatrixNext) \/ (Done /\ UNCHANGED recorded)

----------------------------------------------------------------------------
(* Properties.                                                            *)

MatrixPassEnded == mode = "matrix" /\ PassEnded

\* The earliest arrival the tables hold with at most k rides.
ByRides(k, s) == Min({tau[s][j] : j \in 0 .. k})

\* After every pass the rounds hold the earliest arrivals, whatever the
\* footpaths: "the engines relax it with the exact transfer phase" (of a set
\* that is not closed, network.rs set_transfers).
MatrixExact ==
  MatrixPassEnded =>
    LET earliest == Earliest(q, Departed) IN
    \A s \in Stops, k \in 0 .. q.rounds : ByRides(k, s) = earliest[k][s]

\* The earliest arrivals of journeys in which a ride walks on only from stops
\* that nobody is at on foot as early: what is left once walks shadow rides.
EarliestAt(arrivals, s) == Min({Unreached} \cup {x[2] : x \in {x \in arrivals : x[1] = s}})
Afoot(earliest, k) ==
  LET walks == WalkArrivals(q, RideArrivals(q, earliest[k - 1]))
  IN  Tabled([s \in Stops |-> Min({earliest[0][s], EarliestAt(walks, s)})])
UnshadowedStep(before, afoot) ==
  LET rides == RideArrivals(q, before)
      arrivals == rides \cup WalkArrivals(q, {x \in rides : x[2] < afoot[x[1]]})
  IN  Tabled([s \in Stops |-> Min({before[s], EarliestAt(arrivals, s)})])
Unshadowed(earliest) ==
  LET found[k \in 0 .. q.rounds] ==
        IF k = 0 THEN earliest[0] ELSE UnshadowedStep(found[k - 1], Afoot(earliest, k))
  IN  Tabled(found)

\* Walks or not, no arrival is too early and every boarding can be made; and
\* all that is missed is behind a ride that got to a stop no sooner than
\* somebody on foot: matrix_pass walks on only "from arrivals that improve the
\* stop's at-most-round label".
MatrixBounded ==
  MatrixPassEnded =>
    /\ \A i \in DOMAIN arena : OriginReady(arena, arena[i]) <= Depart(arena[i].trip, arena[i].board)
    /\ LET earliest == Earliest(q, Departed)
           found == Unshadowed(earliest)
       IN  \A s \in Stops, k \in 0 .. q.rounds : ByRides(k, s) \in earliest[k][s] .. found[k][s]

\* The rides that end a chain of k rides at s at the recorded arrival.
Rivals(k, s) ==
  {r \in PossibleRides(q) :
     /\ AlightedAt(q, r) = tau[s][k] /\ StopAt(q, r, r.alight) = s
     /\ tau[StopAt(q, r, r.board)][k - 1] <= BoardedAt(q, r)}
RivalChain(k, r) ==
  LET behind == ChainOf(arena, StopAt(q, r, r.board), winners[StopAt(q, r, r.board)][k - 1])
  IN  [root |-> behind.root, tokens |-> RideKey(r, r.board, r.alight) \o behind.tokens]

\* Of a closed set the tables are exact, and the chain a slot stands for is
\* the canonical one: no ride that arrives with it, behind the chain of its
\* boarding stop, would win, although trips are not met in RAPTOR's order;
\* and a ride of this pass stands on that chain, not on another one that
\* happened to board the trip first.
ClosedMatrixCanonical ==
  MatrixPassEnded /\ q.closed =>
    /\ MatrixExact
    /\ \A k \in 1 .. q.rounds, s \in Stops : tau[s][k] < Unreached =>
         LET chain == ChainOf(arena, s, winners[s][k])
             rivals == {RivalChain(k, r) : r \in Rivals(k, s)}
         IN  /\ \A r \in rivals : ~Wins(r, chain)
             /\ winners[s][k].kind = "alight" /\ chain.root = q.departures[pass] => chain \in rivals
=============================================================================
