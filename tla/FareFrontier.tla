---------------------------- MODULE FareFrontier ----------------------------
(***************************************************************************)
(* The (time, fare) frontier under a rule-based tariff (cafein-core,       *)
(* fares.rs and routers/fare_frontier.rs): labels carry what they have     *)
(* paid and all that a later fare may still depend on, and one label may   *)
(* stand for another only if no journey from there could be cheaper.       *)
(*                                                                         *)
(* Money is in whole units.  One thread goes through the phases of a round *)
(* in a fixed order; an action is a phase, or the scan of one pattern.  An *)
(* option of the code is a set of one value at most.                       *)
(***************************************************************************)
EXTENDS Itineraries

CONSTANT Queries
  \* the instances: a timetable with a route per pattern, footpaths, access
  \* links, departures in descending order; per slot its egress links and the
  \* walk to it; a tariff, ascending cutoffs, a budget of time, the discipline

VARIABLES
  q,           \* the instance
  pc,          \* which phase
  pass, round, \* index into q.departures; rides taken by the labels being made
  gates,       \* what the tariff allows dominance to compare
  purses,      \* purses[s]: the bag of labels at s, over all passes
  marks,       \* the stops with a label since the last round
  lines,       \* the patterns queued, each with the position to scan from
  found,       \* where the riders of a round alight
  transit,     \* [at, touched]: on unclosed footpaths, the round's rides alone
  rows         \* rows[x]: what slot x is offered

fareVars == <<q, pc, pass, round, gates, purses, marks, lines, found, transit, rows>>

Departure == q.departures[pass]
Tariff == q.tariff

----------------------------------------------------------------------------
(* The rule-based calculator, boarding by boarding (fares.rs).             *)

Priceable(r) == r \in DOMAIN Tariff.fare
Kind(r) == Tariff.kind[r]
FullFares(k) == {Tariff.fare[r] : r \in {r \in DOMAIN Tariff.fare : Kind(r) = k}}

\* A fare's state: paid so far; type, route, full fare and time of the last
\* boarding that counts; discounts spent.
State(total, r, at, discounts) ==
  [total |-> total, kind |-> Kind(r), route |-> r, fare |-> Tariff.fare[r], board |-> at, discounts |-> discounts]
BoardFirst(r, at) == IF Priceable(r) THEN {State(Tariff.fare[r], r, at, 0)} ELSE {}
RidesFree(s, r) == Kind(r) = s.kind /\ s.kind \in Tariff.unlimited
Integrates(s, r, at) ==
  /\ s.discounts < Tariff.max_discounts
  /\ <<s.kind, Kind(r)>> \in DOMAIN Tariff.pair
  /\ Kind(r) # s.kind \/ Kind(r) \in Tariff.same_route \/ r # s.route
  /\ at - s.board <= Tariff.allowance
BoardNext(s, r, at) ==
  IF ~Priceable(r) THEN {}
  ELSE IF RidesFree(s, r) THEN {[s EXCEPT !.route = r, !.fare = Tariff.fare[r]]}
  ELSE IF Integrates(s, r, at)
    THEN {State(s.total + Tariff.pair[<<s.kind, Kind(r)>>] - s.fare, r, at, s.discounts + 1)}
  ELSE {State(s.total + Tariff.fare[r], r, at, s.discounts)}
Capped(total) == Min({total, Tariff.cap})

\* max_discount_margin: the most one integration saves.
\* discounts_are_monotone: whether none costs more than paying in full.
Margin == Max({0} \cup {Max({0} \cup FullFares(p[1])) + Max({0} \cup FullFares(p[2])) - Tariff.pair[p] : p \in DOMAIN Tariff.pair})
Monotone == \A p \in DOMAIN Tariff.pair : \A f \in FullFares(p[1]), g \in FullFares(p[2]) : Tariff.pair[p] <= f + g

\* Mutant: a fresher window is taken for better whatever is left to spend.
StateDominatesFresher(a, b) ==
  /\ a.kind = b.kind /\ a.route = b.route /\ a.total <= b.total /\ a.fare >= b.fare
  /\ IF gates.discounts THEN a.discounts <= b.discounts /\ a.board >= b.board ELSE a.discounts = b.discounts /\ a.board = b.board
\* state_dominates.
StateDominates(a, b) ==
  /\ a.kind = b.kind /\ a.route = b.route /\ a.total <= b.total /\ a.fare >= b.fare
  /\ IF gates.discounts THEN a.discounts <= b.discounts ELSE a.discounts = b.discounts
  /\ IF gates.freshness THEN a.board >= b.board ELSE a.board = b.board

----------------------------------------------------------------------------
(* Labels and bags.                                                        *)

\* canonicalize: without a discount left nothing reads the window, the route
\* and the fare of the last boarding.
Canonical(s) ==
  IF s.discounts < Tariff.max_discounts THEN s
  ELSE [s EXCEPT !.route = Unreached, !.board = Unreached, !.fare = Unreached]
Label(at, rides, side) == [arrival |-> at, rides |-> rides, side |-> side]
Total(e) == IF e.side = {} THEN 0 ELSE (CHOOSE s \in e.side : TRUE).total
Left(side) == IF side = {} THEN Tariff.max_discounts ELSE Tariff.max_discounts - (CHOOSE s \in side : TRUE).discounts

Conservatively(a, b) ==
  /\ gates.discounts
  /\ \A s \in b.side : s.kind \in Tariff.unlimited => \E o \in a.side : o.kind = s.kind
  /\ Total(a) <= Total(b) - gates.margin * Left(b.side)
Fast(a, b) == a.kind = b.kind /\ a.total <= b.total /\ a.discounts <= b.discounts /\ a.board >= b.board
Dominates(a, b) ==
  /\ a.arrival <= b.arrival /\ a.rides <= b.rides
  /\ \/ Conservatively(a, b)
     \/ /\ (a.side = {}) = (b.side = {})
        /\ \A s \in a.side, o \in b.side : IF q.exact THEN StateDominates(s, o) ELSE Fast(s, o)
Admits(bag, e) == \A i \in DOMAIN bag : ~Dominates(bag[i], e)
Inserted(bag, e) == IF Admits(bag, e) THEN Append(SelectSeq(bag, LAMBDA x : ~Dominates(e, x)), e) ELSE bag

\* alive: with every saving still possible, the total fits the last cutoff.
Alive(s) ==
  Capped(Max({0, s.total - gates.margin * (Tariff.max_discounts - s.discounts)})) <= Last(q.cutoffs)

Horizon == IF q.budget = Unreached THEN Unreached ELSE Departure + q.budget
InTime(at) == at < Unreached /\ at <= Horizon

\* An offer is <<travel time, fare, rides>>.  fold_candidate.
Before(a, b) == \E i \in 1 .. 3 : a[i] < b[i] /\ \A h \in 1 .. i - 1 : a[h] = b[h]
Folded(cells, offer) ==
  [i \in DOMAIN q.cutoffs |->
     IF offer[2] > q.cutoffs[i] \/ \E o \in cells[i] : ~Before(offer, o) THEN cells[i] ELSE {offer}]
LinksAt(x, s) == SetToSeq({e \in q.slots[x] : e.stop = s})
\* collect: an admitted label in the cells of the slots its stop serves.
Collected(r, s, e, fare) ==
  IF fare > Last(q.cutoffs) THEN r
  ELSE [x \in DOMAIN q.slots |->
          FoldLeft(LAMBDA cells, link :
                     IF InTime(e.arrival + link.duration)
                     THEN Folded(cells, <<e.arrival + link.duration - Departure, fare, e.rides>>) ELSE cells,
                   r[x], LinksAt(x, s))]

Marked(m, s) == IF Contains(m, s) THEN m ELSE Append(m, s)
At(s, e) == [stop |-> s, label |-> e]
\* A label at a stop, if its bag admits it.
Put(w, x) ==
  IF Admits(w.purses[x.stop], x.label)
  THEN [w EXCEPT !.purses[x.stop] = Inserted(@, x.label), !.marks = Marked(@, x.stop),
                 !.rows = Tabled(Collected(@, x.stop, x.label, Capped(Total(x.label))))]
  ELSE w
\* A ride's, in the round's rides too where footpaths are not closed.
Landed(w, x) ==
  Put(IF q.closed THEN w
      ELSE [w EXCEPT !.transit = [at |-> [@.at EXCEPT ![x.stop] = Inserted(@, x.label)], touched |-> Marked(@.touched, x.stop)]], x)
Work == [purses |-> purses, marks |-> marks, rows |-> rows, transit |-> transit]
NoTransit == [at |-> [s \in Stops |-> <<>>], touched |-> <<>>]

----------------------------------------------------------------------------
(* A pass.                                                                 *)

FareInit ==
  /\ q \in Queries
  /\ pc = "open" /\ pass = 1 /\ round = 0 /\ gates = <<>> /\ purses = <<>> /\ marks = <<>> /\ lines = <<>>
  /\ found = <<>> /\ transit = <<>> /\ rows = <<>>

\* new.
Open ==
  /\ pc = "open" /\ pc' = "seed"
  /\ gates' = [discounts |-> Monotone, freshness |-> Monotone /\ Tariff.max_discounts >= q.rounds, margin |-> Margin]
  /\ purses' = [s \in Stops |-> <<>>]
  /\ transit' = NoTransit
  /\ rows' = [x \in DOMAIN q.slots |-> [i \in DOMAIN q.cutoffs |-> {}]]
  /\ UNCHANGED <<q, pass, round, marks, lines, found>>

\* The access links, which no footpath leads on from.
Seed ==
  /\ pc = "seed" /\ pc' = "queue"
  /\ \E w \in {FoldLeft(LAMBDA w, a : IF InTime(Departure + a.duration)
                                       THEN Put(w, At(a.stop, Label(Departure + a.duration, 0, {}))) ELSE w,
                         Work, SetToSeq(q.access))} :
       purses' = w.purses /\ marks' = w.marks /\ rows' = w.rows
  /\ UNCHANGED <<q, pass, round, gates, lines, found, transit>>

\* The patterns at the marked stops, each from the first of them.
QueuedPatterns ==
  LET marked(p) == {i \in DOMAIN q.pattern_stops[p] : Contains(marks, q.pattern_stops[p][i])}
      queued == SelectSeq([p \in DOMAIN q.pattern_stops |-> p], LAMBDA p : marked(p) # {})
  IN  [k \in DOMAIN queued |-> [pattern |-> queued[k], from |-> Min(marked(queued[k]))]]
\* Marks of a last round stay for the next pass.
Queue ==
  /\ pc = "queue" /\ round < q.rounds /\ marks # <<>>
  /\ pc' = "scan" /\ round' = round + 1
  /\ lines' = QueuedPatterns /\ marks' = <<>>
  /\ UNCHANGED <<q, pass, gates, purses, found, transit, rows>>
EndPass ==
  /\ pc = "queue" /\ (round = q.rounds \/ marks = <<>>)
  /\ round' = 0
  /\ IF pass < Len(q.departures) THEN pass' = pass + 1 /\ pc' = "seed" ELSE pc' = "join" /\ UNCHANGED pass
  /\ UNCHANGED <<q, gates, purses, marks, lines, found, transit, rows>>

\* The trips a label boards at position i of p: the earliest of either day,
\* and the later ones where the time of boarding may still matter.
ExploresLater(e) == q.exact /\ Left(e.side) > 0
Catchable(p, i, stream, at) ==
  {t \in q.usable[stream] : q.trip_pattern[t] = p /\ q.departure[t][i] >= at + DayOffset(stream)}
Boardable(p, i, stream, e) ==
  LET trips == Catchable(p, i, stream, e.arrival)
  IN  SetToSortSeq({t \in trips : /\ ExploresLater(e) \/ t = Min(trips)
                                  /\ q.departure[t][i] - DayOffset(stream) <= Horizon}, <)

SameTrip(a, b) == a.trip = b.trip /\ a.stream = b.stream
Stronger(a, b) == SameTrip(a, b) /\ StateDominates(a.state, b.state) /\ a.rides <= b.rides
Joined(riding, run) ==
  LET admitted == \A i \in DOMAIN riding : ~Stronger(riding[i], run)
      kept == SelectSeq(riding, LAMBDA o : Stronger(o, run) \/ ~Stronger(run, o))
  IN  IF admitted THEN Append(kept, run) ELSE kept
\* board.
Boarded(riding, e, p, i, stream, t) ==
  LET at == q.departure[t][i] - DayOffset(stream)
      states == IF e.side = {} THEN BoardFirst(q.route[p], at) ELSE UNION {BoardNext(s, q.route[p], at) : s \in e.side}
      alive == {s \in {Canonical(s) : s \in states} : Alive(s)}
  IN  IF alive = {} THEN riding
      ELSE Joined(riding, [trip |-> t, stream |-> stream, rides |-> e.rides + 1, state |-> CHOOSE s \in alive : TRUE])

AlightsAt(w, i, stop) ==
  LET at(r) == q.arrival[r.trip][i] - DayOffset(r.stream)
      out == SelectSeq(w.riding, LAMBDA r : at(r) <= Horizon)
  IN  [k \in DOMAIN out |-> At(stop, Label(at(out[k]), out[k].rides, {out[k].state}))]
BoardsAt(riding, p, i, stop) ==
  FoldLeft(LAMBDA r, e :
             FoldLeft(LAMBDA r1, stream :
                        FoldLeft(LAMBDA r2, t : Boarded(r2, e, p, i, stream, t), r1, Boardable(p, i, stream, e)),
                      r, <<0, 1>>),
           riding, SelectSeq(purses[stop], LAMBDA e : e.rides < round))
ScanPosition(w, p, i) ==
  LET stops == q.pattern_stops[p] IN
  [found |-> w.found \o AlightsAt(w, i, stops[i]),
   riding |-> IF i = Len(stops) THEN w.riding ELSE BoardsAt(w.riding, p, i, stops[i])]

\* scan_pattern: nothing alighted is seen before the round is scanned.
Scan ==
  /\ pc = "scan" /\ lines # <<>>
  /\ \E line \in {Head(lines)} :
       found' = FoldLeft(LAMBDA w, i : ScanPosition(w, line.pattern, i), [found |-> found, riding |-> <<>>],
                         [k \in 1 .. Len(q.pattern_stops[line.pattern]) - line.from + 1 |-> line.from + k - 1]).found
  /\ lines' = Tail(lines)
  /\ UNCHANGED <<q, pc, pass, round, gates, purses, marks, transit, rows>>
Land ==
  /\ pc = "scan" /\ lines = <<>>
  /\ pc' = "walk" /\ found' = <<>>
  /\ \E w \in {FoldLeft(Landed, Work, found)} :
       purses' = w.purses /\ marks' = w.marks /\ rows' = w.rows /\ transit' = w.transit
  /\ UNCHANGED <<q, pass, round, gates, lines>>

\* One footpath: from every label of this many rides where they are closed,
\* else from the round's rides, shadowed or not.
FootpathsOf(s) == SetToSeq({e \in q.transfers : e.from = s})
WalksFrom(s) ==
  LET labels == IF q.closed THEN SelectSeq(purses[s], LAMBDA e : e.rides = round) ELSE transit.at[s]
      edges == FootpathsOf(s)
      walks(e) == [i \in DOMAIN labels |-> At(e.to, Label(labels[i].arrival + e.duration, labels[i].rides, labels[i].side))]
  IN  SelectSeq(FlattenSeq([k \in DOMAIN edges |-> walks(edges[k])]), LAMBDA x : InTime(x.label.arrival))
Walk ==
  /\ pc = "walk" /\ pc' = "queue"
  /\ \E sources \in {IF q.closed THEN marks ELSE transit.touched} :
     \E w \in {FoldLeft(Put, Work, FlattenSeq([k \in DOMAIN sources |-> WalksFrom(sources[k])]))} :
       purses' = w.purses /\ marks' = w.marks /\ rows' = w.rows
  /\ transit' = NoTransit
  /\ UNCHANGED <<q, pass, round, gates, lines, found>>

\* push_walk: the walk to a slot, for nothing.
WalkOffers(x) == {<<s, 0, 0>> : s \in {s \in q.walk[x] : s <= q.budget}}
JoinWalks ==
  /\ pc = "join" /\ pc' = "priced"
  /\ rows' = [x \in DOMAIN q.slots |-> FoldLeft(Folded, rows[x], SetToSeq(WalkOffers(x)))]
  /\ UNCHANGED <<q, pass, round, gates, purses, marks, lines, found, transit>>

FareNext == Open \/ Seed \/ Queue \/ EndPass \/ Scan \/ Land \/ Walk \/ JoinWalks

----------------------------------------------------------------------------
(* The same by enumeration: every journey, priced as a whole.              *)

\* RuleFares::price.  A ride within an unlimited type is free; of the others
\* each pays in full but the first few that may integrate with the ride before.
Price(legs) ==
  LET kind(i) == Kind(legs[i].route)
      free(i) == i > 1 /\ kind(i) = kind(i - 1) /\ kind(i) \in Tariff.unlimited
      paid == {i \in DOMAIN legs : ~free(i)}
      counts(i) == Max({j \in paid : j < i})
      may(i) == /\ i > 1 /\ <<kind(i - 1), kind(i)>> \in DOMAIN Tariff.pair
                /\ kind(i) # kind(i - 1) \/ kind(i) \in Tariff.same_route \/ legs[i].route # legs[i - 1].route
                /\ legs[i].board - legs[counts(i)].board <= Tariff.allowance
      able == {i \in paid : may(i)}
      spends == {i \in able : Cardinality({j \in able : j < i}) < Tariff.max_discounts}
      full(i) == Tariff.fare[legs[i].route]
      pays(i) == IF i \in spends THEN Tariff.pair[<<kind(i - 1), kind(i)>>] - full(i - 1) ELSE full(i)
  IN  IF \E i \in DOMAIN legs : ~Priceable(legs[i].route) THEN {}
      ELSE {Capped(FoldLeft(LAMBDA sum, i : sum + pays(i), 0, SetToSeq(paid)))}

LegOf(n, r) == [route |-> n.route[n.trip_pattern[r.trip]], from |-> StopAt(n, r, r.board), to |-> StopAt(n, r, r.alight),
                board |-> BoardedAt(n, r)]
OffersOf(n, x, d, priced(_)) ==
  UNION {UNION {{<<w.at + e.duration - d, fare, Len(w.legs)>> : fare \in priced(w.legs)} :
                  e \in {e \in n.slots[x] : e.stop = w.stop /\ w.at + e.duration < Unreached /\ w.at + e.duration - d <= n.budget}} :
         w \in WaysFrom(n, d, LegOf)}
Offers(x) == WalkOffers(x) \cup UNION {OffersOf(q, x, d, Price) : d \in Range(q.departures)}
Winner(offers, cutoff) ==
  {o \in offers : o[2] <= cutoff /\ \A p \in offers : p[2] <= cutoff => ~Before(p, o)}

\* Under every cutoff the fastest journey it affords, of these the cheapest,
\* of these the one with fewest rides: no label that another one stood for
\* would have become cheaper later (fare_frontier.rs:1-18, fares.rs:294-320).
\* The fast discipline may miss one, but only where rides integrate, and what
\* it offers is a real journey at its real fare.
FaresExact ==
  pc = "priced" =>
    \A x \in DOMAIN q.slots : \A offers \in {Offers(x)} : \A i \in DOMAIN q.cutoffs :
      IF q.exact \/ DOMAIN Tariff.pair = {}
      THEN rows[x][i] = Winner(offers, q.cutoffs[i])
      ELSE rows[x][i] \subseteq offers
=============================================================================
