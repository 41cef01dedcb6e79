---------------------------- MODULE StreetPolicies ----------------------------
(***************************************************************************)
(* Getting to and from the stops by a choice of modes (cafein-py,          *)
(* network.rs; cafein-core, mode_transfers.rs): the transfer sets that     *)
(* ride a shared or a carried vehicle between stops, and the reductions of *)
(* a street policy to the best choice, or the frontier of seconds and      *)
(* grams, of each stop.                                                    *)
(*                                                                         *)
(* A transfer is a record of its stops, whole seconds and meters.  Grams   *)
(* are the meters ridden times a whole factor; Far is a factor that is not *)
(* known, and the grams it leads to.                                       *)
(***************************************************************************)
EXTENDS StreetQueries

VARIABLES
  sets        \* the transfer sets computed: "merged" and "carriage"

NoSet == [edges |-> {}, tokens |-> {}]      \* with a mode once computed
IsHeld(set) == "mode" \in DOMAIN set
WalkingClass(mode) == mode \in {"walk", "wheelchair"}
Stops == DOMAIN input.stops
\* The least of some records by a key that tells them apart.
FirstBy(S, key(_)) == CHOOSE o \in S : \A p \in S \ {o} : Precedes(key(o), key(p))

----------------------------------------------------------------------------
(* Transfer sets (mode_transfers.rs).                                     *)

RidesIn(done, stop, all) ==
  [s |-> all.s,
   edges |-> done.edges \cup
     {[from |-> stop, to |-> to, seconds |-> Seconds(all.row[to].millis), network |-> all.row[to].meters,
       meters |-> all.row[to].meters + all.row[to].connectors] : to \in {to \in Stops \ {stop} : all.row[to] # <<>>}}]
RidesOver(s, profile, budget, links) ==
  FoldLeft(LAMBDA done, stop : IF links[stop] = Nothing THEN done
                               ELSE RidesIn(done, stop, CellsToSnaps(done.s, links[stop], links, profile, profile, budget * 1000)),
           [s |-> s, edges |-> {}], [i \in Stops |-> i])
\* The rides from each stop with a link to every other within the budget.
RidesBetween(s, profile, budget) ==
  RidesOver(s, profile, budget, ModeLinkTargets(profile))

\* close_from: a walk of one row or none, a ride, and a walk of one row or
\* none, all within the budget.  Of equal ways to drop a vehicle the one
\* whose pickup the search settles first, walked up to before not.
WalkFrom(stop) == {[from |-> stop, to |-> stop, seconds |-> 0, meters |-> 0]} \cup {w \in input.closure : w.from = stop}
RentalRows(source, rented, budget) ==
  LET ways == UNION {{[pickup |-> pre.to, drop |-> ride.to, pre |-> pre.seconds, ride |-> ride.seconds, network |-> ride.network,
                       total |-> ride.meters, seconds |-> pre.seconds + ride.seconds, meters |-> pre.meters + ride.meters] :
                        ride \in {r \in rented : r.from = pre.to}} : pre \in WalkFrom(source)}
      drops == {way \in ways : way.seconds <= budget}
      first(drop) == FirstBy({way \in drops : way.drop = drop}, LAMBDA way : <<way.seconds, way.pre, way.pickup>>)
      dropped == {first(drop) : drop \in {way.drop : way \in drops}}
      walked(to) == {[way EXCEPT !.seconds = @ + w.seconds, !.meters = @ + w.meters] :
                       <<way, w>> \in {x \in dropped \X input.closure : x[1].drop = x[2].from /\ x[2].to = to}}
      through(to) == {way \in walked(to) : way.seconds <= budget}
      at(to) == {way \in dropped : way.drop = to}
      best(to) == FirstBy(at(to) \cup through(to),
                          LAMBDA way : <<way.seconds, IF way.drop = to THEN 0 ELSE 1, way.pre + way.ride, way.drop>>)
  IN  {[to |-> to, way |-> best(to)] : to \in {to \in Stops \ {source} : at(to) \cup through(to) # {}}}

\* merge_mode_transfers: a walked row stays unless a ride is faster.
\* Mutant: a ride as fast as the walk takes its place.
FasterOrEven(way, walk) == way.seconds <= walk.seconds
FasterOnly(way, walk) == way.seconds < walk.seconds
Faster(way, walk) == FasterOnly(way, walk)
MergeModeTransfers(rented, budget) ==
  LET rows(source) == RentalRows(source, rented, budget)
      walks(source) == {w \in input.closure : w.from = source}
      won(source) == {r \in rows(source) : \A w \in walks(source) : w.to = r.to => Faster(r.way, w)}
      token(source, r) ==
        [from |-> source, to |-> r.to, pickup |-> r.way.pickup, drop |-> r.way.drop, ride |-> r.way.ride, network |-> r.way.network,
         total |-> r.way.total, pre |-> r.way.pre, post |-> r.way.seconds - r.way.pre - r.way.ride]
  IN  [edges |-> UNION {{w \in walks(s) : \A r \in won(s) : r.to # w.to}
                        \cup {[from |-> s, to |-> r.to, seconds |-> r.way.seconds, meters |-> r.way.meters] : r \in won(s)} : s \in Stops},
       tokens |-> UNION {{token(s, r) : r \in won(s)} : s \in Stops}]
\* pure_mode_transfers: the rides alone.
PureModeTransfers(rented) ==
  [edges |-> {[from |-> r.from, to |-> r.to, seconds |-> r.seconds, meters |-> r.meters] : r \in rented},
   tokens |-> {[from |-> r.from, to |-> r.to, pickup |-> r.from, drop |-> r.to, ride |-> r.seconds, network |-> r.network,
                total |-> r.meters, pre |-> 0, post |-> 0] : r \in rented}]
\* merge_carriage_transfers: of each pair the walk, or a faster ride.
MergeCarriageTransfers(ridden) ==
  LET walked(r) == {w \in input.closure : w.from = r.from /\ w.to = r.to}
      won == {r \in ridden : \A w \in walked(r) : Faster(r, w)}
  IN  [edges |-> {w \in input.closure : \A r \in won : <<r.from, r.to>> # <<w.from, w.to>>}
                 \cup {[from |-> r.from, to |-> r.to, seconds |-> r.seconds, meters |-> r.meters] : r \in won},
       tokens |-> {[from |-> r.from, to |-> r.to, network |-> r.network] : r \in won}]

\* compute_mode_transfers and compute_carriage_transfers: not for walking.
ComputeTransfers == \E q \in Due("compute") : \E at \in {CompiledAt("transit", q)} :
  \E ridden \in {RidesBetween(labels, ProfileAt(at), q.budget)} :
  LET set == IF q.set = "carriage" THEN MergeCarriageTransfers(ridden.edges)
             ELSE IF q.mode = "wheelchair" THEN PureModeTransfers(ridden.edges)
             ELSE MergeModeTransfers(ridden.edges, q.budget)
  IN  /\ q.mode # "walk" /\ q.budget > 0
      /\ sets' = [sets EXCEPT ![q.set] = set @@ [mode |-> q.mode, budget |-> q.budget,
                                                 definition |-> ProfileDefinition(q.mode, q.speeds)]]
      /\ Returned(q, "transit", at, ridden.s, <<>>)
      /\ UNCHANGED state

----------------------------------------------------------------------------
(* The reductions of a policy (network.rs).                               *)

\* policy_transfers: the walking closure, or the merged set if it is bound
\* to the mode, the budget and the speeds of the query.
TransfersFor(q) ==
  IF q.transfers = <<>> THEN [held |-> TRUE, edges |-> input.closure, tokens |-> {}]
  ELSE LET set == sets.merged
           bound == IsHeld(set) /\ <<set.mode, set.budget>> = <<q.transfers[1], q.transfers[2]>>
       IN  IF bound /\ set.definition = ProfileDefinition(q.transfers[1], q.speeds)
           THEN [held |-> TRUE, edges |-> set.edges, tokens |-> IF WalkingClass(set.mode) THEN {} ELSE set.tokens]
           ELSE [held |-> FALSE]

\* The rows of the modes, in the order they are declared.
RowAsk(q, m) == [from |-> q.from, egress |-> q.egress, cutoff |-> m.cutoff, meters |-> q.meters]
WithRow(done, at, row) == [cache |-> at.cache, s |-> row.s, rows |-> Append(done.rows, row)]
ModeRow(done, q, m, at) == WithRow(done, at, RowTo(done.s, RowAsk(q, m), ProfileAt(at)))
ModeRows(q) ==
  FoldLeft(LAMBDA done, m : ModeRow(done, q, m, CompiledFor(done.cache, m.mode, q.speeds)),
           [cache |-> profiles.transit, s |-> labels, rows |-> <<>>], q.modes)

Grams(meters, factor) == IF meters = 0 THEN 0 ELSE IF factor = Far THEN Far ELSE meters * factor
GramsPlus(a, b) == LowerOf(a + b, Far)
\* The direct choices of a stop.
Direct(q, rows, stop) ==
  LET offers(k) == rows[k].snapped /\ stop \in q.modes[k].eligible /\ rows[k].cells[stop] # <<>>
      choice(k) ==
        [seconds |-> rows[k].cells[stop][1], rentals |-> IF q.modes[k].rental THEN 1 ELSE 0, order |-> k, via |-> 0,
         grams |-> IF WalkingClass(q.modes[k].mode) THEN 0 ELSE Grams(rows[k].cells[stop][2], q.modes[k].factor),
         network |-> rows[k].cells[stop][2], total |-> rows[k].cells[stop][3], walked |-> 0]
  IN  {choice(k) : k \in {k \in DOMAIN rows : offers(k)}}
Vehicles(q, choices) == {o \in choices : ~WalkingClass(q.modes[o.order].mode)}

\* One choice handed off to one transfer.
HandOff(q, set, o, t) ==
  LET token == {x \in set.tokens : x.from = t.from /\ x.to = t.to}
      ride == CHOOSE x \in token : TRUE
  IN  [o EXCEPT !.seconds = @ + t.seconds, !.walked = t.meters,
                !.via = IF q.egress THEN t.to ELSE t.from,
                !.rentals = @ + IF token = {} THEN 0 ELSE 1,
                !.grams = IF token = {} THEN @ ELSE GramsPlus(@, Grams(ride.network, q.transfers[3]))]
\* The hand-offs to a stop from the choices of its neighbours, against the
\* transfer on the way out of the network.
HandOffs(q, set, seeds, stop) ==
  LET target(t) == IF q.egress THEN t.from ELSE t.to
      source(t) == IF q.egress THEN t.to ELSE t.from
  IN  UNION {{HandOff(q, set, o, t) : o \in seeds[source(t)]} : t \in {t \in set.edges : target(t) = stop}}

TimeKey(o) == <<o.seconds, o.rentals, o.order, o.via>>
\* The seeds of the hand-offs: the fastest vehicle of each stop.
\* Mutant: the fastest choice, where it is a vehicle.
SeedsHidden(q, choices) == IF choices = {} THEN {} ELSE Vehicles(q, {FirstBy(choices, TimeKey)})
SeedsApart(q, choices) == IF Vehicles(q, choices) = {} THEN {} ELSE {FirstBy(Vehicles(q, choices), TimeKey)}
TimeSeeds(q, choices) == SeedsApart(q, choices)
\* reduce_street_choices
ReduceStreetChoices(q, rows, set) ==
  LET direct(stop) == IF stop \in q.excluded THEN {} ELSE Direct(q, rows, stop)
      seeds == Tabled([stop \in Stops |-> TimeSeeds(q, direct(stop))])
      all(stop) == direct(stop) \cup HandOffs(q, set, seeds, stop)
  IN  [stop \in Stops |-> IF stop \in q.excluded \/ all(stop) = {} THEN {} ELSE {FirstBy(all(stop), TimeKey)}]

\* pareto_insert: equal points by fewer rentals, then the declared order.
Rank(o) == <<o.rentals, o.order>>
NoWorse(a, b) == a.seconds <= b.seconds /\ a.grams <= b.grams
ParetoInsertRanked(frontier, o) ==
  LET even(a, b) == a.seconds = b.seconds /\ a.grams = b.grams
      blocks(h) == NoWorse(h, o) /\ (even(h, o) => ~Precedes(Rank(o), Rank(h)))
      evicts(h) == NoWorse(o, h) /\ (even(o, h) => Precedes(Rank(o), Rank(h)))
  IN  IF \E h \in frontier : blocks(h) THEN frontier ELSE {h \in frontier : ~evicts(h)} \cup {o}
ParetoInsert(frontier, o) == ParetoInsertRanked(frontier, o)
Frontier(start, choices, key(_)) ==
  FoldLeft(ParetoInsert, start, InOrder(choices, LAMBDA a, b : Precedes(key(a), key(b))))
\* _pareto_street_rows: every vehicle point of a neighbour is handed off.
ParetoStreetRows(q, rows, set) ==
  LET declared(o) == <<o.order>>
      relaxed(o) == <<o.via, o.seconds, o.order>>
      direct(stop) == IF stop \in q.excluded THEN {} ELSE Direct(q, rows, stop)
      seeds == Tabled([stop \in Stops |-> Frontier({}, Vehicles(q, direct(stop)), declared)])
  IN  [stop \in Stops |->
        IF stop \in q.excluded THEN {}
        ELSE Frontier(Frontier({}, direct(stop), declared), HandOffs(q, set, seeds, stop), relaxed)]

\* A policy that snaps for no mode, or whose set is not there, is refused.
Reduced(q, rows, set) ==
  IF (\A k \in DOMAIN rows : ~rows[k].snapped) \/ ~set.held THEN <<>>
  ELSE IF q.pareto THEN <<ParetoStreetRows(q, rows, set)>> ELSE <<ReduceStreetChoices(q, rows, set)>>
ReducePolicy == \E q \in Due("policy") : \E all \in {ModeRows(q)} :
  /\ Returned(q, "transit", [cache |-> all.cache], all.s, Reduced(q, all.rows, TransfersFor(q)))
  /\ UNCHANGED <<state, sets>>

PolicyInit ==
  /\ WalkInit
  /\ profiles = [street |-> <<>>, transit |-> <<>>] /\ labels = <<>> /\ rides = <<>> /\ found = <<>>
  /\ sets = [merged |-> NoSet, carriage |-> NoSet]
PolicyStep ==
  \/ /\ WalkStep
     /\ labels' = IF stage = "build" /\ stage' = "rides" THEN Unlabelled(net'.vertices) ELSE labels
     /\ UNCHANGED <<profiles, rides, found, sets>>
  \/ RideStep /\ UNCHANGED sets
  \/ ComputeTransfers
  \/ ReducePolicy

----------------------------------------------------------------------------
(* Properties.                                                            *)

\* Every choice there is for a stop: any mode directly, and any vehicle to a
\* neighbour and the transfer from there.
AllChoices(q, rows, set, stop) ==
  LET allowed(s) == IF s \in q.excluded THEN {} ELSE Direct(q, rows, s)
      vehicles == [s \in Stops |-> Vehicles(q, allowed(s))]
  IN  IF stop \in q.excluded THEN {} ELSE allowed(stop) \cup HandOffs(q, set, vehicles, stop)
FreshRows(q) ==
  Tabled([k \in DOMAIN q.modes |->
    RowTo(Unlabelled(net.vertices), RowAsk(q, q.modes[k]), Compile(ProfileDefinition(q.modes[k].mode, q.speeds)))])

(* The reduction of a policy is the best over every choice there is: the   *)
(* fastest by its ties, or the whole frontier of seconds and grams with    *)
(* the better ranked of equal points.  No faster walk hides a ride that    *)
(* would be handed off, no hand-off starts from another, none leads        *)
(* through or to an excluded stop.  With no grams at all the frontier is   *)
(* the fastest choice.                                                     *)
PoliciesExact ==
  (rides # <<>> /\ Latest.kind = "policy") =>
    \A q \in {Latest} : \A rows \in {FreshRows(q)}, set \in {TransfersFor(q)} :
    LET first(S) == {o \in S : \A p \in S \ {o} : Precedes(TimeKey(o), TimeKey(p))}
        best(S) ==
          IF q.pareto THEN {o \in S : \A p \in S \ {o} :
                              ~(NoWorse(p, o) /\ Precedes(<<p.seconds, p.grams, p.rentals, p.order, p.via>>,
                                                          <<o.seconds, o.grams, o.rentals, o.order, o.via>>))}
          ELSE first(S)
        fastest(S) == {o.seconds : o \in {o \in S : \A p \in S : o.seconds <= p.seconds}}
    IN  IF found = <<>> THEN (\A k \in DOMAIN rows : ~rows[k].snapped) \/ ~set.held
        ELSE \A stop \in Stops :
               LET all == AllChoices(q, rows, set, stop)
               IN  /\ found[1][stop] = best(all)
                   /\ fastest(found[1][stop]) = fastest(all)
                   /\ (\A o \in all : o.grams = 0) => found[1][stop] = first(all)

(* A transfer set that rides gives each pair of stops the fastest of the   *)
(* walk and of one ride with at most a row walked before it and one after, *)
(* all within the budget, a tie to the walk; and a ride's parts are rides  *)
(* and rows that are there, and add up to it.                              *)
TransfersFastest ==
  \A name \in DOMAIN sets :
    LET set == sets[name]
        ridden == IF IsHeld(set) THEN RidesBetween(Unlabelled(net.vertices), Compile(set.definition), set.budget).edges ELSE {}
        walks(a, b) == {w.seconds : w \in {w \in WalkFrom(a) : w.to = b}}
        alone == name = "carriage" \/ set.mode = "wheelchair"
        ways(a, b) == {x \in UNION {{p + r.seconds + s : <<p, s>> \in walks(a, r.from) \X walks(r.to, b)} :
                                      r \in {r \in ridden : alone => r.from = a /\ r.to = b}} : x <= set.budget}
        rows(a, b) == {w.seconds : w \in {w \in input.closure : w.from = a /\ w.to = b}}
        offers(a, b) == ways(a, b) \cup (IF name = "merged" /\ set.mode = "wheelchair" THEN {} ELSE rows(a, b))
    IN  IsHeld(set) =>
          /\ \A <<a, b>> \in {p \in Stops \X Stops : p[1] # p[2]} :
               LET held == {t.seconds : t \in {t \in set.edges : t.from = a /\ t.to = b}}
               IN  held = IF offers(a, b) = {} THEN {} ELSE {LeastOf(offers(a, b))}
          /\ \A x \in set.tokens :
               LET edge == CHOOSE t \in set.edges : t.from = x.from /\ t.to = x.to
               IN  /\ (name = "carriage" \/ set.mode # "wheelchair") => \A m \in rows(x.from, x.to) : edge.seconds < m
                   /\ name = "merged" =>
                        /\ x.pre \in walks(x.from, x.pickup) /\ x.post \in walks(x.drop, x.to)
                        /\ \E r \in ridden : <<r.from, r.to, r.seconds, r.meters>> = <<x.pickup, x.drop, x.ride, x.total>>
                        /\ x.pre + x.ride + x.post = edge.seconds
=============================================================================
