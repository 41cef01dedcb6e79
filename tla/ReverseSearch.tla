---------------------------- MODULE ReverseSearch ---------------------------
(***************************************************************************)
(* Arrive-by routing (cafein-core, routers/reverse/search.rs, and the      *)
(* consumers of its frontier in cafein-py): labels grow from the           *)
(* destination towards the origins, round by round; a round keeps, per     *)
(* stop, the nondominated continuations over (latest departure, achieved   *)
(* arrival).  Candidates elected from them are materialised by replaying   *)
(* the forward engine.                                                     *)
(*                                                                         *)
(* A bag is a set: an insertion order could only decide which of two equal *)
(* labels is kept.  A label's seed is the destination it serves where a    *)
(* run isolates destinations, and AnySeed elsewhere.  The forward engine   *)
(* is what Raptor's runs show it to be (PassExact).                        *)
(***************************************************************************)
EXTENDS RaptorReference, SequencesExt

AnySeed == 0
Marks == 0 .. Unreached - 1
\* An arrive-by query: deadlines that end with the last, which departures are
\* counted back from, and the walks all the way; one destination, or each
\* egress link its own.
WellFormedArriveBy(n) ==
  /\ IsFiniteSet(n.trips)
  /\ n.marks \in Seq(Marks) /\ Len(n.marks) > 0
  /\ \A i \in 1 .. Len(n.marks) : n.marks[i] <= n.marks[Len(n.marks)]
  /\ DOMAIN n.walks \subseteq Nat /\ n.walks \in [DOMAIN n.walks -> 0 .. Unreached]
  /\ IF n.use = "nearest" THEN n.owner \in [n.egress -> DOMAIN n.walks] ELSE AnySeed \in DOMAIN n.walks

ASSUME ArriveByAssumption ==
         \A n \in Queries : n.use \notin {"depart", "matrix"} => WellFormedArriveBy(n)

VARIABLES
  phase,      \* which step of a reverse query is next; "idle" for the others
  suffix,     \* the number of rides of the continuations the round at work adds
  bags,       \* bags[k][s]: continuations of k rides from stop s on
  changed,    \* the stops the last round put a label at
  upstream,   \* queued pattern -> the last of its positions to scan
  line,       \* the pattern being scanned
  place,      \* the position the scan goes up from; 0 once it is through
  onboard,    \* the continuations that ride the pattern from there
  touched,    \* the continuations this round's rides added, as <<stop, label>>
  elected,    \* the candidates elected: departure, rides, achieved arrival
  answers     \* what the query returns

scan == <<line, place, onboard>>
search == <<bags, changed, upstream, scan, touched>>
reverseVars == <<phase, suffix, search, elected, answers>>

----------------------------------------------------------------------------
(* Labels and their dominance.                                            *)

Unset == Unreached
Fixed(l) == l.achieved # Unset
Pending(departure, walk, seed) ==
  [departure |-> departure, achieved |-> Unset, trailing |-> walk, rooted |-> FALSE, seed |-> seed]
Continuation(departure, achieved, rooted, seed) ==
  [departure |-> departure, achieved |-> achieved, trailing |-> 0, rooted |-> rooted, seed |-> seed]

\* Mutant: a label that starts with a walk evicts one that starts with a ride.
DominatesAnyRoot(a, b) ==
  /\ a.seed = b.seed /\ a.departure >= b.departure
  /\ Fixed(a) = Fixed(b)
  /\ a.achieved <= b.achieved /\ a.trailing <= b.trailing
\* dominates, within a seed: a pending label's arrival is not known, and only a
\* label that starts with a ride can open a journey.
Dominates(a, b) ==
  /\ a.seed = b.seed
  /\ b.rooted => a.rooted
  /\ Fixed(a) = Fixed(b)
  /\ a.departure >= b.departure
  /\ IF Fixed(b) THEN a.achieved <= b.achieved ELSE a.trailing <= b.trailing

\* insert, for each added label: what no other label dominates stays, whatever
\* the order they come in.
InsertAll(bag, added) ==
  {l \in bag \cup added : \A o \in bag \cup added : Dominates(o, l) => o = l}

Deadline == q.marks[Len(q.marks)]
SeedOf(link) == IF q.use = "nearest" THEN q.owner[link] ELSE AnySeed
Open(s) == s \notin q.excluded

----------------------------------------------------------------------------
(* The rounds.                                                            *)

NoBags == [k \in Rounds |-> [s \in Stops |-> {}]]

\* An egress walk, and one footpath before it: extended whether or not the
\* label at the egress stop itself is kept.
SeedsOf(link) ==
  IF ~Open(link.stop) \/ Deadline < link.duration THEN {}
  ELSE {<<link.stop, Pending(Deadline - link.duration, link.duration, SeedOf(link))>>} \cup
       {<<e.from, Pending(Deadline - link.duration - e.duration, link.duration + e.duration, SeedOf(link))>> :
          e \in {e \in q.transfers : /\ e.to = link.stop /\ Open(e.from)
                                     /\ link.duration + e.duration <= Deadline}}

At(pairs, s) == {x[2] : x \in {x \in pairs : x[1] = s}}

SeedEgress ==
  /\ phase = "seed"
  /\ LET seeds == UNION {SeedsOf(link) : link \in q.egress}
     IN  /\ bags' = [NoBags EXCEPT ![0] = [s \in Stops |-> InsertAll({}, At(seeds, s))]]
         /\ changed' = {x[1] : x \in seeds}
  /\ phase' = "round"
  /\ UNCHANGED <<suffix, upstream, scan, touched, elected, answers>>

\* A round scans the patterns through the changed stops, each up from the last
\* of them; it ends the search where no stop changed.
LastChanged(p) == Max({i \in DOMAIN StopsOf(p) : StopsOf(p)[i] \in changed})
StartRound ==
  /\ phase = "round" /\ suffix < q.rounds /\ changed # {}
  /\ suffix' = suffix + 1
  /\ upstream' = [p \in {p \in DOMAIN q.pattern_stops : Range(StopsOf(p)) \cap changed # {}} |-> LastChanged(p)]
  /\ changed' = {} /\ touched' = {}
  /\ phase' = "scan"
  /\ UNCHANGED <<bags, scan, elected, answers>>

\* latest_active_trip, and the trips before it a pending label may end with: a
\* fixed label's arrival is the same whichever trip it takes, and the last one
\* leaves every upstream stop last.
Alightable(p, i, stream, reached) ==
  {t \in q.usable[stream] : q.trip_pattern[t] = p /\ q.arrival[t][i] <= reached}
TripsInto(p, i, stream, l) ==
  LET trips == Alightable(p, i, stream, l.departure + Offset(stream))
      latest == IF Fixed(l) /\ trips # {} THEN {Max(trips)} ELSE trips
  IN  {t \in latest : q.arrival[t][i] >= Offset(stream)}

Achieved(l, t, i, stream) ==
  IF Fixed(l) THEN l.achieved ELSE q.arrival[t][i] - Offset(stream) + l.trailing

\* The continuations onboard once those that alight at position have joined:
\* one per trip, service day and seed, with its earliest arrival.
Joining(p, i, previous) ==
  UNION {{[trip |-> t, stream |-> d, achieved |-> Achieved(l, t, i, d), seed |-> l.seed] :
            t \in TripsInto(p, i, d, l)} : d \in Streams, l \in previous}
Rider(o) == <<o.trip, o.stream, o.seed>>
EarliestOnboard(riders) ==
  {o \in riders : \A r \in riders : Rider(r) = Rider(o) => o.achieved <= r.achieved}

Boardings(p, i, riders) ==
  {Continuation(q.departure[o.trip][i] - Offset(o.stream), o.achieved, TRUE, o.seed) :
     o \in {o \in riders : Offset(o.stream) <= q.departure[o.trip][i]}}

\* The queued patterns are scanned in their order.
StartPattern ==
  /\ phase = "scan" /\ place = 0
  /\ \E p \in DOMAIN upstream :
       /\ \A o \in DOMAIN upstream : p <= o
       /\ line' = p /\ place' = upstream[p]
       /\ upstream' = [o \in DOMAIN upstream \ {p} |-> upstream[o]]
  /\ onboard' = {}
  /\ UNCHANGED <<phase, suffix, bags, changed, touched, elected, answers>>

\* One position of the scan: who is onboard may board here, then the labels of
\* one ride less alight.
ScanPosition ==
  /\ phase = "scan" /\ place > 0
  /\ LET s == StopsOf(line)[place]
         boardings == Boardings(line, place, onboard)
         bag == InsertAll(bags[suffix][s], boardings)
         kept == boardings \cap bag
     IN  IF Open(s)
           THEN /\ bags' = [bags EXCEPT ![suffix][s] = bag]
                /\ touched' = touched \cup {<<s, l>> : l \in kept}
                /\ changed' = changed \cup {s : l \in kept}
                /\ onboard' = EarliestOnboard(onboard \cup Joining(line, place, bags[suffix - 1][s]))
           ELSE UNCHANGED <<bags, touched, changed, onboard>>
  /\ place' = place - 1
  /\ UNCHANGED <<phase, suffix, upstream, line, elected, answers>>

\* The transfer phase: a footpath leads to the continuations this round's rides
\* added, never to another footpath.
Footpathed ==
  {<<x[2].from, Continuation(x[1][2].departure - x[2].duration, x[1][2].achieved, FALSE, x[1][2].seed)>> :
     x \in {x \in touched \X q.transfers : /\ x[2].to = x[1][1] /\ Open(x[2].from)
                                           /\ x[2].duration <= x[1][2].departure}}
Extend ==
  /\ phase = "scan" /\ place = 0 /\ DOMAIN upstream = {}
  /\ bags' = [bags EXCEPT ![suffix] = [s \in Stops |-> InsertAll(bags[suffix][s], At(Footpathed, s))]]
  /\ changed' = changed \cup {x[1] : x \in Footpathed}
  /\ phase' = "round"
  /\ UNCHANGED <<suffix, upstream, scan, touched, elected, answers>>

\* The rounds are over: what is asked of the frontier comes next.
EndRounds ==
  /\ phase = "round" /\ (suffix = q.rounds \/ changed = {})
  /\ phase' = CASE q.use = "nearest" -> "nearest" [] q.use = "times" -> "times" [] OTHER -> "elect"
  /\ UNCHANGED <<suffix, search, elected, answers>>

----------------------------------------------------------------------------
(* What the frontier answers.                                             *)

\* collect_states: a journey opens with a ride, so only such labels count.
States(s) ==
  UNION {{[rides |-> k, departure |-> l.departure, achieved |-> l.achieved, seed |-> l.seed] :
            l \in {l \in bags[k][s] : Fixed(l) /\ l.rooted}} : k \in Rounds}
Candidate(departure, rides, achieved) ==
  [departure |-> departure, rides |-> rides, achieved |-> achieved]
\* The origin is left early enough to walk the access link.
Composed(link, states) ==
  {Candidate(x.departure - link.duration, x.rides, x.achieved) :
     x \in {x \in states : link.duration <= x.departure}}

By(states, mark) == {x \in states : x.achieved <= mark}
\* Mutant: a mark's winner of a round is its first to arrive.
WinnersFirst(states, mark) ==
  {x \in By(states, mark) : \A y \in By(states, mark) : x.rides = y.rides => x.achieved <= y.achieved}
\* reverse_profile_states: a round's winner at a deadline mark leaves latest,
\* and arrives first among those.
Winners(states, mark) ==
  {x \in By(states, mark) :
     \A y \in By(states, mark) : x.rides = y.rides =>
       x.departure > y.departure \/ (x.departure = y.departure /\ x.achieved <= y.achieved)}

\* The walk all the way competes as if placed to arrive exactly at the mark.
Placed(walk, mark) == IF walk = Unreached \/ mark < walk THEN {} ELSE {Candidate(mark - walk, 0, mark)}

CandidatesAt(mark) ==
  IF q.use = "route"
    THEN UNION {Composed(link, By(States(link.stop), mark)) : link \in q.access}
    ELSE (UNION {Composed(link, Winners(States(link.stop), mark)) : link \in q.access})
           \cup Placed(q.walks[AnySeed], mark)

\* The complete-journey order: later departures and fewer rides first, an
\* earlier arrival only between equals of both.
NoWorse(c, d) == c.departure >= d.departure /\ c.rides <= d.rides
Pareto(candidates) ==
  {c \in candidates : \A d \in candidates :
     NoWorse(d, c) => d.departure = c.departure /\ d.rides = c.rides /\ c.achieved <= d.achieved}

\* mark_candidates, or profile_union over the marks of a window.
Elect ==
  /\ phase = "elect"
  /\ elected' = UNION {Pareto(CandidatesAt(q.marks[i])) : i \in DOMAIN q.marks}
  /\ phase' = "replay"
  /\ UNCHANGED <<suffix, search, answers>>

\* Raptor.route at one departure: per number of rides the first arrival that
\* no fewer rides attain, where walking from the origin does not get there first.
ForwardArrival(d) ==
  LET earliest == EarliestArrival({d})
      arrivals(k) == {earliest[k][e.stop] + e.duration :
                        e \in {e \in q.egress : Open(e.stop) /\ earliest[k][e.stop] < earliest[k - 1][e.stop]}}
  IN  [k \in 1 .. q.rounds |-> Min({Unreached} \cup arrivals(k))]
ForwardAnswers(d) ==
  LET arrival == ForwardArrival(d)
  IN  {Candidate(d, k, arrival[k]) :
         k \in {k \in 1 .. q.rounds : \A j \in 1 .. k : arrival[k] < Unreached /\ (j < k => arrival[k] < arrival[j])}}

\* replay: a candidate the forward engine does not answer with is dropped.
Replayed(c) == c.rides = 0 \/ c \in ForwardAnswers(c.departure)
Replay ==
  /\ phase = "replay" /\ q.use # "pricing"
  /\ answers' = {c \in elected : Replayed(c)}
  /\ phase' = "answered"
  /\ UNCHANGED <<suffix, search, elected>>

\* arrive_by_winner: the first of the complete-journey order.
Winner(candidates) ==
  CHOOSE c \in candidates : \A d \in candidates :
    \/ c.departure > d.departure
    \/ c.departure = d.departure /\ c.rides < d.rides
    \/ c.departure = d.departure /\ c.rides = d.rides /\ c.achieved <= d.achieved
Duration(c) == c.achieved - c.departure

\* reverse_times_dict: from every stop, beside walking its egress link.
WalkingOnly(s) == UNION {Placed(e.duration, Deadline) : e \in {e \in q.egress : e.stop = s /\ Open(s)}}
TimesFrom(s) == Composed([stop |-> s, duration |-> 0], States(s)) \cup WalkingOnly(s)
WinnersByStop == {[stop |-> s, winner |-> Winner(TimesFrom(s))] : s \in {s \in Stops : TimesFrom(s) # {}}}
AnswerTimes ==
  /\ phase = "times"
  /\ answers' = WinnersByStop
  /\ phase' = "answered"
  /\ UNCHANGED <<suffix, search, elected>>

\* _arrive_by_nearest_points: each destination's own winner first, then the
\* shortest of them, ties to the lowest destination.
Destinations == DOMAIN q.walks
CandidatesTo(o) ==
  (UNION {Composed(link, {x \in States(link.stop) : x.seed = o}) : link \in q.access})
    \cup Placed(q.walks[o], Deadline)
Nearest(to) ==
  LET reached == {o \in Destinations : to[o] # {}}
      duration == [o \in reached |-> Duration(Winner(to[o]))]
      shortest == Min(Range(duration))
  IN  IF reached = {} THEN {}
      ELSE {[destination |-> Min({o \in reached : duration[o] = shortest}), duration |-> shortest]}
AnswerNearest ==
  /\ phase = "nearest"
  /\ answers' = Nearest([o \in Destinations |-> CandidatesTo(o)])
  /\ phase' = "answered"
  /\ UNCHANGED <<suffix, search, elected>>

ReverseInit ==
  /\ phase = (IF q.use \in {"depart", "matrix"} THEN "idle" ELSE "seed")
  /\ suffix = 0 /\ bags = [k \in Rounds |-> [s \in Stops |-> {}]] /\ changed = {}
  /\ upstream = <<>> /\ line = 0 /\ place = 0 /\ onboard = {}
  /\ touched = {} /\ elected = {} /\ answers = {}
ReverseNext ==
  \/ SeedEgress \/ StartRound \/ StartPattern \/ ScanPosition \/ Extend \/ EndRounds
  \/ Elect \/ Replay \/ AnswerTimes \/ AnswerNearest
ReverseSpec == q \in Queries /\ ReverseInit /\ [][ReverseNext /\ UNCHANGED q]_<<q, reverseVars>>

----------------------------------------------------------------------------
(* Properties.                                                            *)

\* Every continuation of k rides to one of the links, without dominance,
\* patterns or marks: a last ride, then rides that connect to one.
OpenRides == {r \in R!PossibleRides(q) : /\ Open(R!StopAt(q, r, r.board)) /\ Open(R!StopAt(q, r, r.alight))
                                         /\ R!BoardedAt(q, r) >= 0 /\ R!AlightedAt(q, r) >= 0}
\* How long on foot from where a ride ends to stop s: nothing, or a footpath.
OnFoot(r, s) ==
  {0 : x \in {x \in {s} : x = R!StopAt(q, r, r.alight)}} \cup
  {e.duration : e \in {e \in q.transfers : e.from = R!StopAt(q, r, r.alight) /\ e.to = s}}
Opened(r, achieved) == [stop |-> R!StopAt(q, r, r.board), departure |-> R!BoardedAt(q, r), achieved |-> achieved]
LastRides(links) ==
  UNION {{Opened(r, R!AlightedAt(q, r) + w + e.duration) : w \in OnFoot(r, e.stop)} :
           r \in OpenRides, e \in {e \in links : Open(e.stop)}}
OneMoreRide(some) ==
  {Opened(x[1], x[2].achieved) :
     x \in {x \in OpenRides \X some : \E w \in OnFoot(x[1], x[2].stop) : R!AlightedAt(q, x[1]) + w <= x[2].departure}}
ContinuationsTo(links) ==
  LET suffixes[k \in 1 .. q.rounds] ==
        IF k = 1 THEN {x \in LastRides(links) : x.achieved <= Deadline} ELSE OneMoreRide(suffixes[k - 1])
  IN  suffixes

SeedsInUse == IF q.use = "nearest" THEN Range(q.owner) ELSE {AnySeed}
LinksOf(o) == {e \in q.egress : SeedOf(e) = o}

\* After the rounds, a stop's labels of k rides are continuations that can be
\* ridden, and leave none out that leaves later or arrives earlier than they
\* do, for each destination as if it were asked about alone (search.rs:80-111).
ContinuationsExact ==
  phase \in {"elect", "times", "nearest"} =>
    \A o \in SeedsInUse :
      LET suffixes == ContinuationsTo(LinksOf(o)) IN
      \A k \in 1 .. q.rounds, s \in Stops :
        LET exact == {x \in suffixes[k] : x.stop = s}
            held == {l \in bags[k][s] : Fixed(l) /\ l.rooted /\ l.seed = o}
        IN  /\ \A l \in held : \E x \in exact : x.departure = l.departure /\ x.achieved = l.achieved
            /\ \A x \in exact : \E l \in held : l.departure >= x.departure /\ l.achieved <= x.achieved

\* Walking through a stop of both tables, or all the way.
WalksThrough == {x[1].duration + x[2].duration : x \in {x \in q.access \X q.egress : x[1].stop = x[2].stop}}
WalkSeconds == WalksThrough \cup {q.walks[AnySeed]}

\* Whatever the forward engine reaches by a mark, leaving whenever, an answer
\* leaves as late, with no more rides, and arrives by the mark, or walking
\* does ("never a lost answer", search.rs:511).
NoAnswerLost ==
  phase = "answered" /\ q.use \in {"route", "profile"} =>
    \A d \in 0 .. Deadline : \A f \in ForwardAnswers(d), i \in DOMAIN q.marks :
      f.achieved <= q.marks[i] =>
        \/ \E c \in answers : NoWorse(c, f) /\ c.achieved <= q.marks[i]
        \/ \E w \in WalkSeconds : d + w <= q.marks[i]

\* A candidate is only dropped where walking through a stop of both the access
\* and the egress table is as fast (search.rs:507-515).
OnlyDetoursDropped ==
  phase = "answered" /\ q.use \in {"route", "profile"} =>
    \A c \in elected \ answers : \E w \in WalksThrough : c.departure + w <= c.achieved

\* The fast paths answer as asking for one destination, or from one origin, at
\* a time would: the origin's own winner, the destination it reaches soonest,
\* ties to the lowest ("Behavior-invariant with the per-destination fan-out",
\* access.rs:522).
AskedAlone(access, o) ==
  LET continuations == ContinuationsTo(LinksOf(o)) IN
  UNION {{Candidate(x.departure - link.duration, k, x.achieved) :
            x \in {x \in continuations[k] : x.stop = link.stop /\ link.duration <= x.departure}} :
           k \in 1 .. q.rounds, link \in access}
NearestAlone ==
  LET alone == [o \in Destinations |-> AskedAlone(q.access, o) \cup Placed(q.walks[o], Deadline)]
      reached == {o \in Destinations : alone[o] # {}}
      duration == [o \in reached |-> Duration(Winner(alone[o]))]
  IN  /\ answers = {} => reached = {}
      /\ \A a \in answers :
           /\ a.destination \in reached
           /\ a.duration = duration[a.destination]
           /\ \A o \in reached : a.duration <= duration[o]
           /\ \A o \in reached : o < a.destination => a.duration < duration[o]
TimesAlone ==
  \A s \in Stops :
    LET alone == AskedAlone({[stop |-> s, duration |-> 0]}, AnySeed) \cup WalkingOnly(s)
    IN  {a.winner : a \in {a \in answers : a.stop = s}} = IF alone = {} THEN {} ELSE {Winner(alone)}
FastPathsAgree ==
  phase = "answered" => /\ q.use = "nearest" => NearestAlone
                        /\ q.use = "times" => TimesAlone

\* An arrive-by answer is what the forward engine would answer for the mark,
\* but for detours walking makes needless, whichever path answered.
AnswersExact == NoAnswerLost /\ OnlyDetoursDropped /\ FastPathsAgree
=============================================================================
