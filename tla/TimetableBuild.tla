--------------------------- MODULE TimetableBuild ---------------------------
(***************************************************************************)
(* From the trips of a feed to the timetable the routers search            *)
(* (cafein-gtfs timetable.rs, cafein-core timetable.rs), and the boarding  *)
(* lookups that rely on what the build left behind (the binary searches at *)
(* the end of routers/raptor/search.rs).                                   *)
(*                                                                         *)
(* One step reads one feed trip, places one trip into a FIFO chain, or     *)
(* halves the range of one lookup.  The CSR layout is abstracted to a      *)
(* sequence of patterns with their trips; a trip is named by its source,   *)
(* its index in the feed.                                                  *)
(***************************************************************************)
EXTENDS Integers, Sequences, FiniteSets

CONSTANTS
  Feeds,     \* the feeds: sequences of trips with their route, stops and times
  Blank,     \* an empty time field of stop_times.txt
  Reached,   \* bound: the times a lookup is asked about
  NoTrip     \* a lookup that found nothing

Fields == Nat \cup {Blank}
FeedTrips == [route : Nat, stops : Seq(Nat), times : Seq([arrival : Fields, departure : Fields])]

ASSUME BlankAssumption == Blank \notin Nat
ASSUME FeedsAssumption ==
         \A f \in Feeds : /\ f \in Seq(FeedTrips)
                          /\ \A t \in DOMAIN f : Len(f[t].times) = Len(f[t].stops)
ASSUME ReachedAssumption == Reached \subseteq Nat
ASSUME NoTripAssumption == NoTrip \notin Nat

VARIABLES
  feed,          \* the feed being built: chosen at first, never changed
  pc,            \* "reading", "chaining", "built", "halving" or "answered"
  next,          \* the feed trip read next
  registered,    \* the patterns registered so far, in order
  times,         \* the builder's trips: source -> the stop times it was added with
  pattern_of,    \* the builder's trips: source -> its registered pattern
  quarantined,   \* the trips excluded
  interpolated,  \* the trips whose blank times were filled
  at,            \* the registered pattern finish is splitting
  left,          \* the trips finish has not placed yet
  chains,        \* the FIFO chains of pattern at
  patterns,      \* the final patterns: their stops, route and trips in order
  ask,           \* the lookup under way
  low, high,     \* the range its binary search has left
  answer         \* the trip it found

vars == <<feed, pc, next, registered, times, pattern_of, quarantined, interpolated,
          at, left, chains, patterns, ask, low, high, answer>>
reading == <<next, registered, times, pattern_of, quarantined, interpolated>>
finishing == <<at, left, chains, patterns>>
lookup == <<ask, low, high, answer>>

----------------------------------------------------------------------------
(* Reading a feed trip.                                                    *)

\* A lone arrival or departure stands for both; without either the stop is blank.
Timed(field) ==
  IF field.arrival = Blank /\ field.departure # Blank
    THEN [arrival |-> field.departure, departure |-> field.departure]
  ELSE IF field.departure = Blank
    THEN [arrival |-> field.arrival, departure |-> field.arrival]
  ELSE field
IsTimed(field) == field.arrival # Blank

\* interpolate_stop_times: a blank stop lies evenly between the timed stops
\* around it.  Mutant: measured from the anchor's arrival.
FromArrival(given, i) ==
  LET before == CHOOSE a \in 1 .. i - 1 :
                  IsTimed(given[a]) /\ \A j \in a + 1 .. i - 1 : ~IsTimed(given[j])
      after == CHOOSE b \in i + 1 .. Len(given) :
                  IsTimed(given[b]) /\ \A j \in i + 1 .. b - 1 : ~IsTimed(given[j])
      start == given[before].arrival
      span == IF given[after].arrival > start THEN given[after].arrival - start ELSE 0
  IN  start + (span * (i - before)) \div (after - before)
Between(given, i) ==
  LET before == CHOOSE a \in 1 .. i - 1 :
                  IsTimed(given[a]) /\ \A j \in a + 1 .. i - 1 : ~IsTimed(given[j])
      after == CHOOSE b \in i + 1 .. Len(given) :
                  IsTimed(given[b]) /\ \A j \in i + 1 .. b - 1 : ~IsTimed(given[j])
      start == given[before].departure
      span == IF given[after].arrival > start THEN given[after].arrival - start ELSE 0
  IN  start + (span * (i - before)) \div (after - before)

Filled(given) ==
  [i \in 1 .. Len(given) |->
     IF IsTimed(given[i]) THEN given[i]
     ELSE LET t == Between(given, i) IN [arrival |-> t, departure |-> t]]

Anchored(given) == IsTimed(given[1]) /\ IsTimed(given[Len(given)])

\* TimetableBuilder::add_trip's check.
Forwards(stop_times) ==
  \A i \in 1 .. Len(stop_times) :
    /\ stop_times[i].arrival <= stop_times[i].departure
    /\ i > 1 => stop_times[i - 1].departure <= stop_times[i].arrival

Quarantine == /\ quarantined' = quarantined \cup {next}
              /\ UNCHANGED <<registered, times, pattern_of, interpolated>>

Add(given) ==
  LET trip == feed[next]
      key == [route |-> trip.route, stops |-> trip.stops]
      known == \E p \in 1 .. Len(registered) : registered[p] = key
      all == IF known THEN registered ELSE Append(registered, key)
      filled == Filled(given)
  IN  /\ registered' = all
      /\ interpolated' = IF \A i \in 1 .. Len(given) : IsTimed(given[i])
                           THEN interpolated ELSE interpolated \cup {next}
      /\ IF Forwards(filled)
           THEN /\ times' = [t \in DOMAIN times \cup {next} |->
                               IF t = next THEN filled ELSE times[t]]
                /\ pattern_of' = [t \in DOMAIN pattern_of \cup {next} |->
                                    IF t = next THEN CHOOSE p \in 1 .. Len(all) : all[p] = key
                                    ELSE pattern_of[t]]
                /\ UNCHANGED quarantined
           ELSE /\ quarantined' = quarantined \cup {next}
                /\ UNCHANGED <<times, pattern_of>>

\* build_timetable: one trip of the feed.
ReadTrip ==
  /\ pc = "reading"
  /\ next <= Len(feed)
  /\ LET given == [i \in 1 .. Len(feed[next].times) |-> Timed(feed[next].times[i])]
     IN  IF Len(given) < 2 \/ ~Anchored(given) THEN Quarantine ELSE Add(given)
  /\ next' = next + 1
  /\ UNCHANGED <<feed, pc, finishing, lookup>>

----------------------------------------------------------------------------
(* TimetableBuilder::finish.                                               *)

StartFinish ==
  /\ pc = "reading"
  /\ next > Len(feed)
  /\ pc' = "chaining"
  /\ left' = DOMAIN times
  /\ UNCHANGED <<feed, reading, at, chains, patterns, lookup>>

\* compare_stop_times: by arrival, then departure, at the first stop that differs.
Earlier(a, b) == \/ a.arrival < b.arrival
                 \/ a.arrival = b.arrival /\ a.departure < b.departure
LexBefore(a, b) ==
  \E i \in 1 .. Len(a) : Earlier(a[i], b[i]) /\ \A j \in 1 .. i - 1 : a[j] = b[j]

\* The stable sort of the trips of one registered pattern.
SortsBefore(t, u) ==
  \/ times[t][1].departure < times[u][1].departure
  \/ /\ times[t][1].departure = times[u][1].departure
     /\ LexBefore(times[t], times[u]) \/ (times[t] = times[u] /\ t < u)

\* No overtaking: later runs at or after earlier at every stop.
Follows(later, earlier) ==
  \A i \in 1 .. Len(later) : /\ later[i].arrival >= earlier[i].arrival
                             /\ later[i].departure >= earlier[i].departure

\* Mutant: the chain's first trip is the one compared with.
FitsFirst(t, chain) == Follows(times[t], times[chain[1]])
Fits(t, chain) == Follows(times[t], times[chain[Len(chain)]])

\* The next trip in the sort order goes to the first chain it fits.
PlaceTrip(t) ==
  /\ pc = "chaining"
  /\ t \in left
  /\ pattern_of[t] = at
  /\ \A u \in left : u # t /\ pattern_of[u] = at => SortsBefore(t, u)
  /\ \/ \E c \in 1 .. Len(chains) :
          /\ Fits(t, chains[c])
          /\ \A d \in 1 .. c - 1 : ~Fits(t, chains[d])
          /\ chains' = [chains EXCEPT ![c] = Append(@, t)]
     \/ /\ \A c \in 1 .. Len(chains) : ~Fits(t, chains[c])
        /\ chains' = Append(chains, <<t>>)
  /\ left' = left \ {t}
  /\ UNCHANGED <<feed, pc, reading, at, patterns, lookup>>

\* Every chain becomes a pattern of its own; a pattern without trips is dropped.
FinishPattern ==
  /\ pc = "chaining"
  /\ at <= Len(registered)
  /\ \A t \in left : pattern_of[t] # at
  /\ patterns' = patterns \o
       [c \in 1 .. Len(chains) |->
          [stops |-> registered[at].stops, route |-> registered[at].route, trips |-> chains[c]]]
  /\ chains' = <<>>
  /\ at' = at + 1
  /\ UNCHANGED <<feed, pc, reading, left, lookup>>

Built ==
  /\ pc = "chaining"
  /\ at > Len(registered)
  /\ pc' = "built"
  /\ UNCHANGED <<feed, reading, finishing, lookup>>

----------------------------------------------------------------------------
(* earliest_active_trip and latest_active_trip.                            *)

TripsAsked == patterns[ask.pattern].trips

\* usable: the trips whose service is active and that no exclusion names.
\* A pattern of an excluded route is never searched.
Ask(latest, p, i, reached, usable, route_excluded) ==
  /\ pc = "built"
  /\ ask' = [latest |-> latest, pattern |-> p, position |-> i, reached |-> reached,
             usable |-> usable, route_excluded |-> route_excluded]
  /\ low' = 1
  /\ high' = Len(patterns[p].trips) + 1
  /\ answer' = NoTrip
  /\ pc' = IF route_excluded THEN "answered" ELSE "halving"
  /\ UNCHANGED <<feed, reading, finishing>>

\* Mutant: a trip that leaves as the traveller arrives is passed over.
PassedStrictly(t) ==
  LET at_stop == times[t][ask.position]
  IN  at_stop.arrival <= ask.reached /\ (ask.latest \/ at_stop.departure <= ask.reached)
\* Does the trip at mid belong before the boundary the search is after?
Passed(t) ==
  LET at_stop == times[t][ask.position]
  IN  IF ask.latest THEN at_stop.arrival <= ask.reached
                    ELSE at_stop.departure < ask.reached

\* The range left when the trips up to mid belong before the boundary.
Beyond(mid) == mid + 1

Halve ==
  /\ pc = "halving"
  /\ low < high
  /\ LET mid == low + (high - low) \div 2
     IN  IF Passed(TripsAsked[mid]) THEN low' = Beyond(mid) /\ UNCHANGED high
                                    ELSE high' = mid /\ UNCHANGED low
  /\ UNCHANGED <<feed, pc, reading, finishing, ask, answer>>

\* The first usable trip on from the boundary: upwards, or downwards from before it.
Find ==
  /\ pc = "halving"
  /\ low >= high
  /\ LET range == IF ask.latest THEN 1 .. low - 1 ELSE low .. Len(TripsAsked)
         usable == {i \in range : TripsAsked[i] \in ask.usable}
     IN  answer' = IF usable = {} THEN NoTrip
                   ELSE TripsAsked[CHOOSE i \in usable : \A j \in usable :
                                     IF ask.latest THEN j <= i ELSE i <= j]
  /\ pc' = "answered"
  /\ UNCHANGED <<feed, reading, finishing, ask, low, high>>

\* The lookup is over: the router may ask the next one.
Return ==
  /\ pc = "answered"
  /\ pc' = "built"
  /\ ask' = <<>> /\ low' = 1 /\ high' = 1 /\ answer' = NoTrip
  /\ UNCHANGED <<feed, reading, finishing>>

\* A timetable without patterns answers nothing: the system may rest there.
NothingToAsk == pc = "built" /\ patterns = <<>> /\ UNCHANGED vars

----------------------------------------------------------------------------
Init ==
  /\ feed \in Feeds
  /\ pc = "reading" /\ next = 1
  /\ registered = <<>>
  /\ times = [t \in {} |-> <<>>] /\ pattern_of = [t \in {} |-> 0]
  /\ quarantined = {} /\ interpolated = {}
  /\ at = 1 /\ left = {} /\ chains = <<>> /\ patterns = <<>>
  /\ ask = <<>> /\ low = 1 /\ high = 1 /\ answer = NoTrip

Next ==
  \/ ReadTrip
  \/ StartFinish
  \/ \E t \in left : PlaceTrip(t)
  \/ FinishPattern
  \/ Built
  \/ \E latest, route_excluded \in BOOLEAN, p \in 1 .. Len(patterns), reached \in Reached,
        usable \in SUBSET DOMAIN times :
       \E i \in 1 .. Len(patterns[p].stops) : Ask(latest, p, i, reached, usable, route_excluded)
  \/ Halve
  \/ Find
  \/ Return
  \/ NothingToAsk

Spec == Init /\ [][Next]_vars

----------------------------------------------------------------------------
(* Properties.                                                            *)

StopTimes == Seq([arrival : Nat, departure : Nat])
Keys == [route : Nat, stops : Seq(Nat)]
Sources == DOMAIN feed

\* Every variable has its type, and a lookup's range stays inside the trips
\* of the pattern it was asked about.
TypeOK ==
  /\ feed \in Feeds
  /\ pc \in {"reading", "chaining", "built", "halving", "answered"}
  /\ next \in 1 .. Len(feed) + 1
  /\ registered \in Seq(Keys)
  /\ DOMAIN times \subseteq Sources /\ times \in [DOMAIN times -> StopTimes]
  /\ pattern_of \in [DOMAIN times -> 1 .. Len(registered)]
  /\ quarantined \subseteq Sources /\ interpolated \subseteq Sources
  /\ at \in 1 .. Len(registered) + 1
  /\ left \subseteq DOMAIN times
  /\ chains \in Seq(Seq(DOMAIN times))
  /\ patterns \in Seq([stops : Seq(Nat), route : Nat, trips : Seq(DOMAIN times)])
  /\ answer \in DOMAIN times \cup {NoTrip}
  /\ pc \in {"halving", "answered"} =>
       /\ ask \in [latest : BOOLEAN, pattern : 1 .. Len(patterns), position : Nat \ {0},
                  reached : Reached, usable : SUBSET DOMAIN times, route_excluded : BOOLEAN]
       /\ ask.position <= Len(patterns[ask.pattern].stops)
       /\ low \in 1 .. high
       /\ high \in 1 .. Len(TripsAsked) + 1

\* No trip of a chain, or of the pattern it becomes, overtakes an earlier
\* one at any stop: what finish's splitting is for, and what every binary
\* search and every range search of the routers takes for granted.
NoOvertaking ==
  /\ \A c \in 1 .. Len(chains) : \A i, j \in 1 .. Len(chains[c]) :
       i < j => Follows(times[chains[c][j]], times[chains[c][i]])
  /\ \A p \in 1 .. Len(patterns) : \A i, j \in 1 .. Len(patterns[p].trips) :
       i < j => Follows(times[patterns[p].trips[j]], times[patterns[p].trips[i]])

\* A registered pattern is split only where its trips overtake: each trip of
\* a later chain overtakes, and is overtaken by, some trip of every earlier
\* chain of the same route and stops (the promise of finish's comment that
\* the trips moved out are those that violate FIFO, whatever order the feed
\* lists ties in).
SplitOnlyOnOvertaking ==
  \A p, r \in 1 .. Len(patterns) :
    p < r /\ patterns[p].route = patterns[r].route /\ patterns[p].stops = patterns[r].stops =>
      \A t \in {patterns[r].trips[j] : j \in 1 .. Len(patterns[r].trips)} :
        \E i \in 1 .. Len(patterns[p].trips) :
          LET u == patterns[p].trips[i]
          IN  ~Follows(times[t], times[u]) /\ ~Follows(times[u], times[t])

\* A trip no timetable can hold: nowhere to ride to, an end without a time,
\* or given times that run backwards.
Flawed(t) ==
  LET given == [i \in 1 .. Len(feed[t].times) |-> Timed(feed[t].times[i])]
  IN  \/ Len(given) < 2
      \/ ~Anchored(given)
      \/ \E i \in 1 .. Len(given) :
           /\ IsTimed(given[i])
           /\ \/ given[i].departure < given[i].arrival
              \/ \E j \in 1 .. i - 1 :
                   IsTimed(given[j]) /\ given[i].arrival < given[j].departure

\* In which final patterns, and where, trip t is listed.
Places(t) ==
  UNION {{<<p, i>> : i \in {j \in 1 .. Len(patterns[p].trips) : patterns[p].trips[j] = t}} :
           p \in 1 .. Len(patterns)}

\* The build loses nothing: exactly the trips that are flawed as given are
\* quarantined (filling blanks never spoils a good trip), and every other one
\* is listed exactly once, under its own route and stops, with every time
\* its feed gave, running forwards.
TripsConserved ==
  pc \notin {"reading", "chaining"} => \A t \in Sources :
    IF Flawed(t) THEN t \in quarantined /\ Places(t) = {}
    ELSE /\ t \notin quarantined
         /\ Cardinality(Places(t)) = 1
         /\ \A place \in Places(t) : /\ patterns[place[1]].route = feed[t].route
                                     /\ patterns[place[1]].stops = feed[t].stops
         /\ Forwards(times[t])
         /\ \A i \in 1 .. Len(times[t]) :
              /\ feed[t].times[i].arrival # Blank => times[t][i].arrival = feed[t].times[i].arrival
              /\ feed[t].times[i].departure # Blank =>
                   times[t][i].departure = feed[t].times[i].departure

\* What a lookup may return: a usable trip of the pattern that leaves the
\* stop no earlier than the traveller is there, or arrives no later.
Catchable ==
  IF ask.route_excluded THEN {}
  ELSE {t \in ask.usable :
          /\ \E i \in 1 .. Len(TripsAsked) : TripsAsked[i] = t
          /\ IF ask.latest THEN times[t][ask.position].arrival <= ask.reached
                           ELSE times[t][ask.position].departure >= ask.reached}

\* A lookup returns a trip whenever one can be caught, and the best one at
\* every stop at once: no trip that could be caught instead is ahead of the
\* earliest one, or behind the latest one, at any stop of the pattern.
LookupExact ==
  pc = "answered" =>
    IF Catchable = {} THEN answer = NoTrip
    ELSE /\ answer \in Catchable
         /\ \A t \in Catchable : IF ask.latest THEN Follows(times[answer], times[t])
                                              ELSE Follows(times[t], times[answer])

\* The patterns are FIFO, and as few as that takes: first-fit neither leaves an
\* overtaken trip in a chain nor splits one off that fitted (timetable.rs
\* finish).
SplitsExact == NoOvertaking /\ SplitOnlyOnOvertaking
=============================================================================
