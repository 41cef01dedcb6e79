--------------------------- MODULE RaptorReference --------------------------
(***************************************************************************)
(* What a range search promises, said of Raptor's state in the terms of    *)
(* Itineraries: exact arrivals after every pass, canonical ties, a sound   *)
(* and complete frontier.                                                  *)
(***************************************************************************)
EXTENDS Raptor

R == INSTANCE Itineraries
EarliestArrival(D) == R!Earliest(q, D)

Departed == {q.departures[i] : i \in 1 .. pass}
PassEnded == pc = "collect" /\ round = 1

\* A finished pass has found, for every stop and every number of rides, the
\* earliest arrival over all departures processed so far, round by round what
\* one more ride and one footpath make of the round before: no order of scans,
\* pruning, mark, early exit or footpath left from the wrong arrival loses one.
PassExact ==
  PassEnded =>
    LET earliest == EarliestArrival(Departed) IN \A k \in Rounds : best[k] = earliest[k]

\* A closed transfer set's pass elects canonical chains: no ride or footpath
\* of the same arrival would beat the chain a label stands for, whatever order
\* patterns and stops were scanned in (path_key.rs).
CanonicalElection ==
  PassEnded /\ q.closed =>
    \A k \in 1 .. q.rounds, s \in Stops : tau[k][s] # Unreached =>
      /\ \A r \in [trip : q.trips, board : 1 .. 3, alight : 1 .. 3, offset : {0, Day}] :
           GoodRide(k, r, s) /\ AlightTime(r) = tau[k][s] => ~Challenges(TransitLabel(r), <<k, s>>)
      /\ \A e \in q.transfers :
           e.to = s /\ labels[k][e.from].kind = "transit" /\ tau[k][e.from] + e.duration = tau[k][s] =>
             ~Challenges(TransferLabel(e.from, e.duration), <<k, s>>)

\* Every emitted journey can be made as its legs say.
JourneysSound == \A j \in journeys : R!Feasible(q, j)

\* No emitted journey is dominated by another: later or equal departure,
\* earlier or equal arrival, no more rides; nor by not riding at all.
JourneysPareto == R!Undominated(journeys) /\ R!BeatWalking(q, journeys)

\* The frontier is complete: whatever rides reach before walking does, from
\* any instant of the window, a candidate departure or not, an emitted journey
\* is as good in all three ("enumerates the distinct departure choices the
\* window offers", matrices.rs:735-746).
FrontierComplete == pc = "done" => R!Complete(q, q.window, journeys)

\* The journeys of a window are its Pareto frontier, no more and no less: the
\* thresholds later departures left behind hide none and let no dominated one
\* through (search.rs, emit and collect).
FrontierExact == JourneysSound /\ JourneysPareto /\ FrontierComplete
=============================================================================
