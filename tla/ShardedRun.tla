----------------------------- MODULE ShardedRun -----------------------------
(***************************************************************************)
(* What the directory form of a streamed matrix promises, with no files,   *)
(* claims, temporaries or crashes in sight: a directory belongs to at most *)
(* one query, from the moment its manifest appears; a batch, once          *)
(* recorded, stays recorded; and nothing outside the query's batch plan is *)
(* ever recorded.  StreamingRun implements this specification.             *)
(***************************************************************************)
EXTENDS Integers

CONSTANTS Queries,      \* what a manifest fingerprint can identify
          BatchCount,   \* the number of batches each query is split into
          Unowned       \* the owner of a directory without a manifest

VARIABLES owner,        \* the query the directory's manifest records
          recorded      \* the indices of the batches it marks completed

runVars == <<owner, recorded>>

BatchesOf(q) == 0 .. (BatchCount[q] - 1)

Init == owner = Unowned /\ recorded = {}

Begin == /\ owner = Unowned
         /\ owner' \in Queries
         /\ recorded' = {}

Record == /\ owner # Unowned
          /\ \E i \in BatchesOf(owner) \ recorded : recorded' = recorded \cup {i}
          /\ UNCHANGED owner

Next == Begin \/ Record

Spec == Init /\ [][Next]_runVars
=============================================================================
