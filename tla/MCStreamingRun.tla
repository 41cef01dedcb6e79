--------------------------- MODULE MCStreamingRun ---------------------------
(* Small instances of StreamingRun: query q1 of two batches, q2 of one.    *)
EXTENDS StreamingRun, TLC

CONSTANTS j1, j2, q1, q2, s1, s2

MCBatchCount == [q \in Queries |-> IF q = q1 THEN 2 ELSE 1]
JobSymmetry == Permutations(Jobs)
=============================================================================
