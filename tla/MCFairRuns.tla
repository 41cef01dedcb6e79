----------------------------- MODULE MCFairRuns -----------------------------
(* What must end: the streamed runs of one directory (StreamingRun), and   *)
(* the fan-outs and reconfigurations of Progress.  A behaviour is of one   *)
(* of the two, and the other stays where it begins, with nothing to do.    *)
EXTENDS MCStreamingRun, Progress

VARIABLE work     \* what a behaviour is of

\* Bars and lines, with the level that goes with each in the docs of enable_logging.
BarOrLines == {[info |-> FALSE, handler |-> "bar"], [info |-> TRUE, handler |-> "other"]}

RunsInit == Init /\ LogInit /\ work \in {"shards", "fan-out"}
RunsNext ==
  \/ work = "shards" /\ Next /\ UNCHANGED <<work, logVars>>
  \/ work = "fan-out" /\ LogNext /\ UNCHANGED <<work, vars>>
\* Threads and started jobs keep running, the operator removes dead claims, and
\* unfinished runs are rerun, as in Progress!LogFairSpec and StreamingRun!FairSpec.
RunsFair ==
  /\ \A u \in Users : WF_logVars(work = "fan-out" /\ Reconfigure(u))
  /\ \A r \in Runs : WF_logVars(work = "fan-out" /\ Fan(r)) /\ WF_logVars(work = "fan-out" /\ Finish(r))
  /\ \A r \in Runs : WF_logVars(work = "fan-out" /\ (Redrawn(r) \/ StopRedraw(r)))
  /\ \A r \in Runs, w \in Workers : /\ WF_logVars(work = "fan-out" /\ Tick(r, w))
                                   /\ WF_logVars(work = "fan-out" /\ Work(r, w))
  /\ \A j \in Jobs : WF_vars(work = "shards" /\ Program(j))
  /\ WF_vars(work = "shards" /\ RemoveStaleClaim)
  /\ WF_vars(work = "shards" /\ \E j \in Jobs : Rerun(j))
FairRunsSpec == RunsInit /\ [][RunsNext]_<<work, logVars, vars>> /\ RunsFair
=============================================================================
