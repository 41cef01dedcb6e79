-------------------------- MODULE MCStreamedOutput --------------------------
(* A streamed output in either form: resolve_output decides by the suffix  *)
(* of its name whether the jobs started on it write a directory of shards  *)
(* (StreamingRun) or one file (SingleFileRun).                             *)
EXTENDS MCStreamingRun, SingleFileRun

VARIABLE form   \* "directory" or "file": the suffix of the output's name

OutputInit == /\ Init /\ FileInit
              /\ form \in {"directory", "file"}
              /\ form = "directory" => target = NoFile

OutputNext == \/ form = "directory" /\ WriterNext /\ UNCHANGED <<form, fileVars>>
              \/ form = "file" /\ FileNext /\ UNCHANGED <<form, vars>>

OutputSpec == OutputInit /\ [][OutputNext]_<<form, vars, fileVars>>
=============================================================================
