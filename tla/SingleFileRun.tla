---------------------------- MODULE SingleFileRun ----------------------------
(***************************************************************************)
(* The other form of a streamed matrix (python/cafein/_streaming.py): an   *)
(* output whose name ends in .parquet is one file.  Jobs of several        *)
(* processes race for the name; none of them may ever overwrite it, and    *)
(* nobody may ever see half of it there.                                   *)
(*                                                                         *)
(* A step is one file-system operation, as in StreamingRun.  The content   *)
(* of a file is the job that wrote it and how many batches it holds.       *)
(***************************************************************************)
EXTENDS Integers

CONSTANTS
  Writers,        \* the processes a user may start on the output
  RowGroups,      \* how many batches the matrix has
  Foreign,        \* a file no job wrote
  NoFile,         \* there is no such file
  NoSidecar,      \* <name>.parquet.claim is absent
  StaleSidecar,   \* it was left behind by a job that ended
  MaxStarts,      \* bound: how many jobs the user starts
  MaxStrikes,     \* bound: how many kills and exceptions strike
  MaxForeign      \* bound: how often another program creates or removes the file

VARIABLES
  target,    \* the file at the final name
  sidecar,   \* the claim beside it
  staged,    \* staged[w]: the temporary of job w
  at,        \* at[w]: where job w stands
  starts, strikes, intrusions

fileVars == <<target, sidecar, staged, at, starts, strikes, intrusions>>
fileBounds == <<starts, strikes, intrusions>>

Over == {"idle", "returned", "failed"}
Holding == {"make", "write", "link", "tidy", "tidied", "drop", "dropped"}

FileInit == /\ target \in {NoFile, Foreign}
            /\ sidecar = NoSidecar
            /\ staged = [w \in Writers |-> NoFile]
            /\ at = [w \in Writers |-> "idle"]
            /\ starts = 0 /\ strikes = 0 /\ intrusions = 0

To(w, from, next) == at[w] = from /\ at' = [at EXCEPT ![w] = next]

\* With resume=TRUE the form is refused before anything is touched.
StartWriter(w) ==
  /\ at[w] \in Over
  /\ starts < MaxStarts
  /\ starts' = starts + 1
  /\ \E resume \in BOOLEAN :
       at' = [at EXCEPT ![w] = IF resume THEN "failed" ELSE "look"]
  /\ UNCHANGED <<target, sidecar, staged, strikes, intrusions>>

\* path.exists(), one operation before the claim.
LookForTarget(w) ==
  /\ To(w, "look", IF target = NoFile THEN "reserve" ELSE "failed")
  /\ UNCHANGED <<target, sidecar, staged, fileBounds>>

\* The exclusive creation of the sidecar.
Reserve(w) ==
  /\ \/ To(w, "reserve", "make") /\ sidecar = NoSidecar /\ sidecar' = w
     \/ To(w, "reserve", "failed") /\ sidecar # NoSidecar /\ UNCHANGED sidecar
  /\ UNCHANGED <<target, staged, fileBounds>>

MakeTemporary(w) ==
  /\ To(w, "make", "write")
  /\ staged' = [staged EXCEPT ![w] = [writer |-> w, batches |-> 0]]
  /\ UNCHANGED <<target, sidecar, fileBounds>>

\* One batch becomes one row group, unless its schema or a dictionary deviates;
\* when the batches are drained, writer and stream are closed.
WriteRowGroup(w) ==
  /\ at[w] = "write"
  /\ \/ /\ staged[w].batches < RowGroups
        /\ \/ /\ To(w, "write", "write")
              /\ staged' = [staged EXCEPT ![w] = [writer |-> w, batches |-> @.batches + 1]]
           \/ To(w, "write", "drop") /\ UNCHANGED staged
     \/ To(w, "write", "link") /\ staged[w].batches = RowGroups /\ UNCHANGED staged
  /\ UNCHANGED <<target, sidecar, fileBounds>>

\* A publication by os.replace.
PublishReplacing(w) ==
  /\ To(w, "link", "tidy")
  /\ target' = staged[w]
  /\ UNCHANGED <<sidecar, staged, fileBounds>>

\* os.link: fails where the name has been taken meanwhile.
Publish(w) ==
  /\ \/ To(w, "link", "tidy") /\ target = NoFile /\ target' = staged[w]
     \/ To(w, "link", "drop") /\ target # NoFile /\ UNCHANGED target
  /\ UNCHANGED <<sidecar, staged, fileBounds>>

\* _cleanup unlinks the temporary, then the claim, on both paths.
UnlinkTemporary(w) ==
  /\ To(w, "tidy", "tidied") \/ To(w, "drop", "dropped")
  /\ staged' = [staged EXCEPT ![w] = NoFile]
  /\ UNCHANGED <<target, sidecar, fileBounds>>

UnlinkSidecar(w) ==
  /\ To(w, "tidied", "returned") \/ To(w, "dropped", "failed")
  /\ sidecar' = NoSidecar
  /\ UNCHANGED <<target, staged, fileBounds>>

\* An exception.  Inside the try it goes through the same cleanup; before it,
\* where mkstemp itself fails, nothing removes the claim, although the comment
\* of the except branch says that a failed run leaves nothing behind.
Raise(w) ==
  /\ strikes < MaxStrikes
  /\ strikes' = strikes + 1
  /\ \/ (To(w, "write", "drop") \/ To(w, "link", "drop")) /\ UNCHANGED sidecar
     \/ To(w, "make", "failed") /\ sidecar' = StaleSidecar
  /\ UNCHANGED <<target, staged, starts, intrusions>>

\* The process dies; its temporary, of a unique name, is nobody's from now on.
Die(w) ==
  /\ strikes < MaxStrikes
  /\ strikes' = strikes + 1
  /\ at[w] \notin Over
  /\ at' = [at EXCEPT ![w] = "idle"]
  /\ staged' = [staged EXCEPT ![w] = NoFile]
  /\ sidecar' = IF sidecar = w THEN StaleSidecar ELSE sidecar
  /\ UNCHANGED <<target, starts, intrusions>>

\* The operator removes the claim of a job that has ended.
RemoveStaleSidecar ==
  /\ sidecar = StaleSidecar
  /\ sidecar' = NoSidecar
  /\ UNCHANGED <<target, staged, at, fileBounds>>

\* Another program creates or removes a file of that name.
Intrude ==
  /\ intrusions < MaxForeign
  /\ intrusions' = intrusions + 1
  /\ target' = IF target = NoFile THEN Foreign ELSE NoFile
  /\ UNCHANGED <<sidecar, staged, at, starts, strikes>>

Write(w) == \/ LookForTarget(w) \/ Reserve(w) \/ MakeTemporary(w) \/ WriteRowGroup(w)
            \/ Publish(w) \/ UnlinkTemporary(w) \/ UnlinkSidecar(w)

FileNext == \/ \E w \in Writers : StartWriter(w) \/ Write(w) \/ Raise(w) \/ Die(w)
            \/ RemoveStaleSidecar
            \/ Intrude

FileSpec == FileInit /\ [][FileNext]_fileVars

-----------------------------------------------------------------------------
\* "The no-overwrite promise holds even against a race" (write_stream): no step
\* of a job replaces a file at the final name, what it puts there is the whole
\* matrix, and a job that returned or failed by itself left neither its
\* temporary nor its claim behind, but never took away another job's.
OutputKept ==
  [][\A w \in Writers : Write(w) =>
       /\ target # NoFile => target' = target
       /\ target' # target => target' = [writer |-> w, batches |-> RowGroups]
       /\ at'[w] = "returned" \/ (at[w] \in Holding /\ at'[w] = "failed")
            => staged'[w] = NoFile /\ sidecar' # w
       /\ sidecar' # sidecar => w \in {sidecar, sidecar'}]_fileVars
=============================================================================
