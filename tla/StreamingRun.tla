---------------------------- MODULE StreamingRun ----------------------------
(***************************************************************************)
(* The directory form of a streamed matrix (python/cafein/_streaming.py):  *)
(* jobs of several processes that write, or resume, one output directory   *)
(* of shards beside a manifest.json, and a reader that loads it.           *)
(*                                                                         *)
(* Every step of a job is one file-system operation (or a pure decision    *)
(* between two of them), so a kill, an exception and the steps of the      *)
(* other processes fall at every point between two operations.  File       *)
(* contents are abstract: the content of a shard is the query, the Arrow   *)
(* schema and the batch index it was computed from, and the sha256 a       *)
(* manifest entry records stands for the content it was taken from.        *)
(***************************************************************************)
EXTENDS Integers, FiniteSets

CONSTANTS
  Jobs,         \* the processes a user may start on the directory
  Queries,      \* query fingerprints (inputs, parameters, network, batch_size)
  BatchCount,   \* BatchCount[q]: ceil(origin_count / batch_size) of query q
  Schemas,      \* Arrow schemas the installed pyarrow may give a query
  NoJob,        \* the process does not run
  NoManifest,   \* manifest.json is absent
  NoSchema,     \* the manifest has no schema_digest yet
  Absent,       \* the part file is missing
  Damaged,      \* bytes no run wrote
  NoClaim,      \* run.claim is absent
  StaleClaim,   \* run.claim was left behind by a killed job
  MaxLaunches,  \* bound: how many jobs the user starts by choice
  MaxFaults,    \* bound: how many kills and exceptions strike
  MaxTampered   \* bound: how many part files the environment alters

ASSUME BatchCountAssumption == BatchCount \in [Queries -> Nat \ {0}]
ASSUME BoundsAssumption == MaxLaunches \in Nat /\ MaxFaults \in Nat /\ MaxTampered \in Nat
ASSUME SentinelAssumption == /\ NoClaim \notin Jobs
                             /\ StaleClaim \notin Jobs
                             /\ NoClaim # StaleClaim
                             /\ NoSchema \notin Schemas

Batches == UNION {0 .. (BatchCount[q] - 1) : q \in Queries}
Plan(q) == 0 .. (BatchCount[q] - 1)

Shard(q, s, i) == [query |-> q, schema |-> s, batch |-> i]
Contents == [query : Queries, schema : Schemas, batch : Batches]
FileContents == Contents \cup {Damaged}
Entries == [index : Batches, sha256 : FileContents]
Manifests == [query : Queries, schema : Schemas \cup {NoSchema}, shards : SUBSET Entries]
JobSpecs == [resume : BOOLEAN, query : Queries, schema : Schemas]

ASSUME ValueAssumption == /\ NoManifest \notin Manifests \cup Queries
                          /\ NoJob \notin JobSpecs
                          /\ Damaged \notin Contents
                          /\ Absent \notin FileContents

VARIABLES
  manifest,   \* manifest.json
  parts,      \* parts[i]: the file part-0000i.parquet
  claim,      \* run.claim: absent, a live job's, or a dead job's
  strays,     \* are there *.tmp files no live job owns?
  tmp,        \* tmp[j]: does job j's current *.tmp file exist?
  pc,         \* pc[j]: where job j stands
  job,        \* job[j]: what job j was started for
  mem,        \* mem[j]: job j's in-memory manifest
  todo,       \* todo[j]: entries a resume has still to verify
  launches,   \* bound: jobs started by choice so far
  faults,     \* bound: kills and exceptions so far
  tampered,   \* history: the part files the environment has altered
  reader,     \* where the reader stands
  rman,       \* the manifest the reader parsed
  table       \* table[i]: the shard content the reader holds for batch i

files == <<manifest, parts, claim, strays, tmp>>
jobVars == <<pc, job, mem, todo>>
readerVars == <<reader, rman, table>>
bounds == <<launches, faults, tampered>>
vars == <<files, jobVars, readerVars, bounds>>

\* A job that failed, or was killed, is idle again; one that returned is done.
Ended == {"idle", "done"}
Claimless == {"resolve", "claim"}
\* The places at which a job believes it holds run.claim.
Claiming == {"seed", "link", "unlink", "discard", "validate", "verify", "sweep", "drop",
             "recover", "batch", "publish", "record", "marker", "close", "release", "abort"}
\* The places at which a job owns a temporary file.
Staging == {"link", "unlink", "discard", "publish", "marker", "close"}

RecordedIn(m) == {e.index : e \in m.shards}
Remaining(j) == Plan(job[j].query) \ RecordedIn(mem[j])
FirstOf(S, i) == i \in S /\ \A k \in S : i <= k
\* any(path.iterdir()) is False
DirectoryEmpty == /\ manifest = NoManifest
                  /\ claim = NoClaim
                  /\ ~strays
                  /\ \A j \in Jobs : ~tmp[j]
                  /\ \A i \in Batches : parts[i] = Absent

Complete(m) == RecordedIn(m) = Plan(m.query)

\* The batches the reader has still to load.
Unread == {i \in Plan(rman.query) : table[i] = Absent}
NoTable == [i \in Batches |-> Absent]

Init == /\ manifest = NoManifest
        /\ parts = [i \in Batches |-> Absent]
        /\ claim = NoClaim
        /\ strays = FALSE
        /\ tmp = [j \in Jobs |-> FALSE]
        /\ pc = [j \in Jobs |-> "idle"]
        /\ job = [j \in Jobs |-> NoJob]
        /\ mem = [j \in Jobs |-> NoManifest]
        /\ todo = [j \in Jobs |-> {}]
        /\ launches = 0
        /\ faults = 0
        /\ tampered = {}
        /\ reader = "idle"
        /\ rman = NoManifest
        /\ table = NoTable

-----------------------------------------------------------------------------
(* Steps of a job.                                                         *)

Goto(j, from, to) == pc[j] = from /\ pc' = [pc EXCEPT ![j] = to]

\* The job's frame ends: what it kept in memory is gone.
End(j, how) == /\ pc' = [pc EXCEPT ![j] = how]
               /\ job' = [job EXCEPT ![j] = NoJob]
               /\ mem' = [mem EXCEPT ![j] = NoManifest]
               /\ todo' = [todo EXCEPT ![j] = {}]

Start(j, resume, q, s) ==
  /\ pc[j] \in Ended
  /\ pc' = [pc EXCEPT ![j] = "resolve"]
  /\ job' = [job EXCEPT ![j] = [resume |-> resume, query |-> q, schema |-> s]]
  /\ UNCHANGED <<files, mem, todo, readerVars, faults, tampered>>

\* The user starts a job, fresh or resuming, for any query.
Launch(j) == /\ launches < MaxLaunches
             /\ launches' = launches + 1
             /\ \E resume \in BOOLEAN, q \in Queries, s \in Schemas : Start(j, resume, q, s)

\* The user reruns the unfinished query with resume=True, once nobody is at it.
Rerun(j) == /\ manifest # NoManifest
            /\ ~Complete(manifest)
            /\ claim = NoClaim
            /\ \A k \in Jobs : pc[k] \in Ended
            /\ \E s \in Schemas : /\ manifest.schema \in {s, NoSchema}
                                  /\ Start(j, TRUE, manifest.query, s)
            /\ UNCHANGED launches

ResolveOutput(j) ==
  /\ pc[j] = "resolve"
  /\ IF job[j].resume \/ DirectoryEmpty
       THEN pc' = [pc EXCEPT ![j] = "claim"] /\ UNCHANGED <<job, mem, todo>>
       ELSE End(j, "idle")
  /\ UNCHANGED <<files, readerVars, bounds>>

\* A claim_run that takes no notice of an existing run.claim.
ClaimRunUnchecked(j) ==
  /\ Goto(j, "claim", IF job[j].resume THEN "validate" ELSE "seed")
  /\ claim' = j
  /\ UNCHANGED <<manifest, parts, strays, tmp, job, mem, todo, readerVars, bounds>>

ClaimRun(j) ==
  /\ pc[j] = "claim"
  /\ IF claim = NoClaim
       THEN /\ claim' = j
            /\ pc' = [pc EXCEPT ![j] = IF job[j].resume THEN "validate" ELSE "seed"]
            /\ UNCHANGED <<job, mem, todo>>
       ELSE End(j, "idle") /\ UNCHANGED claim
  /\ UNCHANGED <<manifest, parts, strays, tmp, readerVars, bounds>>

SeedManifest(j) ==
  /\ Goto(j, "seed", "link")
  /\ mem' = [mem EXCEPT ![j] = [query |-> job[j].query, schema |-> NoSchema, shards |-> {}]]
  /\ tmp' = [tmp EXCEPT ![j] = TRUE]
  /\ UNCHANGED <<manifest, parts, claim, strays, job, todo, readerVars, bounds>>

\* A first publication by os.replace instead of the exclusive os.link.
LinkManifestReplacing(j) ==
  /\ Goto(j, "link", "unlink")
  /\ manifest' = mem[j]
  /\ UNCHANGED <<parts, claim, strays, tmp, job, mem, todo, readerVars, bounds>>

LinkManifest(j) ==
  /\ pc[j] = "link"
  /\ IF tmp[j] /\ manifest = NoManifest
       THEN manifest' = mem[j] /\ pc' = [pc EXCEPT ![j] = "unlink"]
       ELSE UNCHANGED manifest /\ pc' = [pc EXCEPT ![j] = "discard"]
  /\ UNCHANGED <<parts, claim, strays, tmp, job, mem, todo, readerVars, bounds>>

\* The finally branch of write_manifest(claim=True), after success and failure.
UnlinkSeed(j) ==
  /\ \/ Goto(j, "unlink", "batch")
     \/ Goto(j, "discard", "abort")
  /\ tmp' = [tmp EXCEPT ![j] = FALSE]
  /\ UNCHANGED <<manifest, parts, claim, strays, job, mem, todo, readerVars, bounds>>

\* A resume that never compares fingerprints.
ValidateAnyQuery(j) ==
  /\ pc[j] = "validate"
  /\ IF manifest # NoManifest
       THEN /\ mem' = [mem EXCEPT ![j] = manifest]
            /\ todo' = [todo EXCEPT ![j] = manifest.shards]
            /\ pc' = [pc EXCEPT ![j] = "verify"]
       ELSE pc' = [pc EXCEPT ![j] = "abort"] /\ UNCHANGED <<mem, todo>>
  /\ UNCHANGED <<files, job, readerVars, bounds>>

Validate(j) ==
  /\ pc[j] = "validate"
  /\ IF manifest # NoManifest /\ manifest.query = job[j].query
       THEN /\ mem' = [mem EXCEPT ![j] = manifest]
            /\ todo' = [todo EXCEPT ![j] = manifest.shards]
            /\ pc' = [pc EXCEPT ![j] = "verify"]
       ELSE pc' = [pc EXCEPT ![j] = "abort"] /\ UNCHANGED <<mem, todo>>
  /\ UNCHANGED <<files, job, readerVars, bounds>>

\* A verification that trusts the record once the file exists.
VerifiedByPresence(e, m) == parts[e.index] # Absent

\* _verify_shard_file: rows, schema and hash of the published bytes.
Verified(e, m) == /\ parts[e.index] \in Contents
                  /\ parts[e.index].schema = m.schema
                  /\ parts[e.index] = e.sha256

VerifyShard(j) ==
  /\ pc[j] = "verify"
  /\ IF todo[j] = {}
       THEN pc' = [pc EXCEPT ![j] = "sweep"] /\ UNCHANGED todo
       ELSE \E e \in todo[j] :
              /\ \A f \in todo[j] : e.index <= f.index
              /\ todo' = [todo EXCEPT ![j] = @ \ {e}]
              /\ IF /\ e.index \in Plan(job[j].query)
                    /\ \A f \in mem[j].shards : f.index = e.index => f = e
                    /\ Verified(e, mem[j])
                   THEN UNCHANGED pc
                   ELSE pc' = [pc EXCEPT ![j] = "abort"]
  /\ UNCHANGED <<files, job, mem, readerVars, bounds>>

SweepTemporaries(j) ==
  /\ Goto(j, "sweep", "drop")
  /\ strays' = FALSE
  /\ tmp' = [k \in Jobs |-> FALSE]
  /\ UNCHANGED <<manifest, parts, claim, job, mem, todo, readerVars, bounds>>

\* The part files without a completion marker.
Unmarked(j) == {i \in Batches : parts[i] # Absent} \ RecordedIn(mem[j])

\* A resume that takes a leftover part file for a foreign one.
DropUnmarkedPartRefusing(j) ==
  /\ Goto(j, "drop", IF Unmarked(j) # {} THEN "abort"
                     ELSE IF Remaining(j) = {} THEN "recover" ELSE "batch")
  /\ UNCHANGED <<files, job, mem, todo, readerVars, bounds>>

DropUnmarkedPart(j) ==
  /\ pc[j] = "drop"
  /\ IF Unmarked(j) = {}
       THEN /\ pc' = [pc EXCEPT ![j] = IF Remaining(j) = {} THEN "recover" ELSE "batch"]
            /\ UNCHANGED parts
       ELSE \E i \in Unmarked(j) :
              IF i \in Plan(job[j].query)
                THEN parts' = [parts EXCEPT ![i] = Absent] /\ UNCHANGED pc
                ELSE pc' = [pc EXCEPT ![j] = "abort"] /\ UNCHANGED parts
  /\ UNCHANGED <<manifest, claim, strays, tmp, job, mem, todo, readerVars, bounds>>

\* Every batch was already complete: the schema comes from the first shard.
RecoverSchema(j) ==
  /\ pc[j] = "recover"
  /\ \E e \in mem[j].shards :
       /\ \A f \in mem[j].shards : e.index <= f.index
       /\ IF parts[e.index] \in Contents /\ mem[j].schema \in {NoSchema, parts[e.index].schema}
            THEN pc' = [pc EXCEPT ![j] = "close"] /\ tmp' = [tmp EXCEPT ![j] = TRUE]
            ELSE pc' = [pc EXCEPT ![j] = "abort"] /\ UNCHANGED tmp
  /\ UNCHANGED <<manifest, parts, claim, strays, job, mem, todo, readerVars, bounds>>

\* The next batch is routed, checked against the manifest's schema and written
\* under a temporary name; when none is left, the closing manifest is staged.
WriteShard(j) ==
  /\ pc[j] = "batch"
  /\ IF Remaining(j) = {}
       THEN /\ pc' = [pc EXCEPT ![j] = "close"]
            /\ tmp' = [tmp EXCEPT ![j] = TRUE]
            /\ UNCHANGED mem
       ELSE IF mem[j].schema \in {NoSchema, job[j].schema}
         THEN /\ mem' = [mem EXCEPT ![j].schema = job[j].schema]
              /\ tmp' = [tmp EXCEPT ![j] = TRUE]
              /\ pc' = [pc EXCEPT ![j] = "publish"]
         ELSE pc' = [pc EXCEPT ![j] = "abort"] /\ UNCHANGED <<mem, tmp>>
  /\ UNCHANGED <<manifest, parts, claim, strays, job, todo, readerVars, bounds>>

PublishShard(j) ==
  /\ pc[j] = "publish"
  /\ IF tmp[j]
       THEN \E i \in Remaining(j) :
              /\ FirstOf(Remaining(j), i)
              /\ parts' = [parts EXCEPT ![i] = Shard(job[j].query, job[j].schema, i)]
              /\ pc' = [pc EXCEPT ![j] = "record"]
       ELSE pc' = [pc EXCEPT ![j] = "abort"] /\ UNCHANGED parts
  /\ tmp' = [tmp EXCEPT ![j] = FALSE]
  /\ UNCHANGED <<manifest, claim, strays, job, mem, todo, readerVars, bounds>>

\* The published file is hashed, its entry appended, the manifest staged.
RecordShard(j) ==
  /\ pc[j] = "record"
  /\ \E i \in Remaining(j) :
       /\ FirstOf(Remaining(j), i)
       /\ IF parts[i] = Absent
            THEN pc' = [pc EXCEPT ![j] = "abort"] /\ UNCHANGED <<mem, tmp>>
            ELSE /\ mem' = [mem EXCEPT ![j].shards =
                              @ \cup {[index |-> i, sha256 |-> parts[i]]}]
                 /\ tmp' = [tmp EXCEPT ![j] = TRUE]
                 /\ pc' = [pc EXCEPT ![j] = "marker"]
  /\ UNCHANGED <<manifest, parts, claim, strays, job, todo, readerVars, bounds>>

PublishManifest(j) ==
  /\ IF tmp[j]
       THEN /\ \/ Goto(j, "marker", "batch")
               \/ Goto(j, "close", "release")
            /\ manifest' = mem[j]
       ELSE /\ pc[j] \in {"marker", "close"}
            /\ pc' = [pc EXCEPT ![j] = "abort"]
            /\ UNCHANGED manifest
  /\ tmp' = [tmp EXCEPT ![j] = FALSE]
  /\ UNCHANGED <<parts, claim, strays, job, mem, todo, readerVars, bounds>>

\* A failing run that leaves its claim behind.
ReleaseClaimOnSuccess(j) ==
  /\ \/ pc[j] = "release" /\ End(j, "done") /\ claim' = NoClaim
     \/ pc[j] = "abort" /\ End(j, "idle") /\ UNCHANGED claim
  /\ UNCHANGED <<manifest, parts, strays, tmp, readerVars, bounds>>

\* The finally branch, or an except branch, that unlinks run.claim.
ReleaseClaim(j) ==
  /\ \/ pc[j] = "release" /\ End(j, "done")
     \/ pc[j] = "abort" /\ End(j, "idle")
  /\ claim' = NoClaim
  /\ UNCHANGED <<manifest, parts, strays, tmp, readerVars, bounds>>

\* A job that stops may leave a temporary: the one it holds, or one it was
\* about to fill (mkstemp and the write are one step of the model).
AbandonTemporary(j) ==
  /\ strays' \in {strays \/ tmp[j]} \cup
                  (IF pc[j] \in {"seed", "batch", "record", "recover"} THEN {TRUE} ELSE {})
  /\ tmp' = [tmp EXCEPT ![j] = FALSE]

\* An exception inside a claimed section: a full disk, a failed routing call,
\* a KeyboardInterrupt.  Only the seed's temporary has a finally of its own.
Fail(j) ==
  /\ faults < MaxFaults
  /\ faults' = faults + 1
  /\ pc[j] \in Claiming \ {"release", "abort", "discard"}
  /\ IF pc[j] = "link"
       THEN pc' = [pc EXCEPT ![j] = "discard"] /\ UNCHANGED <<strays, tmp>>
       ELSE pc' = [pc EXCEPT ![j] = "abort"] /\ AbandonTemporary(j)
  /\ UNCHANGED <<manifest, parts, claim, job, mem, todo, readerVars, launches, tampered>>

\* The process is killed: its files stay as they are.
Kill(j) ==
  /\ faults < MaxFaults
  /\ faults' = faults + 1
  /\ pc[j] \notin Ended
  /\ End(j, "idle")
  /\ claim' = IF claim = j THEN StaleClaim ELSE claim
  /\ AbandonTemporary(j)
  /\ UNCHANGED <<manifest, parts, readerVars, launches, tampered>>

\* An operator, the death of the job confirmed, removes its claim.
RemoveStaleClaim ==
  /\ claim = StaleClaim
  /\ claim' = NoClaim
  /\ UNCHANGED <<manifest, parts, strays, tmp, jobVars, readerVars, bounds>>

\* Something outside the program damages or removes a part file, or puts one there.
Tamper ==
  /\ \E i \in Batches \ tampered, c \in {Damaged, Absent} :
       /\ parts[i] # c
       /\ parts' = [parts EXCEPT ![i] = c]
       /\ tampered' = tampered \cup {i}
  /\ Cardinality(tampered) < MaxTampered
  /\ UNCHANGED <<manifest, claim, strays, tmp, jobVars, readerVars, launches, faults>>

-----------------------------------------------------------------------------
(* The reader: read_shards, in another process, with no claim.             *)

\* The manifest must describe each batch of its own plan exactly once.
Readable(m) == /\ m # NoManifest
               /\ RecordedIn(m) = Plan(m.query)
               /\ \A e, f \in m.shards : e.index = f.index => e = f

ReadManifest ==
  /\ reader \in {"idle", "returned", "refused"}
  /\ IF Readable(manifest)
       THEN reader' = "reading" /\ rman' = manifest
       ELSE reader' = "refused" /\ rman' = NoManifest
  /\ table' = NoTable
  /\ UNCHANGED <<files, jobVars, bounds>>

ReadShard ==
  /\ reader = "reading"
  /\ IF Unread = {}
       THEN reader' = "returned" /\ UNCHANGED <<rman, table>>
       ELSE \E e \in rman.shards :
              /\ FirstOf(Unread, e.index)
              /\ IF Verified(e, rman)
                   THEN /\ table' = [table EXCEPT ![e.index] = parts[e.index]]
                        /\ UNCHANGED <<reader, rman>>
                   ELSE reader' = "refused" /\ rman' = NoManifest /\ table' = NoTable
  /\ UNCHANGED <<files, jobVars, bounds>>

\* manifest.json is replaced between the reader's lstat and its open.
ReadManifestRaced ==
  /\ reader \in {"idle", "returned", "refused"}
  /\ \E j \in Jobs : pc[j] \in {"batch", "release"}
  /\ reader' = "refused" /\ rman' = NoManifest /\ table' = NoTable
  /\ UNCHANGED <<files, jobVars, bounds>>

-----------------------------------------------------------------------------
Program(j) == \/ ResolveOutput(j) \/ ClaimRun(j) \/ SeedManifest(j) \/ LinkManifest(j)
              \/ UnlinkSeed(j) \/ Validate(j) \/ VerifyShard(j) \/ SweepTemporaries(j)
              \/ DropUnmarkedPart(j) \/ RecoverSchema(j) \/ WriteShard(j) \/ PublishShard(j)
              \/ RecordShard(j) \/ PublishManifest(j) \/ ReleaseClaim(j)

WriterNext == \/ \E j \in Jobs : Launch(j) \/ Rerun(j) \/ Program(j) \/ Fail(j) \/ Kill(j)
              \/ RemoveStaleClaim
              \/ Tamper

Next == WriterNext \/ ReadManifest \/ ReadManifestRaced \/ ReadShard

Spec == Init /\ [][Next]_vars

\* Without the reader, which changes nothing the jobs read.
WriterSpec == Init /\ [][WriterNext]_vars

\* A started job keeps running, the operator eventually removes a dead job's
\* claim, and an unfinished run that nobody is working on is eventually rerun.
FairSpec == /\ Spec
            /\ \A j \in Jobs : WF_vars(Program(j))
            /\ WF_vars(RemoveStaleClaim)
            /\ WF_vars(\E j \in Jobs : Rerun(j))

-----------------------------------------------------------------------------
(* Properties.                                                             *)

\* Every variable has its type.
TypeOK ==
  /\ manifest \in Manifests \cup {NoManifest}
  /\ parts \in [Batches -> FileContents \cup {Absent}]
  /\ claim \in Jobs \cup {NoClaim, StaleClaim}
  /\ strays \in BOOLEAN
  /\ tmp \in [Jobs -> BOOLEAN]
  /\ pc \in [Jobs -> Ended \cup Claimless \cup Claiming]
  /\ job \in [Jobs -> JobSpecs \cup {NoJob}]
  /\ mem \in [Jobs -> Manifests \cup {NoManifest}]
  /\ todo \in [Jobs -> SUBSET Entries]
  /\ launches \in 0 .. MaxLaunches
  /\ faults \in 0 .. MaxFaults
  /\ tampered \subseteq Batches
  /\ reader \in {"idle", "reading", "returned", "refused"}
  /\ rman \in Manifests \cup {NoManifest}
  /\ table \in [Batches -> Contents \cup {Absent}]

\* "two jobs can never interleave shards or manifests" (claim_run): whoever is
\* past its claim and before its release is the job run.claim belongs to, and
\* nobody sweeps away the temporary file it is about to rename.
ClaimExclusive ==
  \A j \in Jobs : /\ pc[j] \in Claiming => claim = j
                  /\ pc[j] \in Staging => tmp[j]

\* What manifest.json marks completed is on disk under the canonical name, and
\* holds that batch of the one query and the one schema the manifest records,
\* whatever was killed or resumed in between.
RecordedShardsHold ==
  manifest # NoManifest =>
    \A e \in manifest.shards :
      e.index \notin tampered =>
        /\ e.sha256 = Shard(manifest.query, manifest.schema, e.index)
        /\ parts[e.index] = e.sha256

\* A job that returned its StreamingResult left a complete matrix behind.
ReturnedIsComplete ==
  (\E j \in Jobs : pc[j] = "done") => manifest # NoManifest /\ Complete(manifest)

\* A completed shard "stays untouched" (write_stream): no step of any job
\* replaces or removes a part file the published manifest marks completed.
CompletedShardsUntouched ==
  [][\A j \in Jobs : Program(j) =>
       \A i \in Batches : (manifest # NoManifest /\ i \in RecordedIn(manifest))
                            => parts'[i] = parts[i]]_vars

\* The frame read_shards returns is one query's, one schema's, whole, and made
\* of the bytes that query's run computed, with no claim held by the reader.
ReaderSound ==
  reader = "returned" =>
    \A i \in Batches : table[i] = IF i \in Plan(rman.query)
                                  THEN Shard(rman.query, rman.schema, i) ELSE Absent

\* The directory form implements the growing set of recorded batches.
Run == INSTANCE ShardedRun WITH
         owner <- IF manifest = NoManifest THEN NoManifest ELSE manifest.query,
         recorded <- IF manifest = NoManifest THEN {} ELSE RecordedIn(manifest),
         Unowned <- NoManifest
RefinesShardedRun == Run!Spec

\* A run whose manifest exists is completed by reruns with resume=True, across
\* any finite number of kills and exceptions, unless a shard of it was altered
\* from outside, which validate_resume refuses.
RunCompletes ==
  manifest # NoManifest
    ~> (\/ manifest # NoManifest /\ Complete(manifest)
        \/ tampered # {})

\* No claim outlives its job for ever.
ClaimFreed == claim # NoClaim ~> claim = NoClaim

\* "A real process death ... must leave a directory a plain resume completes
\* from" (tests/test_streaming.py): with nobody at work and no claim left, the
\* directory is either fresh again or holds a manifest to resume from.
KilledRunResumes ==
  (claim = NoClaim /\ \A j \in Jobs : pc[j] \in Ended)
    => DirectoryEmpty \/ manifest # NoManifest

\* The manifest is true: what it marks completed is on disk, and a job that
\* returned left all of it completed (_streaming.py _record, write_stream).
ManifestTrue == RecordedShardsHold /\ ReturnedIsComplete
=============================================================================
