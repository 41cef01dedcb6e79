------------------------ MODULE StreamedOutput_proofs -----------------------
(***************************************************************************)
(* Theorems about the two forms of a streamed output: the shard directory  *)
(* (StreamingRun), for any number of jobs, queries, batches and schemas    *)
(* and any bound on faults and tampering; and the single file              *)
(* (SingleFileRun), published whole, once, and never overwritten, for any  *)
(* number of writers and batches.                                          *)
(***************************************************************************)
EXTENDS StreamingRun, SingleFileRun, TLAPS

\* The batch plan of every query lies inside the set of all batch indices.
LEMMA PlanInBatches == \A q \in Queries : Plan(q) \subseteq Batches /\ Plan(q) \subseteq Int
  BY BatchCountAssumption DEF Plan, Batches

JobTypeOK ==
  /\ pc \in [Jobs -> Ended \cup Claimless \cup Claiming]
  /\ job \in [Jobs -> JobSpecs \cup {NoJob}]
  /\ mem \in [Jobs -> Manifests \cup {NoManifest}]
  /\ todo \in [Jobs -> SUBSET Entries]

\* A job between its start and its end has its arguments; one that loaded or
\* seeded a manifest has it in memory.
Loaded == {"verify", "sweep", "drop", "recover", "batch", "publish", "record", "marker",
           "close", "release"}

Armed ==
  \A j \in Jobs : /\ pc[j] \in Claimless \cup Claiming => job[j] \in JobSpecs
                  /\ pc[j] \in Loaded \cup {"link", "unlink"} => mem[j] \in Manifests

TInv == TypeOK /\ Armed

LEMMA TypeInit == Init => TInv
<1> SUFFICES ASSUME Init PROVE TInv
  OBVIOUS
<1>1. pc \in [Jobs -> Ended \cup Claimless \cup Claiming]
  BY DEF Init, Ended
<1>2. parts \in [Batches -> FileContents \cup {Absent}] /\ table \in [Batches -> Contents \cup {Absent}]
  BY DEF Init, NoTable
<1>3. job \in [Jobs -> JobSpecs \cup {NoJob}] /\ mem \in [Jobs -> Manifests \cup {NoManifest}]
  BY DEF Init
<1>4. todo \in [Jobs -> SUBSET Entries] /\ tmp \in [Jobs -> BOOLEAN]
  BY DEF Init
<1>5. launches \in 0 .. MaxLaunches /\ faults \in 0 .. MaxFaults
  BY BoundsAssumption DEF Init
<1>6. TypeOK
  BY <1>1, <1>2, <1>3, <1>4, <1>5 DEF Init, TypeOK
<1>7. Armed
  BY DEF Init, Armed, Claimless, Claiming, Loaded
<1> QED BY <1>6, <1>7 DEF TInv

LEMMA TypeStart ==
  ASSUME TInv, NEW j \in Jobs, NEW r \in BOOLEAN, NEW q \in Queries, NEW s \in Schemas,
         Start(j, r, q, s), launches' \in 0 .. MaxLaunches
  PROVE  TInv'
<1> [resume |-> r, query |-> q, schema |-> s] \in JobSpecs
  BY DEF JobSpecs
<1>1. TypeOK'
  BY DEF Start, TInv, TypeOK, files, readerVars, Ended, Claimless
<1>2. Armed'
  BY DEF Start, TInv, TypeOK, Armed, Ended, Claimless, Claiming, Loaded
<1> QED BY <1>1, <1>2 DEF TInv
LEMMA TypeEnd ==
  ASSUME TInv, NEW j \in Jobs, NEW how \in Ended, End(j, how)
  PROVE  JobTypeOK' /\ Armed'
<1>1. JobTypeOK'
  BY DEF TInv, TypeOK, JobTypeOK, End
<1>2. Armed'
  BY DEF TInv, TypeOK, Armed, End, Ended, Claimless, Claiming, Loaded
<1> QED BY <1>1, <1>2

LEMMA TypeAbandon ==
  ASSUME TInv, NEW j \in Jobs, AbandonTemporary(j)
  PROVE  strays' \in BOOLEAN /\ tmp' \in [Jobs -> BOOLEAN]
  BY DEF TInv, TypeOK, AbandonTemporary

LEMMA TypeNext == TInv /\ [Next]_vars => TInv'
<1> SUFFICES ASSUME TInv, [Next]_vars PROVE TInv'
  OBVIOUS
<1> USE DEF Ended, Claimless, Claiming, Loaded
<1>1. ASSUME NEW j \in Jobs, ResolveOutput(j) PROVE TInv'
  <2>1. JobTypeOK' /\ Armed'
    BY <1>1, TypeEnd DEF TInv, TypeOK, Armed, ResolveOutput, files, readerVars, bounds, Goto, AbandonTemporary, JobTypeOK
  <2>2. TypeOK'
    BY <1>1, <2>1 DEF TInv, TypeOK, Armed, ResolveOutput, files, readerVars, bounds, Goto, AbandonTemporary, JobTypeOK
  <2> QED BY <2>1, <2>2 DEF TInv
<1>2. ASSUME NEW j \in Jobs, ClaimRun(j) PROVE TInv'
  <2>1. JobTypeOK' /\ Armed'
    BY <1>2, TypeEnd DEF TInv, TypeOK, Armed, ClaimRun, files, readerVars, bounds, Goto, AbandonTemporary, JobTypeOK
  <2>2. TypeOK'
    BY <1>2, <2>1 DEF TInv, TypeOK, Armed, ClaimRun, files, readerVars, bounds, Goto, AbandonTemporary, JobTypeOK
  <2> QED BY <2>1, <2>2 DEF TInv
<1>3. ASSUME NEW j \in Jobs, SeedManifest(j) PROVE TInv'
  <2>1. [query |-> job[j].query, schema |-> NoSchema, shards |-> {}] \in Manifests
    BY <1>3 DEF TInv, Armed, SeedManifest, Goto, JobSpecs, Manifests
  <2>2. TypeOK'
    BY <1>3, <2>1 DEF TInv, TypeOK, SeedManifest, files, readerVars, bounds, Goto
  <2>3. Armed'
    BY <1>3, <2>1 DEF TInv, TypeOK, Armed, SeedManifest, files, readerVars, bounds, Goto
  <2> QED BY <2>2, <2>3 DEF TInv
<1>4. ASSUME NEW j \in Jobs, LinkManifest(j) PROVE TInv'
  <2>1. TypeOK'
    BY <1>4 DEF TInv, TypeOK, Armed, LinkManifest, files, readerVars, bounds, Goto, AbandonTemporary
  <2>2. Armed'
    BY <1>4 DEF TInv, TypeOK, Armed, LinkManifest, files, readerVars, bounds, Goto, AbandonTemporary
  <2> QED BY <2>1, <2>2 DEF TInv
<1>5. ASSUME NEW j \in Jobs, UnlinkSeed(j) PROVE TInv'
  <2>1. TypeOK'
    BY <1>5 DEF TInv, TypeOK, Armed, UnlinkSeed, files, readerVars, bounds, Goto, AbandonTemporary
  <2>2. Armed'
    BY <1>5 DEF TInv, TypeOK, Armed, UnlinkSeed, files, readerVars, bounds, Goto, AbandonTemporary
  <2> QED BY <2>1, <2>2 DEF TInv
<1>6. ASSUME NEW j \in Jobs, Validate(j) PROVE TInv'
  <2>1. manifest # NoManifest => manifest \in Manifests /\ manifest.shards \in SUBSET Entries
    BY DEF TInv, TypeOK, Manifests
  <2>2. TypeOK'
    BY <1>6, <2>1 DEF TInv, TypeOK, Validate, files, readerVars, bounds, Goto
  <2>3. Armed'
    BY <1>6, <2>1 DEF TInv, TypeOK, Armed, Validate, files, readerVars, bounds, Goto
  <2> QED BY <2>2, <2>3 DEF TInv
<1>7. ASSUME NEW j \in Jobs, VerifyShard(j) PROVE TInv'
  <2>1. TypeOK'
    BY <1>7 DEF TInv, TypeOK, Armed, VerifyShard, files, readerVars, bounds, Goto, AbandonTemporary
  <2>2. Armed'
    BY <1>7 DEF TInv, TypeOK, Armed, VerifyShard, files, readerVars, bounds, Goto, AbandonTemporary
  <2> QED BY <2>1, <2>2 DEF TInv
<1>8. ASSUME NEW j \in Jobs, SweepTemporaries(j) PROVE TInv'
  <2>1. TypeOK'
    BY <1>8 DEF TInv, TypeOK, Armed, SweepTemporaries, files, readerVars, bounds, Goto, AbandonTemporary
  <2>2. Armed'
    BY <1>8 DEF TInv, TypeOK, Armed, SweepTemporaries, files, readerVars, bounds, Goto, AbandonTemporary
  <2> QED BY <2>1, <2>2 DEF TInv
<1>9. ASSUME NEW j \in Jobs, DropUnmarkedPart(j) PROVE TInv'
  <2>1. TypeOK'
    BY <1>9 DEF TInv, TypeOK, Armed, DropUnmarkedPart, files, readerVars, bounds, Goto, AbandonTemporary
  <2>2. Armed'
    BY <1>9 DEF TInv, TypeOK, Armed, DropUnmarkedPart, files, readerVars, bounds, Goto, AbandonTemporary
  <2> QED BY <2>1, <2>2 DEF TInv
<1>10. ASSUME NEW j \in Jobs, RecoverSchema(j) PROVE TInv'
  <2>1. TypeOK'
    BY <1>10 DEF TInv, TypeOK, Armed, RecoverSchema, files, readerVars, bounds, Goto, AbandonTemporary
  <2>2. Armed'
    BY <1>10 DEF TInv, TypeOK, Armed, RecoverSchema, files, readerVars, bounds, Goto, AbandonTemporary
  <2> QED BY <2>1, <2>2 DEF TInv
<1>11. ASSUME NEW j \in Jobs, WriteShard(j) PROVE TInv'
  <2>1. [mem[j] EXCEPT !.schema = job[j].schema] \in Manifests
    BY <1>11 DEF TInv, Armed, WriteShard, JobSpecs, Manifests
  <2>2. mem' = mem \/ mem' = [mem EXCEPT ![j] = [mem[j] EXCEPT !.schema = job[j].schema]]
    BY <1>11 DEF WriteShard
  <2>3. mem' \in [Jobs -> Manifests \cup {NoManifest}]
    BY <2>1, <2>2 DEF TInv, TypeOK
  <2>4. tmp' \in [Jobs -> BOOLEAN] /\ pc' \in [Jobs -> Ended \cup Claimless \cup Claiming]
    BY <1>11 DEF TInv, TypeOK, WriteShard
  <2>5. TypeOK'
    BY <1>11, <2>3, <2>4 DEF TInv, TypeOK, WriteShard, files, readerVars, bounds, Goto
  <2>6. pc[j] = "batch" /\ \A k \in Jobs : k # j => pc'[k] = pc[k] /\ mem'[k] = mem[k]
    BY <1>11 DEF TInv, TypeOK, WriteShard
  <2>7. mem'[j] \in Manifests
    BY <2>1, <2>2, <2>6 DEF TInv, TypeOK, Armed
  <2>8. job' = job
    BY <1>11 DEF WriteShard
  <2>9. Armed'
    BY <2>6, <2>7, <2>8 DEF TInv, TypeOK, Armed
  <2> QED BY <2>5, <2>9 DEF TInv
<1>12. ASSUME NEW j \in Jobs, PublishShard(j) PROVE TInv'
  <2>1. \A i \in Remaining(j) : Shard(job[j].query, job[j].schema, i) \in FileContents
    BY <1>12, PlanInBatches DEF TInv, Armed, PublishShard, JobSpecs, Shard, Contents, FileContents,
                              Remaining
  <2>2. parts' \in [Batches -> FileContents \cup {Absent}]
    BY <1>12, <2>1 DEF TInv, TypeOK, PublishShard
  <2>3. TypeOK'
    BY <1>12, <2>2 DEF TInv, TypeOK, PublishShard, files, readerVars, bounds, Goto
  <2>4. Armed'
    BY <1>12 DEF TInv, TypeOK, Armed, PublishShard
  <2> QED BY <2>3, <2>4 DEF TInv
<1>13. ASSUME NEW j \in Jobs, RecordShard(j) PROVE TInv'
  <2>1. PICK i \in Remaining(j) :
          IF parts[i] = Absent
            THEN pc' = [pc EXCEPT ![j] = "abort"] /\ UNCHANGED <<mem, tmp>>
            ELSE /\ mem' = [mem EXCEPT ![j].shards = @ \cup {[index |-> i, sha256 |-> parts[i]]}]
                 /\ tmp' = [tmp EXCEPT ![j] = TRUE]
                 /\ pc' = [pc EXCEPT ![j] = "marker"]
    BY <1>13 DEF RecordShard
  <2> DEFINE e == [index |-> i, sha256 |-> parts[i]]
             m == [mem[j] EXCEPT !.shards = @ \cup {e}]
  <2>2. i \in Batches /\ mem[j] \in Manifests /\ pc[j] = "record"
    BY <1>13, PlanInBatches DEF RecordShard, TInv, Armed, JobSpecs, Remaining
  <2>3. parts[i] # Absent => e \in Entries
    BY <2>2 DEF TInv, TypeOK, Entries
  <2>4. parts[i] # Absent => m \in Manifests
    BY <2>2, <2>3 DEF Manifests
  <2>5. mem' = mem \/ (parts[i] # Absent /\ mem' = [mem EXCEPT ![j] = m])
    BY <2>1
  <2>6. mem' \in [Jobs -> Manifests \cup {NoManifest}]
    BY <2>4, <2>5 DEF TInv, TypeOK
  <2>7. TypeOK'
    BY <1>13, <2>1, <2>6 DEF TInv, TypeOK, RecordShard, files, readerVars, bounds, Goto
  <2>8. mem'[j] \in Manifests /\ \A k \in Jobs : k # j => mem'[k] = mem[k] /\ pc'[k] = pc[k]
    BY <2>1, <2>2, <2>4, <2>5 DEF TInv, TypeOK
  <2>9. job' = job
    BY <1>13 DEF RecordShard
  <2>10. Armed'
    BY <2>2, <2>8, <2>9 DEF TInv, TypeOK, Armed
  <2> QED BY <2>7, <2>10 DEF TInv
<1>14. ASSUME NEW j \in Jobs, PublishManifest(j) PROVE TInv'
  <2>1. TypeOK'
    BY <1>14 DEF TInv, TypeOK, Armed, PublishManifest, files, readerVars, bounds, Goto, AbandonTemporary
  <2>2. Armed'
    BY <1>14 DEF TInv, TypeOK, Armed, PublishManifest, files, readerVars, bounds, Goto, AbandonTemporary
  <2> QED BY <2>1, <2>2 DEF TInv
<1>15. ASSUME NEW j \in Jobs, ReleaseClaim(j) PROVE TInv'
  <2>1. JobTypeOK' /\ Armed'
    BY <1>15, TypeEnd DEF TInv, TypeOK, Armed, ReleaseClaim, files, readerVars, bounds, Goto, AbandonTemporary, JobTypeOK
  <2>2. TypeOK'
    BY <1>15, <2>1 DEF TInv, TypeOK, Armed, ReleaseClaim, files, readerVars, bounds, Goto, AbandonTemporary, JobTypeOK
  <2> QED BY <2>1, <2>2 DEF TInv
<1>16. ASSUME NEW j \in Jobs, Fail(j) PROVE TInv'
  <2>1. strays' \in BOOLEAN /\ tmp' \in [Jobs -> BOOLEAN]
    BY <1>16, TypeAbandon DEF Fail, TInv, TypeOK
  <2>2. pc' \in [Jobs -> Ended \cup Claimless \cup Claiming] /\ faults' \in 0 .. MaxFaults
    BY <1>16, BoundsAssumption DEF Fail, TInv, TypeOK
  <2>3. TypeOK'
    BY <1>16, <2>1, <2>2 DEF TInv, TypeOK, Fail, readerVars
  <2>4. Armed'
    BY <1>16 DEF TInv, TypeOK, Armed, Fail
  <2> QED BY <2>3, <2>4 DEF TInv
<1>17. ASSUME NEW j \in Jobs, Kill(j) PROVE TInv'
  <2>1. JobTypeOK' /\ Armed'
    BY <1>17, TypeEnd DEF Kill
  <2>2. strays' \in BOOLEAN /\ tmp' \in [Jobs -> BOOLEAN]
    BY <1>17, TypeAbandon DEF Kill
  <2>3. claim' \in Jobs \cup {NoClaim, StaleClaim} /\ faults' \in 0 .. MaxFaults
    BY <1>17, BoundsAssumption DEF Kill, TInv, TypeOK
  <2>4. TypeOK'
    BY <1>17, <2>1, <2>2, <2>3 DEF TInv, TypeOK, Kill, JobTypeOK, readerVars
  <2> QED BY <2>1, <2>4 DEF TInv
<1>18. ASSUME NEW j \in Jobs, Launch(j) PROVE TInv'
  <2>1. launches' \in 0 .. MaxLaunches
    BY <1>18, BoundsAssumption DEF Launch, TInv, TypeOK
  <2> QED BY <1>18, <2>1, TypeStart DEF Launch
<1>19. ASSUME NEW j \in Jobs, Rerun(j) PROVE TInv'
  <2>1. manifest.query \in Queries
    BY <1>19 DEF Rerun, TInv, TypeOK, Manifests
  <2>2. launches' \in 0 .. MaxLaunches
    BY <1>19 DEF Rerun, TInv, TypeOK
  <2> QED BY <1>19, <2>1, <2>2, TypeStart DEF Rerun
<1>20. CASE RemoveStaleClaim
  BY <1>20 DEF RemoveStaleClaim, TInv, TypeOK, Armed, files, readerVars, bounds, Goto, jobVars
<1>21. CASE Tamper
  <2>1. parts' \in [Batches -> FileContents \cup {Absent}] /\ tampered' \subseteq Batches
    BY <1>21 DEF Tamper, TInv, TypeOK, FileContents
  <2> QED BY <1>21, <2>1 DEF Tamper, TInv, TypeOK, Armed, jobVars, readerVars
<1>22. CASE ReadManifest \/ ReadManifestRaced
  <2>1. table' \in [Batches -> Contents \cup {Absent}]
    BY <1>22 DEF ReadManifest, ReadManifestRaced, NoTable
  <2>2. rman' \in Manifests \cup {NoManifest} /\ reader' \in {"idle", "reading", "returned", "refused"}
    BY <1>22 DEF ReadManifest, ReadManifestRaced, TInv, TypeOK
  <2> QED BY <1>22, <2>1, <2>2 DEF ReadManifest, ReadManifestRaced, TInv, TypeOK, Armed, files,
                                 jobVars, bounds
<1>23. CASE ReadShard
  <2>1. table' \in [Batches -> Contents \cup {Absent}]
    BY <1>23 DEF ReadShard, NoTable, Verified, TInv, TypeOK
  <2>2. rman' \in Manifests \cup {NoManifest} /\ reader' \in {"idle", "reading", "returned", "refused"}
    BY <1>23 DEF ReadShard, TInv, TypeOK
  <2> QED BY <1>23, <2>1, <2>2 DEF ReadShard, TInv, TypeOK, Armed, files, jobVars, bounds
<1>24. CASE UNCHANGED vars
  BY <1>24 DEF vars, files, jobVars, readerVars, bounds, TInv, TypeOK, Armed
<1> QED
  BY <1>1, <1>2, <1>3, <1>4, <1>5, <1>6, <1>7, <1>8, <1>9, <1>10, <1>11, <1>12, <1>13, <1>14,
     <1>15, <1>16, <1>17, <1>18, <1>19, <1>20, <1>21, <1>22, <1>23, <1>24
  DEF Next, WriterNext, Program

\* Every reachable state of the run is well typed.
THEOREM TypeCorrect == Spec => []TypeOK
<1>1. TInv => TypeOK
  BY DEF TInv
<1> QED BY <1>1, TypeInit, TypeNext, PTL DEF Spec

-----------------------------------------------------------------------------
(* Mutual exclusion of the claimed sections.                               *)

CInv == TInv /\ ClaimExclusive

LEMMA ClaimInit == Init => ClaimExclusive
  BY DEF Init, ClaimExclusive, Claiming, Staging

LEMMA ClaimNext == CInv /\ [Next]_vars => ClaimExclusive'
<1> SUFFICES ASSUME CInv, [Next]_vars PROVE ClaimExclusive'
  OBVIOUS
<1> USE SentinelAssumption DEF CInv, TInv, TypeOK, ClaimExclusive, Ended, Claimless, Claiming, Staging
<1>1. ASSUME NEW j \in Jobs, Launch(j) \/ Rerun(j) PROVE ClaimExclusive'
  BY <1>1 DEF Launch, Rerun, Start, files
<1>2. ASSUME NEW j \in Jobs, ResolveOutput(j) PROVE ClaimExclusive'
  BY <1>2 DEF ResolveOutput, End, files
<1>3. ASSUME NEW j \in Jobs, ClaimRun(j) PROVE ClaimExclusive'
  BY <1>3 DEF ClaimRun, End
<1>4. ASSUME NEW j \in Jobs, SeedManifest(j) \/ LinkManifest(j) \/ UnlinkSeed(j) PROVE ClaimExclusive'
  BY <1>4 DEF SeedManifest, LinkManifest, UnlinkSeed, Goto
<1>5. ASSUME NEW j \in Jobs, Validate(j) \/ VerifyShard(j) PROVE ClaimExclusive'
  BY <1>5 DEF Validate, VerifyShard, files
<1>6. ASSUME NEW j \in Jobs, SweepTemporaries(j) PROVE ClaimExclusive'
  BY <1>6 DEF SweepTemporaries, Goto
<1>7. ASSUME NEW j \in Jobs, DropUnmarkedPart(j) \/ RecoverSchema(j) PROVE ClaimExclusive'
  BY <1>7 DEF DropUnmarkedPart, RecoverSchema
<1>8. ASSUME NEW j \in Jobs, WriteShard(j) \/ PublishShard(j) PROVE ClaimExclusive'
  BY <1>8 DEF WriteShard, PublishShard
<1>9. ASSUME NEW j \in Jobs, RecordShard(j) \/ PublishManifest(j) PROVE ClaimExclusive'
  BY <1>9 DEF RecordShard, PublishManifest, Goto
<1>10. ASSUME NEW j \in Jobs, ReleaseClaim(j) PROVE ClaimExclusive'
  BY <1>10 DEF ReleaseClaim, End
<1>11. ASSUME NEW j \in Jobs, Fail(j) PROVE ClaimExclusive'
  <2>1. pc[j] \in Claiming /\ claim' = claim
    BY <1>11 DEF Fail
  <2>2. CASE pc[j] = "link"
    BY <1>11, <2>1, <2>2 DEF Fail
  <2>3. CASE pc[j] # "link"
    <3>1. pc' = [pc EXCEPT ![j] = "abort"] /\ tmp' = [tmp EXCEPT ![j] = FALSE]
      BY <1>11, <2>3 DEF Fail, AbandonTemporary
    <3> QED BY <2>1, <3>1
  <2> QED BY <2>2, <2>3
<1>12. ASSUME NEW j \in Jobs, Kill(j) PROVE ClaimExclusive'
  BY <1>12 DEF Kill, End, AbandonTemporary
<1>13. CASE RemoveStaleClaim \/ Tamper
  BY <1>13 DEF RemoveStaleClaim, Tamper, jobVars
<1>14. CASE ReadManifest \/ ReadManifestRaced \/ ReadShard
  BY <1>14 DEF ReadManifest, ReadManifestRaced, ReadShard, files, jobVars
<1>15. CASE UNCHANGED vars
  BY <1>15 DEF vars, files, jobVars
<1> QED
  BY <1>1, <1>2, <1>3, <1>4, <1>5, <1>6, <1>7, <1>8, <1>9, <1>10, <1>11, <1>12, <1>13, <1>14, <1>15
  DEF Next, WriterNext, Program

\* run.claim excludes: two jobs never interleave shards or manifests.
THEOREM ClaimExcludes == Spec => []ClaimExclusive
<1>1. Init => CInv
  BY TypeInit, ClaimInit DEF CInv
<1>2. CInv /\ [Next]_vars => CInv'
  BY TypeNext, ClaimNext DEF CInv
<1>3. CInv => ClaimExclusive
  BY DEF CInv
<1> QED BY <1>1, <1>2, <1>3, PTL DEF Spec

-----------------------------------------------------------------------------
(* The manifest tells the truth about the shards.                          *)

\* Every entry of m is in its query's plan and, unless the environment altered
\* the file, names the batch that is on disk.
Holds(m) ==
  /\ \A e \in m.shards :
       /\ e.index \in Plan(m.query)
       /\ e.sha256 \in {Shard(m.query, m.schema, e.index), Damaged}
       /\ e.index \notin tampered => /\ e.sha256 = Shard(m.query, m.schema, e.index)
                                     /\ parts[e.index] = e.sha256
  /\ m.shards # {} => m.schema # NoSchema

\* What job j's place implies for its in-memory manifest and the published one.
\* Only the "publish", "record" and "marker" steps let them differ.
Remembered(j) ==
  /\ pc[j] = "link" =>
       mem[j] = [query |-> job[j].query, schema |-> NoSchema, shards |-> {}]
  /\ pc[j] = "unlink" =>
       manifest = [query |-> job[j].query, schema |-> NoSchema, shards |-> {}] /\ mem[j] = manifest
  /\ pc[j] \in Loaded =>
       /\ manifest # NoManifest
       /\ mem[j].query = job[j].query
       /\ manifest.query = job[j].query
       /\ manifest.shards \subseteq mem[j].shards
       /\ manifest.schema \in {NoSchema, mem[j].schema}
       /\ Holds(mem[j])
  /\ pc[j] \in {"publish", "record", "marker"} => mem[j].schema = job[j].schema
  /\ pc[j] = "record" =>
       \A i \in Remaining(j) :
         FirstOf(Remaining(j), i) =>
           /\ parts[i] \in {Shard(job[j].query, job[j].schema, i), Damaged, Absent}
           /\ i \in tampered \/ parts[i] = Shard(job[j].query, job[j].schema, i)
  /\ pc[j] \in {"recover", "close", "release"} => Remaining(j) = {}
  /\ pc[j] = "release" => manifest = mem[j]
  /\ pc[j] \in Loaded \ {"marker"} => manifest.shards = mem[j].shards
  /\ pc[j] = "marker" =>
       \E i \in Plan(job[j].query) \ RecordedIn(manifest) :
         RecordedIn(mem[j]) = RecordedIn(manifest) \cup {i}

SInv == /\ CInv
        /\ manifest # NoManifest => Holds(manifest)
        /\ \A j \in Jobs : Remembered(j)
        /\ ReturnedIsComplete

LEMMA SafeInit == Init => SInv
<1> SUFFICES ASSUME Init PROVE SInv
  OBVIOUS
<1>1. CInv
  BY TypeInit, ClaimInit DEF CInv
<1>2. \A j \in Jobs : Remembered(j)
  BY DEF Init, Remembered, Loaded
<1>3. ReturnedIsComplete
  BY DEF Init, ReturnedIsComplete
<1> QED BY <1>1, <1>2, <1>3 DEF SInv, Init

\* A job without the claim has nothing to hold.
LEMMA Bystander ==
  ASSUME NEW k \in Jobs, pc[k] \notin Claiming
  PROVE  Remembered(k)
  BY DEF Remembered, Claiming, Loaded

LEMMA OthersOutside ==
  ASSUME SInv, NEW j \in Jobs, pc[j] \in Claiming, NEW k \in Jobs, k # j
  PROVE  pc[k] \notin Claiming
  BY DEF SInv, CInv, ClaimExclusive

\* A step that leaves the two manifests, the files and job k alone.
LEMMA Untouched ==
  ASSUME NEW k \in Jobs, Remembered(k),
         pc'[k] = pc[k], job'[k] = job[k], mem'[k] = mem[k],
         UNCHANGED <<manifest, parts, tampered>>
  PROVE  Remembered(k)'
  BY DEF Remembered, Holds, Remaining

LEMMA TruthKept ==
  ASSUME UNCHANGED <<manifest, parts, tampered>>, manifest # NoManifest => Holds(manifest)
  PROVE  manifest' # NoManifest => Holds(manifest)'
  BY DEF Holds

\* A step of a job inside its claimed section that changes neither the manifest
\* nor the shards, and does not return.
LEMMA InsideStep ==
  ASSUME SInv, CInv', NEW j \in Jobs, pc[j] \in Claiming,
         \A k \in Jobs : k # j => pc'[k] = pc[k],
         pc'[j] # "done",
         UNCHANGED <<manifest, parts, tampered>>,
         Remembered(j)'
  PROVE  SInv'
<1>1. \A k \in Jobs : k # j => Remembered(k)'
  <2> TAKE k \in Jobs
  <2> SUFFICES ASSUME k # j PROVE Remembered(k)'
    OBVIOUS
  <2>1. pc'[k] \notin Claiming
    BY OthersOutside
  <2> QED BY <2>1 DEF Remembered, Claiming, Loaded
<1>2. ReturnedIsComplete'
  BY DEF SInv, ReturnedIsComplete, Complete, RecordedIn, Plan
<1> QED BY <1>1, <1>2, TruthKept DEF SInv

\* A step of job j that changes neither the manifest, the shards nor other jobs.
LEMMA OutsideStep ==
  ASSUME SInv, CInv', NEW j \in Jobs,
         \A k \in Jobs : k # j => pc'[k] = pc[k] /\ job'[k] = job[k] /\ mem'[k] = mem[k],
         pc'[j] # "done" \/ pc'[j] = pc[j],
         UNCHANGED <<manifest, parts, tampered>>,
         Remembered(j)'
  PROVE  SInv'
<1>1. \A k \in Jobs : k # j => Remembered(k)'
  BY Untouched DEF SInv
<1>2. ReturnedIsComplete'
  BY DEF SInv, ReturnedIsComplete, Complete, RecordedIn, Plan
<1> QED BY <1>1, <1>2, TruthKept DEF SInv

LEMMA SafeStart ==
  ASSUME SInv, CInv', NEW j \in Jobs, Launch(j) \/ Rerun(j)
  PROVE  SInv'
<1>1. PICK r \in BOOLEAN, q \in Queries, s \in Schemas : Start(j, r, q, s)
  <2>1. manifest # NoManifest => manifest.query \in Queries
    BY DEF SInv, CInv, TInv, TypeOK, Manifests
  <2> QED BY <2>1 DEF Launch, Rerun
<1>2. pc'[j] = "resolve" /\ Remembered(j)'
  BY <1>1 DEF Start, SInv, CInv, TInv, TypeOK, Remembered, Loaded
<1> QED BY <1>1, <1>2, OutsideStep DEF Start, files, SInv, CInv, TInv, TypeOK

LEMMA SafeEnter ==
  ASSUME SInv, CInv', NEW j \in Jobs, ResolveOutput(j) \/ ClaimRun(j)
  PROVE  SInv'
<1>1. /\ pc'[j] \in {"claim", "seed", "validate", "idle"}
      /\ \A k \in Jobs : k # j => pc'[k] = pc[k] /\ job'[k] = job[k] /\ mem'[k] = mem[k]
  BY DEF ResolveOutput, ClaimRun, End, SInv, CInv, TInv, TypeOK
<1>2. Remembered(j)'
  BY <1>1 DEF Remembered, Loaded
<1> QED BY <1>1, <1>2, OutsideStep DEF ResolveOutput, ClaimRun, End, files, bounds

LEMMA SafeSeed ==
  ASSUME SInv, CInv', NEW j \in Jobs, SeedManifest(j) \/ UnlinkSeed(j)
  PROVE  SInv'
<1>1. pc[j] \in Claiming /\ pc'[j] # "done" /\ \A k \in Jobs : k # j => pc'[k] = pc[k]
  BY DEF SeedManifest, UnlinkSeed, Goto, SInv, CInv, TInv, TypeOK, Claiming
<1>2. CASE SeedManifest(j)
  <2>1. Remembered(j)'
    BY <1>2 DEF SeedManifest, Goto, Remembered, Loaded, SInv, CInv, TInv, TypeOK
  <2> QED BY <1>1, <1>2, <2>1, InsideStep DEF SeedManifest, bounds
<1>3. CASE UnlinkSeed(j)
  <2>1. job' = job /\ mem' = mem /\ UNCHANGED <<manifest, parts, tampered>>
    BY <1>3 DEF UnlinkSeed, bounds
  <2>2. CASE pc[j] = "unlink"
    <3>1. pc'[j] = "batch"
      BY <1>3, <2>2 DEF UnlinkSeed, Goto, SInv, CInv, TInv, TypeOK
    <3>2. /\ manifest = [query |-> job[j].query, schema |-> NoSchema, shards |-> {}]
          /\ mem[j] = manifest
          /\ mem[j] \in Manifests
      BY <2>2 DEF SInv, CInv, TInv, Armed, Remembered
    <3>3. manifest # NoManifest
      BY <3>2, ValueAssumption
    <3>4. Remembered(j)'
      BY <2>1, <3>1, <3>2, <3>3 DEF Remembered, Holds, Loaded
    <3> QED BY <1>1, <2>1, <3>4, InsideStep
  <2>3. CASE pc[j] = "discard"
    <3>1. pc'[j] = "abort"
      BY <1>3, <2>3 DEF UnlinkSeed, Goto, SInv, CInv, TInv, TypeOK
    <3>2. Remembered(j)'
      BY <3>1 DEF Remembered, Loaded
    <3> QED BY <1>1, <2>1, <3>2, InsideStep
  <2> QED BY <1>3, <2>2, <2>3 DEF UnlinkSeed, Goto
<1> QED BY <1>2, <1>3

LEMMA SafeValidate ==
  ASSUME SInv, CInv', NEW j \in Jobs, Validate(j)
  PROVE  SInv'
<1>1. pc[j] \in Claiming /\ pc'[j] # "done" /\ \A k \in Jobs : k # j => pc'[k] = pc[k]
  BY DEF Validate, SInv, CInv, TInv, TypeOK, Claiming
<1>2. UNCHANGED <<manifest, parts, tampered, job>>
  BY DEF Validate, files, bounds
<1>3. CASE manifest # NoManifest /\ manifest.query = job[j].query
  <2>1. pc'[j] = "verify" /\ mem'[j] = manifest
    BY <1>3 DEF Validate, SInv, CInv, TInv, TypeOK
  <2>2. Holds(manifest)
    BY <1>3 DEF SInv
  <2>3. Remembered(j)'
    BY <1>2, <1>3, <2>1, <2>2 DEF Remembered, Holds, Loaded
  <2> QED BY <1>1, <1>2, <2>3, InsideStep
<1>4. CASE ~(manifest # NoManifest /\ manifest.query = job[j].query)
  <2>1. pc'[j] = "abort"
    BY <1>4 DEF Validate, SInv, CInv, TInv, TypeOK
  <2>2. Remembered(j)'
    BY <2>1 DEF Remembered, Loaded
  <2> QED BY <1>1, <1>2, <2>2, InsideStep
<1> QED BY <1>3, <1>4

\* Moves inside the claimed section that keep the in-memory manifest.
LEMMA SafeMove ==
  ASSUME SInv, CInv', NEW j \in Jobs,
         pc[j] \in Loaded, pc[j] # "release", pc[j] # "marker" \/ pc'[j] = "abort",
         \A k \in Jobs : k # j => pc'[k] = pc[k],
         UNCHANGED <<manifest, parts, tampered, job, mem>>,
         \/ pc'[j] \in {"verify", "sweep", "drop", "batch", "abort"}
         \/ pc'[j] \in {"recover", "close"} /\ Remaining(j) = {}
  PROVE  SInv'
<1>1. pc[j] \in Claiming /\ pc'[j] # "done" /\ Remembered(j)
  BY DEF Loaded, Claiming, SInv
<1>2. Remaining(j)' = Remaining(j)
  BY DEF Remaining, RecordedIn, Plan
<1>3. Holds(mem[j])'
  BY <1>1 DEF Remembered, Holds
<1>4. Remembered(j)'
  BY <1>1, <1>2, <1>3 DEF Remembered, Loaded
<1> QED BY <1>1, <1>4, InsideStep

LEMMA SafeVerify ==
  ASSUME SInv, CInv', NEW j \in Jobs,
         VerifyShard(j) \/ SweepTemporaries(j) \/ RecoverSchema(j)
  PROVE  SInv'
<1>1. pc[j] \in {"verify", "sweep", "recover"} /\ \A k \in Jobs : k # j => pc'[k] = pc[k]
  BY DEF VerifyShard, SweepTemporaries, RecoverSchema, Goto, SInv, CInv, TInv, TypeOK
<1>2. UNCHANGED <<manifest, parts, tampered, job, mem>>
  BY DEF VerifyShard, SweepTemporaries, RecoverSchema, files, bounds
<1>3. pc'[j] \in {"verify", "sweep", "drop", "abort"} \/ (pc[j] = "recover" /\ pc'[j] \in {"close", "abort"})
  BY DEF VerifyShard, SweepTemporaries, RecoverSchema, Goto, SInv, CInv, TInv, TypeOK
<1>4. pc[j] = "recover" => Remaining(j) = {}
  BY DEF SInv, Remembered
<1> QED BY <1>1, <1>2, <1>3, <1>4, SafeMove DEF Loaded

\* What every other job and the result of returned jobs need from a step of a
\* job inside its claimed section.
LEMMA InsideRest ==
  ASSUME SInv, CInv', NEW j \in Jobs, pc[j] \in Claiming,
         \A k \in Jobs : k # j => pc'[k] = pc[k],
         Remembered(j)',
         manifest' # NoManifest => Holds(manifest)',
         ReturnedIsComplete'
  PROVE  SInv'
<1>1. \A k \in Jobs : k # j => Remembered(k)'
  <2> TAKE k \in Jobs
  <2> SUFFICES ASSUME k # j PROVE Remembered(k)'
    OBVIOUS
  <2>1. pc'[k] \notin Claiming
    BY OthersOutside
  <2> QED BY <2>1 DEF Remembered, Claiming, Loaded
<1> QED BY <1>1 DEF SInv

LEMMA SameReturned ==
  ASSUME SInv, NEW j \in Jobs, manifest' = manifest,
         \A k \in Jobs : k # j => pc'[k] = pc[k],
         pc'[j] # "done"
  PROVE  ReturnedIsComplete'
  BY DEF SInv, ReturnedIsComplete, Complete, RecordedIn, Plan

LEMMA SafeDrop ==
  ASSUME SInv, CInv', NEW j \in Jobs, DropUnmarkedPart(j)
  PROVE  SInv'
<1>1. pc[j] = "drop" /\ (\A k \in Jobs : k # j => pc'[k] = pc[k])
  BY DEF DropUnmarkedPart, SInv, CInv, TInv, TypeOK
<1>2. UNCHANGED <<manifest, tampered, job, mem>>
  BY DEF DropUnmarkedPart, bounds
<1>3. CASE UNCHANGED parts
  <2>1. pc'[j] \in {"drop", "batch", "abort"} \/ (pc'[j] = "recover" /\ Remaining(j) = {})
    BY <1>1 DEF DropUnmarkedPart, SInv, CInv, TInv, TypeOK
  <2> QED BY <1>1, <1>2, <1>3, <2>1, SafeMove DEF Loaded
<1>4. CASE \E i \in Unmarked(j) : parts' = [parts EXCEPT ![i] = Absent] /\ UNCHANGED pc
  <2>1. PICK i \in Unmarked(j) : parts' = [parts EXCEPT ![i] = Absent]
    BY <1>4
  <2>2. i \notin RecordedIn(mem[j])
    BY DEF Unmarked
  <2>3. /\ mem[j] \in Manifests /\ manifest \in Manifests
        /\ manifest.shards \subseteq mem[j].shards
        /\ Holds(mem[j]) /\ Holds(manifest)
    BY <1>1 DEF SInv, CInv, TInv, TypeOK, Armed, Loaded, Remembered
  <2>4. \A e \in mem[j].shards : parts'[e.index] = parts[e.index]
    BY <2>1, <2>2, <2>3 DEF RecordedIn, SInv, CInv, TInv, TypeOK, Manifests, Entries
  <2>5. Holds(mem[j])' /\ Holds(manifest)'
    BY <1>2, <2>3, <2>4 DEF Holds
  <2>6. pc' = pc
    BY <1>4
  <2>7. Remembered(j)'
    BY <1>1, <1>2, <2>5, <2>6 DEF SInv, Remembered, Loaded
  <2>8. ReturnedIsComplete'
    BY <1>1, <1>2, <2>6, SameReturned
  <2> QED BY <1>1, <2>5, <2>7, <2>8, InsideRest DEF Claiming
<1> QED BY <1>3, <1>4 DEF DropUnmarkedPart

LEMMA SafeWrite ==
  ASSUME SInv, CInv', NEW j \in Jobs, WriteShard(j)
  PROVE  SInv'
<1>1. pc[j] = "batch" /\ (\A k \in Jobs : k # j => pc'[k] = pc[k])
  BY DEF WriteShard, SInv, CInv, TInv, TypeOK
<1>2. UNCHANGED <<manifest, parts, tampered, job>>
  BY DEF WriteShard, bounds
<1>3. CASE mem' = mem
  <2>1. pc'[j] = "abort" \/ (pc'[j] = "close" /\ Remaining(j) = {}) \/ pc'[j] = "publish"
    BY <1>1 DEF WriteShard, SInv, CInv, TInv, TypeOK
  <2>2. CASE pc'[j] # "publish"
    BY <1>1, <1>2, <1>3, <2>1, <2>2, SafeMove DEF Loaded
  <2>3. CASE pc'[j] = "publish"
    <3>1. mem'[j].schema = job[j].schema
      BY <1>1, <2>3 DEF WriteShard, SInv, CInv, TInv, TypeOK, Armed, Manifests, Loaded
    <3>2. Holds(mem[j])'
      BY <1>1, <1>2, <1>3 DEF SInv, Remembered, Holds, Loaded
    <3>3. Remembered(j)'
      BY <1>1, <1>2, <1>3, <2>3, <3>1, <3>2 DEF SInv, Remembered, Loaded
    <3> QED BY <1>1, <1>2, <2>3, <3>3, InsideStep DEF Claiming
  <2> QED BY <2>2, <2>3
<1>4. CASE mem' # mem
  <2>1. /\ mem[j].schema \in {NoSchema, job[j].schema}
        /\ mem' = [mem EXCEPT ![j].schema = job[j].schema]
        /\ pc' = [pc EXCEPT ![j] = "publish"]
    BY <1>4 DEF WriteShard
  <2>2. mem[j] \in Manifests /\ job[j] \in JobSpecs
    BY <1>1 DEF SInv, CInv, TInv, TypeOK, Armed, Loaded, Claiming
  <2>3. /\ mem'[j].query = mem[j].query
        /\ mem'[j].shards = mem[j].shards
        /\ mem'[j].schema = job[j].schema
    BY <2>1, <2>2 DEF Manifests, SInv, CInv, TInv, TypeOK
  <2>4. job[j].schema # NoSchema
    BY <2>2, SentinelAssumption DEF JobSpecs
  <2>5. pc'[j] = "publish"
    BY <2>1 DEF SInv, CInv, TInv, TypeOK
  <2>6. Remembered(j)
    BY DEF SInv
  <2>7. Holds(mem[j]) /\ manifest.schema \in {NoSchema, mem[j].schema}
    BY <1>1, <2>6 DEF Remembered, Loaded
  <2>8. mem[j].shards = {} \/ mem[j].schema = job[j].schema
    BY <2>1, <2>7 DEF Holds
  <2>9. Holds(mem[j])'
    BY <1>2, <2>3, <2>4, <2>7, <2>8 DEF Holds
  <2>10. manifest.schema \in {NoSchema, job[j].schema}
    BY <2>1, <2>7
  <2>11. Remembered(j)'
    BY <1>1, <1>2, <2>3, <2>5, <2>6, <2>9, <2>10 DEF Remembered, Loaded
  <2> QED BY <1>1, <1>2, <2>5, <2>11, InsideStep DEF Claiming
<1> QED BY <1>3, <1>4

LEMMA SafePublishShard ==
  ASSUME SInv, CInv', NEW j \in Jobs, PublishShard(j)
  PROVE  SInv'
<1>1. pc[j] = "publish" /\ (\A k \in Jobs : k # j => pc'[k] = pc[k])
  BY DEF PublishShard, SInv, CInv, TInv, TypeOK
<1>2. UNCHANGED <<manifest, tampered, job, mem>>
  BY DEF PublishShard, bounds
<1>3. CASE ~tmp[j]
  <2>1. UNCHANGED parts /\ pc'[j] = "abort"
    BY <1>3 DEF PublishShard, SInv, CInv, TInv, TypeOK
  <2> QED BY <1>1, <1>2, <2>1, SafeMove DEF Loaded
<1>4. CASE tmp[j]
  <2>1. PICK i \in Remaining(j) :
          /\ FirstOf(Remaining(j), i)
          /\ parts' = [parts EXCEPT ![i] = Shard(job[j].query, job[j].schema, i)]
          /\ pc' = [pc EXCEPT ![j] = "record"]
    BY <1>4 DEF PublishShard
  <2>2. /\ mem[j] \in Manifests /\ manifest \in Manifests /\ job[j] \in JobSpecs
        /\ manifest.shards \subseteq mem[j].shards
        /\ Holds(mem[j]) /\ Holds(manifest)
    BY <1>1 DEF SInv, CInv, TInv, TypeOK, Armed, Loaded, Remembered, Claiming
  <2>3. i \in Batches /\ i \in Int /\ i \notin RecordedIn(mem[j]) /\ Remaining(j) \subseteq Int
    BY <2>2, PlanInBatches DEF Remaining, JobSpecs
  <2>4. \A e \in mem[j].shards : parts'[e.index] = parts[e.index]
    BY <2>1, <2>2, <2>3 DEF RecordedIn, SInv, CInv, TInv, TypeOK, Manifests, Entries
  <2>5. Holds(mem[j])' /\ Holds(manifest)'
    BY <1>2, <2>2, <2>4 DEF Holds
  <2>6. pc'[j] = "record"
    BY <2>1 DEF SInv, CInv, TInv, TypeOK
  <2>7. Remaining(j)' = Remaining(j)
    BY <1>2 DEF Remaining, RecordedIn, Plan
  <2>8. \A k \in Remaining(j) :
          FirstOf(Remaining(j), k) => parts'[k] = Shard(job[j].query, job[j].schema, k)
    BY <2>1, <2>3 DEF FirstOf, SInv, CInv, TInv, TypeOK
  <2>9. Remembered(j)
    BY DEF SInv
  <2>10. \A k \in Remaining(j)' :
           FirstOf(Remaining(j)', k) => parts'[k] = Shard(job'[j].query, job'[j].schema, k)
    BY <1>2, <2>7, <2>8
  <2>11. Remembered(j)'
    BY <1>1, <1>2, <2>5, <2>6, <2>9, <2>10 DEF Remembered, Loaded, FirstOf
  <2>12. ReturnedIsComplete'
    BY <1>1, <1>2, <2>6, SameReturned
  <2> QED BY <1>1, <2>5, <2>11, <2>12, InsideRest DEF Claiming
<1> QED BY <1>3, <1>4

LEMMA SafeRecord ==
  ASSUME SInv, CInv', NEW j \in Jobs, RecordShard(j)
  PROVE  SInv'
<1>1. pc[j] = "record" /\ (\A k \in Jobs : k # j => pc'[k] = pc[k])
  BY DEF RecordShard, SInv, CInv, TInv, TypeOK
<1>2. UNCHANGED <<manifest, parts, tampered, job>>
  BY DEF RecordShard, bounds
<1>3. PICK i \in Remaining(j) :
        /\ FirstOf(Remaining(j), i)
        /\ IF parts[i] = Absent
             THEN pc' = [pc EXCEPT ![j] = "abort"] /\ UNCHANGED <<mem, tmp>>
             ELSE /\ mem' = [mem EXCEPT ![j].shards = @ \cup {[index |-> i, sha256 |-> parts[i]]}]
                  /\ tmp' = [tmp EXCEPT ![j] = TRUE]
                  /\ pc' = [pc EXCEPT ![j] = "marker"]
  BY DEF RecordShard
<1>4. CASE parts[i] = Absent
  <2>1. UNCHANGED mem /\ pc'[j] = "abort"
    BY <1>3, <1>4 DEF SInv, CInv, TInv, TypeOK
  <2> QED BY <1>1, <1>2, <2>1, SafeMove DEF Loaded
<1>5. CASE parts[i] # Absent
  <2> DEFINE e == [index |-> i, sha256 |-> parts[i]]
  <2>1. mem[j] \in Manifests /\ job[j] \in JobSpecs /\ Remembered(j)
    BY <1>1 DEF SInv, CInv, TInv, TypeOK, Armed, Loaded, Claiming
  <2>2. /\ mem'[j].query = mem[j].query
        /\ mem'[j].schema = mem[j].schema
        /\ mem'[j].shards = mem[j].shards \cup {e}
        /\ pc'[j] = "marker"
    BY <1>3, <1>5, <2>1 DEF Manifests, SInv, CInv, TInv, TypeOK
  <2>3. /\ mem[j].query = job[j].query /\ mem[j].schema = job[j].schema
        /\ Holds(mem[j])
        /\ manifest # NoManifest /\ manifest.query = job[j].query
        /\ manifest.shards \subseteq mem[j].shards
        /\ manifest.schema \in {NoSchema, mem[j].schema}
    BY <1>1, <2>1 DEF Remembered, Loaded
  <2>4. i \in Plan(job[j].query)
    BY DEF Remaining
  <2>5. /\ parts[i] \in {Shard(job[j].query, job[j].schema, i), Damaged}
        /\ i \notin tampered => parts[i] = Shard(job[j].query, job[j].schema, i)
    BY <1>1, <1>3, <1>5, <2>1 DEF Remembered
  <2>6. job[j].schema # NoSchema
    BY <2>1, SentinelAssumption DEF JobSpecs
  <2>7. Holds(mem[j])'
    BY <1>2, <2>2, <2>3, <2>4, <2>5, <2>6 DEF Holds
  <2>8. manifest.shards = mem[j].shards /\ i \notin RecordedIn(mem[j])
    BY <1>1, <2>1 DEF Remembered, Loaded, Remaining
  <2>9. /\ RecordedIn(mem'[j]) = RecordedIn(manifest') \cup {i}
        /\ i \in Plan(job'[j].query) \ RecordedIn(manifest')
    <3>1. e.index = i
      OBVIOUS
    <3>2. RecordedIn(mem'[j]) = RecordedIn(mem[j]) \cup {i}
      BY <2>2, <3>1 DEF RecordedIn
    <3>3. RecordedIn(manifest') = RecordedIn(mem[j]) /\ job' = job
      BY <1>2, <2>8 DEF RecordedIn
    <3> QED BY <2>4, <2>8, <3>2, <3>3
  <2>10. Remembered(j)'
    BY <1>2, <2>2, <2>3, <2>7, <2>9 DEF Remembered, Loaded, RecordedIn, Plan
  <2> QED BY <1>1, <1>2, <2>2, <2>10, InsideStep DEF Claiming
<1> QED BY <1>4, <1>5

LEMMA SafeLink ==
  ASSUME SInv, CInv', NEW j \in Jobs, LinkManifest(j)
  PROVE  SInv'
<1>1. pc[j] = "link" /\ (\A k \in Jobs : k # j => pc'[k] = pc[k])
  BY DEF LinkManifest, SInv, CInv, TInv, TypeOK
<1>2. UNCHANGED <<parts, tampered, job, mem>>
  BY DEF LinkManifest, bounds
<1>3. CASE tmp[j] /\ manifest = NoManifest
  <2>1. manifest' = mem[j] /\ pc'[j] = "unlink"
    BY <1>3 DEF LinkManifest, SInv, CInv, TInv, TypeOK
  <2>2. mem[j] = [query |-> job[j].query, schema |-> NoSchema, shards |-> {}]
    BY <1>1 DEF SInv, Remembered
  <2>3. Holds(manifest)'
    BY <2>1, <2>2 DEF Holds
  <2>4. Remembered(j)'
    BY <1>2, <2>1, <2>2 DEF Remembered, Loaded
  <2>5. \A k \in Jobs : pc[k] # "done"
    BY <1>3 DEF SInv, ReturnedIsComplete
  <2>6. ReturnedIsComplete'
    BY <1>1, <2>1, <2>5 DEF ReturnedIsComplete
  <2> QED BY <1>1, <2>3, <2>4, <2>6, InsideRest DEF Claiming
<1>4. CASE ~(tmp[j] /\ manifest = NoManifest)
  <2>1. manifest' = manifest /\ pc'[j] = "discard"
    BY <1>4 DEF LinkManifest, SInv, CInv, TInv, TypeOK
  <2>2. Remembered(j)'
    BY <2>1 DEF Remembered, Loaded
  <2> QED BY <1>1, <1>2, <2>1, <2>2, InsideStep DEF Claiming
<1> QED BY <1>3, <1>4

\* A manifest whose entries are in the plan and miss none of it is complete.
LEMMA CompleteWhenNoneRemains ==
  ASSUME NEW j \in Jobs, Remaining(j) = {}, Holds(mem[j]), mem[j].query = job[j].query
  PROVE  Complete(mem[j])
  BY DEF Remaining, Holds, Complete, RecordedIn

LEMMA SafePublishManifest ==
  ASSUME SInv, CInv', NEW j \in Jobs, PublishManifest(j)
  PROVE  SInv'
<1>1. pc[j] \in {"marker", "close"} /\ (\A k \in Jobs : k # j => pc'[k] = pc[k])
  BY DEF PublishManifest, Goto, SInv, CInv, TInv, TypeOK
<1>2. UNCHANGED <<parts, tampered, job, mem>>
  BY DEF PublishManifest, bounds
<1>3. Remembered(j)
  BY DEF SInv
<1>4. CASE ~tmp[j]
  <2>1. manifest' = manifest /\ pc'[j] = "abort"
    BY <1>4 DEF PublishManifest, SInv, CInv, TInv, TypeOK
  <2> QED BY <1>1, <1>2, <2>1, SafeMove DEF Loaded
<1>5. CASE tmp[j]
  <2>1. /\ manifest' = mem[j]
        /\ (pc[j] = "marker" /\ pc'[j] = "batch") \/ (pc[j] = "close" /\ pc'[j] = "release")
    BY <1>5 DEF PublishManifest, Goto, SInv, CInv, TInv, TypeOK
  <2>2. /\ mem[j] \in Manifests /\ mem[j].query = job[j].query /\ Holds(mem[j])
        /\ manifest.shards \subseteq mem[j].shards /\ manifest.query = job[j].query
    BY <1>1, <1>3 DEF Remembered, Loaded, SInv, CInv, TInv, Armed
  <2>3. mem[j] # NoManifest
    BY <2>2, ValueAssumption
  <2>4. Holds(mem[j])' /\ Holds(manifest)'
    BY <1>2, <2>1, <2>2 DEF Holds
  <2>5. Remaining(j)' = Remaining(j)
    BY <1>2 DEF Remaining, RecordedIn, Plan
  <2>6. Remembered(j)'
    BY <1>1, <1>2, <1>3, <2>1, <2>2, <2>3, <2>4, <2>5 DEF Remembered, Loaded
  <2>7. (manifest # NoManifest /\ Complete(manifest)) => Complete(mem[j])
    BY <2>2 DEF Complete, RecordedIn, Holds
  <2>8. ReturnedIsComplete'
    <3> SUFFICES ASSUME NEW k \in Jobs, pc'[k] = "done"
                 PROVE  manifest' # NoManifest /\ Complete(manifest')
      BY DEF ReturnedIsComplete, Complete, RecordedIn, Plan
    <3>1. pc[k] = "done"
      BY <1>1, <2>1
    <3>2. manifest # NoManifest /\ Complete(manifest)
      BY <3>1 DEF SInv, ReturnedIsComplete
    <3> QED BY <2>1, <2>3, <2>7, <3>2
  <2> QED BY <1>1, <2>4, <2>6, <2>8, InsideRest DEF Claiming
<1> QED BY <1>4, <1>5

LEMMA SafeRelease ==
  ASSUME SInv, CInv', NEW j \in Jobs, ReleaseClaim(j)
  PROVE  SInv'
<1>1. pc[j] \in {"release", "abort"} /\ (\A k \in Jobs : k # j => pc'[k] = pc[k])
  BY DEF ReleaseClaim, End, SInv, CInv, TInv, TypeOK
<1>2. UNCHANGED <<manifest, parts, tampered>>
  BY DEF ReleaseClaim, bounds
<1>3. pc'[j] \in {"done", "idle"}
  BY DEF ReleaseClaim, End, SInv, CInv, TInv, TypeOK
<1>4. Remembered(j)'
  BY <1>3 DEF Remembered, Loaded
<1>5. CASE pc[j] = "abort"
  <2>1. pc'[j] # "done"
    BY <1>5 DEF ReleaseClaim, End, SInv, CInv, TInv, TypeOK
  <2> QED BY <1>1, <1>2, <1>4, <2>1, InsideStep DEF Claiming
<1>6. CASE pc[j] = "release"
  <2>1. Remembered(j)
    BY DEF SInv
  <2>2. manifest # NoManifest /\ manifest = mem[j] /\ Complete(mem[j])
    BY <1>6, <2>1, CompleteWhenNoneRemains DEF Remembered, Loaded
  <2>3. ReturnedIsComplete'
    BY <1>2, <2>2 DEF ReturnedIsComplete, Complete, RecordedIn, Plan
  <2>4. manifest' # NoManifest => Holds(manifest)'
    BY <1>2, TruthKept DEF SInv
  <2> QED BY <1>1, <1>4, <2>3, <2>4, InsideRest DEF Claiming
<1> QED BY <1>1, <1>5, <1>6

LEMMA SafeFault ==
  ASSUME SInv, CInv', NEW j \in Jobs, Fail(j) \/ Kill(j)
  PROVE  SInv'
<1>1. /\ pc'[j] \in {"discard", "abort", "idle"}
      /\ \A k \in Jobs : k # j => pc'[k] = pc[k] /\ job'[k] = job[k] /\ mem'[k] = mem[k]
  BY DEF Fail, Kill, End, SInv, CInv, TInv, TypeOK
<1>2. Remembered(j)'
  BY <1>1 DEF Remembered, Loaded
<1> QED BY <1>1, <1>2, OutsideStep DEF Fail, Kill

LEMMA TamperWrites ==
  ASSUME TypeOK, Tamper
  PROVE  \A i \in Batches : parts'[i] \in {parts[i], Damaged, Absent}
  BY DEF Tamper, TypeOK

LEMMA SafeTamper ==
  ASSUME SInv, CInv', Tamper
  PROVE  SInv'
<1>1. UNCHANGED <<manifest, pc, job, mem>>
  BY DEF Tamper, jobVars
<1>2. /\ tampered \subseteq tampered'
      /\ \A i \in Batches : i \notin tampered' => parts'[i] = parts[i]
  BY DEF Tamper, SInv, CInv, TInv, TypeOK
<1>3. \A m \in Manifests : Holds(m) => \A e \in m.shards : e.index \in Batches
  BY DEF Manifests, Entries
<1>4. manifest # NoManifest => Holds(manifest)'
  BY <1>1, <1>2, <1>3 DEF SInv, CInv, TInv, TypeOK, Holds
<1>5. ASSUME NEW j \in Jobs PROVE Remembered(j)'
  <2>1. Remembered(j)
    BY DEF SInv
  <2>2. pc[j] \in Loaded => Holds(mem[j])'
    BY <1>1, <1>2, <1>3, <2>1 DEF SInv, CInv, TInv, TypeOK, Armed, Remembered, Holds
  <2>3. Remaining(j)' = Remaining(j)
    BY <1>1 DEF Remaining, RecordedIn, Plan
  <2>4. pc[j] = "record" => Remaining(j) \subseteq Batches
    BY PlanInBatches DEF SInv, CInv, TInv, Armed, Claiming, JobSpecs, Remaining
  <2>5. pc[j] = "record" =>
          \A i \in Remaining(j)' :
            FirstOf(Remaining(j)', i) =>
              /\ parts'[i] \in {Shard(job'[j].query, job'[j].schema, i), Damaged, Absent}
              /\ i \in tampered' \/ parts'[i] = Shard(job'[j].query, job'[j].schema, i)
    BY <1>1, <1>2, <2>1, <2>3, <2>4, TamperWrites DEF Remembered, SInv, CInv, TInv, TypeOK
  <2> QED BY <1>1, <2>1, <2>2, <2>3, <2>5 DEF Remembered, FirstOf
<1>6. ReturnedIsComplete'
  BY <1>1 DEF SInv, ReturnedIsComplete, Complete, RecordedIn, Plan
<1> QED BY <1>1, <1>4, <1>5, <1>6 DEF SInv

LEMMA SafeOther ==
  ASSUME SInv, CInv',
         RemoveStaleClaim \/ ReadManifest \/ ReadManifestRaced \/ ReadShard \/ UNCHANGED vars
  PROVE  SInv'
<1>1. UNCHANGED <<manifest, parts, tampered, pc, job, mem>>
  BY DEF RemoveStaleClaim, ReadManifest, ReadManifestRaced, ReadShard, vars, files, jobVars, bounds
<1>2. \A j \in Jobs : Remembered(j)'
  BY <1>1, Untouched DEF SInv
<1>3. ReturnedIsComplete'
  BY <1>1 DEF SInv, ReturnedIsComplete, Complete, RecordedIn, Plan
<1> QED BY <1>1, <1>2, <1>3, TruthKept DEF SInv

LEMMA SafeNext == SInv /\ [Next]_vars => SInv'
<1> SUFFICES ASSUME SInv, [Next]_vars PROVE SInv'
  OBVIOUS
<1>1. CInv'
  BY TypeNext, ClaimNext DEF SInv, CInv
<1> QED
  BY <1>1, SafeStart, SafeEnter, SafeSeed, SafeLink, SafeValidate, SafeVerify, SafeDrop, SafeWrite,
     SafePublishShard, SafeRecord, SafePublishManifest, SafeRelease, SafeFault, SafeTamper, SafeOther
  DEF Next, WriterNext, Program

LEMMA SafeAlways == Spec => []SInv
  BY SafeInit, SafeNext, PTL DEF Spec

\* The published manifest is never ahead of, or different from, the shards.
THEOREM ManifestTruthful == Spec => []RecordedShardsHold
<1>1. SInv => RecordedShardsHold
  BY DEF SInv, Holds, RecordedShardsHold
<1> QED BY <1>1, SafeAlways, PTL

\* A job that returned left a complete matrix.
THEOREM ReturnMeansComplete == Spec => []ReturnedIsComplete
<1>1. SInv => ReturnedIsComplete
  BY DEF SInv
<1> QED BY <1>1, SafeAlways, PTL

\* A completed shard is never replaced or removed by a job.
THEOREM CompletedShardsStay == Spec => CompletedShardsUntouched
<1> DEFINE A == \A j \in Jobs : Program(j) =>
                  \A i \in Batches : (manifest # NoManifest /\ i \in RecordedIn(manifest))
                                       => parts'[i] = parts[i]
<1>1. SInv /\ [Next]_vars => [A]_vars
  <2> SUFFICES ASSUME SInv, NEW j \in Jobs, Program(j), NEW i \in Batches,
                      manifest # NoManifest, i \in RecordedIn(manifest)
               PROVE  parts'[i] = parts[i]
    OBVIOUS
  <2>1. CASE UNCHANGED parts
    BY <2>1
  <2>2. pc[j] \in {"drop", "publish"} => i \in RecordedIn(mem[j])
    BY DEF SInv, Remembered, Loaded, RecordedIn
  <2>3. CASE DropUnmarkedPart(j) /\ parts' # parts
    <3>1. pc[j] = "drop" /\ \E k \in Unmarked(j) : parts' = [parts EXCEPT ![k] = Absent]
      BY <2>3 DEF DropUnmarkedPart
    <3> QED BY <2>2, <3>1 DEF Unmarked, SInv, CInv, TInv, TypeOK
  <2>4. CASE PublishShard(j) /\ parts' # parts
    <3>1. PICK k \in Remaining(j) :
            parts' = [parts EXCEPT ![k] = Shard(job[j].query, job[j].schema, k)]
      BY <2>4 DEF PublishShard
    <3>2. pc[j] = "publish"
      BY <2>4 DEF PublishShard
    <3> QED BY <2>2, <3>1, <3>2 DEF Remaining, SInv, CInv, TInv, TypeOK
  <2>5. DropUnmarkedPart(j) \/ PublishShard(j) \/ UNCHANGED parts
    BY DEF Program, ResolveOutput, ClaimRun, SeedManifest, LinkManifest, UnlinkSeed, Validate,
           VerifyShard, SweepTemporaries, RecoverSchema, WriteShard, RecordShard, PublishManifest,
           ReleaseClaim, files
  <2> QED BY <2>1, <2>3, <2>4, <2>5
<1> QED BY <1>1, SafeAlways, PTL DEF Spec, CompletedShardsUntouched

-----------------------------------------------------------------------------
(* The directory form implements ShardedRun.                               *)

LEMMA RefinementInit == Init => Run!Init
  BY DEF Init, Run!Init

LEMMA RefinementStep == SInv /\ [Next]_vars => [Run!Next]_(Run!runVars)
<1> SUFFICES ASSUME SInv, [Next]_vars PROVE [Run!Next]_(Run!runVars)
  OBVIOUS
<1> DEFINE abs == <<IF manifest = NoManifest THEN NoManifest ELSE manifest.query,
                    IF manifest = NoManifest THEN {} ELSE RecordedIn(manifest)>>
<1>1. CASE UNCHANGED manifest
  BY <1>1 DEF Run!runVars, RecordedIn
<1>2. ASSUME NEW j \in Jobs, LinkManifest(j), manifest' # manifest
      PROVE  Run!Begin
  <2>1. manifest = NoManifest /\ manifest' = mem[j] /\ pc[j] = "link"
    BY <1>2 DEF LinkManifest
  <2>2. mem[j] = [query |-> job[j].query, schema |-> NoSchema, shards |-> {}] /\ mem[j] \in Manifests
    BY <2>1 DEF SInv, CInv, TInv, Armed, Remembered
  <2>3. mem[j] # NoManifest /\ mem[j].query \in Queries /\ RecordedIn(mem[j]) = {}
    BY <2>2, ValueAssumption DEF Manifests, RecordedIn
  <2> QED BY <2>1, <2>3 DEF Run!Begin, RecordedIn
<1>3. ASSUME NEW j \in Jobs, PublishManifest(j), manifest' # manifest
      PROVE  [Run!Next]_(Run!runVars)
  <2>1. manifest' = mem[j] /\ pc[j] \in {"marker", "close"}
    BY <1>3 DEF PublishManifest, Goto
  <2>2. Remembered(j) /\ mem[j] \in Manifests
    BY <2>1 DEF SInv, CInv, TInv, Armed, Loaded
  <2>3. /\ manifest # NoManifest /\ mem[j] # NoManifest
        /\ manifest.query = mem[j].query
        /\ job[j].query = mem[j].query
    BY <2>1, <2>2, ValueAssumption DEF Remembered, Loaded
  <2>4. CASE pc[j] = "close"
    <3>1. RecordedIn(mem[j]) = RecordedIn(manifest)
      BY <2>2, <2>4 DEF Remembered, Loaded, RecordedIn
    <3> QED BY <2>1, <2>3, <3>1 DEF Run!runVars, RecordedIn
  <2>5. CASE pc[j] = "marker"
    <3>1. PICK i \in Plan(mem[j].query) \ RecordedIn(manifest) :
            RecordedIn(mem[j]) = RecordedIn(manifest) \cup {i}
      BY <2>2, <2>3, <2>5 DEF Remembered
    <3>2. RecordedIn(manifest') = RecordedIn(manifest) \cup {i}
      BY <2>1, <3>1
    <3>3. i \in Run!BatchesOf(manifest.query) \ RecordedIn(manifest)
      BY <2>3, <3>1 DEF Run!BatchesOf, Plan
    <3>4. manifest' # NoManifest /\ manifest'.query = manifest.query
      BY <2>1, <2>3
    <3>5. Run!Record
      <4>1. \E k \in Run!BatchesOf(manifest.query) \ RecordedIn(manifest) :
              RecordedIn(manifest') = RecordedIn(manifest) \cup {k}
        BY <3>2, <3>3
      <4>2. RecordedIn(manifest)' = RecordedIn(manifest')
        BY DEF RecordedIn
      <4> DEFINE own == IF manifest = NoManifest THEN NoManifest ELSE manifest.query
                 rec == IF manifest = NoManifest THEN {} ELSE RecordedIn(manifest)
      <4>3. own = manifest.query /\ own' = manifest.query /\ own # NoManifest
        <5>1. manifest.query \in Queries
          BY <2>2, <2>3 DEF Manifests
        <5> QED BY <2>3, <3>4, <5>1, ValueAssumption
      <4>4. rec = RecordedIn(manifest) /\ rec' = RecordedIn(manifest')
        BY <2>3, <3>4, <4>2
      <4>5. \E k \in Run!BatchesOf(own) \ rec : rec' = rec \cup {k}
        BY <4>1, <4>3, <4>4
      <4> QED BY <4>3, <4>5 DEF Run!Record
    <3> QED BY <3>5 DEF Run!Next
  <2> QED BY <2>1, <2>4, <2>5
<1>4. \/ UNCHANGED manifest
      \/ \E j \in Jobs : LinkManifest(j) \/ PublishManifest(j)
  BY DEF Next, WriterNext, Program, Launch, Rerun, Start, ResolveOutput, ClaimRun, SeedManifest,
         UnlinkSeed, Validate, VerifyShard, SweepTemporaries, DropUnmarkedPart, RecoverSchema,
         WriteShard, PublishShard, RecordShard, ReleaseClaim, Fail, Kill, RemoveStaleClaim, Tamper,
         ReadManifest, ReadManifestRaced, ReadShard, vars, files
<1> QED BY <1>1, <1>2, <1>3, <1>4 DEF Run!Next

\* Every step of every job is a step of the growing set of recorded batches.
THEOREM StreamingRefines == Spec => RefinesShardedRun
<1>1. Spec => Run!Spec
  BY RefinementInit, RefinementStep, SafeAlways, PTL DEF Spec, Run!Spec
<1> QED BY <1>1 DEF RefinesShardedRun

-----------------------------------------------------------------------------
(* The reader.                                                             *)

RInv ==
  reader \in {"reading", "returned"} =>
    /\ rman \in Manifests
    /\ RecordedIn(rman) = Plan(rman.query)
    /\ \A e \in rman.shards : e.sha256 \in {Shard(rman.query, rman.schema, e.index), Damaged}
    /\ \A i \in Batches :
         table[i] = Absent \/ (i \in Plan(rman.query) /\ table[i] = Shard(rman.query, rman.schema, i))
    /\ reader = "returned" => Unread = {}

LEMMA ReaderNext == SInv /\ RInv /\ [Next]_vars => RInv'
<1> SUFFICES ASSUME SInv, RInv, [Next]_vars PROVE RInv'
  OBVIOUS
<1>1. CASE UNCHANGED readerVars
  BY <1>1 DEF RInv, readerVars, RecordedIn, Unread
<1>2. CASE ReadManifest \/ ReadManifestRaced
  <2>1. CASE reader' = "reading"
    <3>1. rman' = manifest /\ table' = NoTable /\ Readable(manifest)
      BY <1>2, <2>1 DEF ReadManifest, ReadManifestRaced
    <3>2. manifest \in Manifests /\ Holds(manifest)
      BY <3>1 DEF Readable, SInv, CInv, TInv, TypeOK
    <3> QED BY <2>1, <3>1, <3>2 DEF RInv, NoTable, Readable, Holds, RecordedIn
  <2>2. CASE reader' = "refused"
    BY <2>2 DEF RInv
  <2> QED BY <1>2, <2>1, <2>2 DEF ReadManifest, ReadManifestRaced
<1>3. CASE ReadShard
  <2>1. reader = "reading"
    BY <1>3 DEF ReadShard
  <2>2. CASE Unread = {}
    BY <1>3, <2>1, <2>2 DEF ReadShard, RInv, RecordedIn, Unread
  <2>3. CASE reader' = "refused"
    BY <2>3 DEF RInv
  <2>4. CASE Unread # {} /\ reader' # "refused"
    <3>1. PICK e \in rman.shards :
            /\ Verified(e, rman)
            /\ table' = [table EXCEPT ![e.index] = parts[e.index]]
            /\ UNCHANGED <<reader, rman>>
      BY <1>3, <2>4 DEF ReadShard
    <3>2. parts[e.index] = Shard(rman.query, rman.schema, e.index)
      BY <2>1, <3>1, ValueAssumption DEF RInv, Verified
    <3>3. e.index \in Plan(rman.query)
      BY <2>1 DEF RInv, RecordedIn
    <3> QED BY <2>1, <3>1, <3>2, <3>3 DEF RInv, RecordedIn, SInv, CInv, TInv, TypeOK
  <2> QED BY <2>2, <2>3, <2>4
<1> QED BY <1>1, <1>2, <1>3
  DEF Next, WriterNext, Program, Launch, Rerun, Start, ResolveOutput, ClaimRun, SeedManifest,
      LinkManifest, UnlinkSeed, Validate, VerifyShard, SweepTemporaries, DropUnmarkedPart,
      RecoverSchema, WriteShard, PublishShard, RecordShard, PublishManifest, ReleaseClaim, Fail,
      Kill, RemoveStaleClaim, Tamper, vars

\* Whatever the writers, the kills and the tampering, a returned frame is sound.
THEOREM ReaderReturnsSound == Spec => []ReaderSound
<1>1. Init => RInv
  BY DEF Init, RInv
<1>2. SInv /\ RInv => ReaderSound
  BY PlanInBatches DEF SInv, CInv, TInv, TypeOK, RInv, ReaderSound, Unread
<1> QED BY <1>1, <1>2, ReaderNext, SafeAlways, PTL DEF Spec

\* What the manifest marks completed is there, and after a return that is all
\* of it, across kills, failures and resumes.
THEOREM ManifestAlwaysTrue == Spec => []ManifestTrue
<1> QED BY ManifestTruthful, ReturnMeansComplete, PTL DEF ManifestTrue

----------------------------------------------------------------------------
(* The single file.                                                        *)

Places == Over \cup Holding \cup {"look", "reserve"}

\* The claim is the only writer's, and what it is about to link is whole.
FInv == /\ at \in [Writers -> Places]
        /\ DOMAIN staged = Writers
        /\ staged = [w \in Writers |-> staged[w]]
        /\ \A w \in Writers :
             /\ at[w] \in Holding => sidecar = w
             /\ at[w] = "write" => \E n : staged[w] = [writer |-> w, batches |-> n]
             /\ at[w] = "link" => staged[w] = [writer |-> w, batches |-> RowGroups]
             /\ at[w] \in {"tidied", "dropped"} => staged[w] = NoFile

LEMMA FInit == FileInit => FInv
  BY DEF FileInit, FInv, Places, Over, Holding

\* Only the writer w moves, and only its own temporary changes.
LEMMA FMove ==
  ASSUME FInv, NEW w \in Writers, NEW place \in Places, NEW file,
         at' = [at EXCEPT ![w] = place], staged' = [staged EXCEPT ![w] = file],
         \A v \in Writers \ {w} : at[v] \in Holding => sidecar' = v,
         place \in Holding => sidecar' = w,
         place = "write" => \E n : file = [writer |-> w, batches |-> n],
         place = "link" => file = [writer |-> w, batches |-> RowGroups],
         place \in {"tidied", "dropped"} => file = NoFile
  PROVE  FInv'
<1>1. at' \in [Writers -> Places] /\ DOMAIN staged' = Writers
  BY DEF FInv
<1>2. staged' = [v \in Writers |-> staged'[v]]
  BY DEF FInv
<1>3. ASSUME NEW v \in Writers
      PROVE  /\ at'[v] \in Holding => sidecar' = v
             /\ at'[v] = "write" => \E n : staged'[v] = [writer |-> v, batches |-> n]
             /\ at'[v] = "link" => staged'[v] = [writer |-> v, batches |-> RowGroups]
             /\ at'[v] \in {"tidied", "dropped"} => staged'[v] = NoFile
  <2>1. CASE v = w
    <3>1. at'[v] = place /\ staged'[v] = file
      BY <2>1 DEF FInv
    <3> QED  BY <2>1, <3>1
  <2>2. CASE v # w
    <3>1. at'[v] = at[v] /\ staged'[v] = staged[v]
      BY <2>2 DEF FInv
    <3>2. v \in Writers \ {w}
      BY <2>2
    <3> QED  BY <3>1, <3>2 DEF FInv
  <2> QED  BY <2>1, <2>2
<1> QED  BY <1>1, <1>2, <1>3 DEF FInv

\* The same for a step that leaves the temporaries alone.
LEMMA FStay ==
  ASSUME FInv, NEW w \in Writers, NEW place \in Places,
         at' = [at EXCEPT ![w] = place], staged' = staged,
         \A v \in Writers \ {w} : at[v] \in Holding => sidecar' = v,
         place \in Holding => sidecar' = w,
         place = "write" => \E n : staged[w] = [writer |-> w, batches |-> n],
         place = "link" => staged[w] = [writer |-> w, batches |-> RowGroups],
         place \in {"tidied", "dropped"} => staged[w] = NoFile
  PROVE  FInv'
<1>1. staged' = [staged EXCEPT ![w] = staged[w]]
  BY DEF FInv
<1> QED  BY <1>1, FMove

\* A step of nobody keeps the claims of those who hold it.
LEMMA FAside ==
  ASSUME FInv, at' = at, staged' = staged,
         \A v \in Writers : at[v] \in Holding => sidecar' = v
  PROVE  FInv'
  BY DEF FInv

LEMMA PlacesAre ==
  /\ \A p \in Over \cup Holding \cup {"look", "reserve"} : p \in Places
  /\ \A p \in Over \cup {"look", "reserve"} : p \notin Holding
  BY DEF Places, Over, Holding

\* Every step of a writer keeps the invariant and does what OutputKept says.
LEMMA FWrite ==
  ASSUME FInv, NEW w \in Writers, Write(w),
         NoSidecar \notin Writers, StaleSidecar \notin Writers
  PROVE  /\ FInv'
         /\ target # NoFile => target' = target
         /\ target' # target => target' = [writer |-> w, batches |-> RowGroups]
         /\ at'[w] = "returned" \/ (at[w] \in Holding /\ at'[w] = "failed")
              => staged'[w] = NoFile /\ sidecar' # w
         /\ sidecar' # sidecar => w \in {sidecar, sidecar'}
<1>0. at \in [Writers -> Places] /\ \A v \in Writers : at[v] \in Holding => sidecar = v
  BY DEF FInv
<1>1. CASE LookForTarget(w)
  <2>1. PICK place \in {"reserve", "failed"} : at' = [at EXCEPT ![w] = place]
    BY <1>1 DEF LookForTarget, To
  <2>2. FInv'
    BY <1>1, <1>0, <2>1, FStay DEF LookForTarget, Places, Holding, Over
  <2>3. at[w] = "look" /\ at'[w] = place
    BY <1>1, <1>0, <2>1 DEF LookForTarget, To
  <2> QED  BY <1>1, <2>1, <2>2, <2>3 DEF LookForTarget, Holding
<1>2. CASE Reserve(w)
  <2>1. CASE To(w, "reserve", "make") /\ sidecar = NoSidecar /\ sidecar' = w
    <3>1. \A v \in Writers : at[v] \notin Holding
      BY <2>1, <1>0
    <3>2. FInv'
      BY <1>2, <1>0, <2>1, <3>1, FStay DEF Reserve, To, Places, Holding, Over
    <3>3. at'[w] = "make"
      BY <1>0, <2>1 DEF To
    <3> QED  BY <1>2, <2>1, <3>2, <3>3 DEF Reserve
  <2>2. CASE To(w, "reserve", "failed") /\ sidecar # NoSidecar /\ UNCHANGED sidecar
    <3>1. FInv'
      BY <1>2, <1>0, <2>2, FStay DEF Reserve, To, Places, Holding, Over
    <3>2. at[w] \notin Holding /\ at'[w] = "failed"
      BY <1>0, <2>2 DEF To, Holding
    <3> QED  BY <1>2, <2>2, <3>1, <3>2 DEF Reserve
  <2> QED  BY <1>2, <2>1, <2>2 DEF Reserve
<1>3. CASE MakeTemporary(w)
  <2>1. sidecar = w
    BY <1>3, <1>0 DEF MakeTemporary, To, Holding
  <2>2. FInv'
    BY <1>3, <1>0, <2>1, FMove DEF MakeTemporary, To, Places, Holding, Over
  <2>3. at'[w] = "write"
    BY <1>3, <1>0 DEF MakeTemporary, To
  <2> QED  BY <1>3, <2>2, <2>3 DEF MakeTemporary
<1>4. CASE WriteRowGroup(w)
  <2>1. sidecar = w /\ at[w] = "write"
    BY <1>4, <1>0 DEF WriteRowGroup, Holding
  <2>2. PICK n : staged[w] = [writer |-> w, batches |-> n]
    BY <2>1 DEF FInv
  <2>3. CASE /\ To(w, "write", "write")
             /\ staged' = [staged EXCEPT ![w] = [writer |-> w, batches |-> @.batches + 1]]
    <3>1. staged' = [staged EXCEPT ![w] = [writer |-> w, batches |-> staged[w].batches + 1]]
      BY <2>3 DEF FInv
    <3>2. FInv'
      BY <1>4, <1>0, <2>1, <2>3, <3>1, FMove DEF WriteRowGroup, To, Places, Holding, Over
    <3>3. at'[w] = "write"
      BY <1>0, <2>3 DEF To
    <3> QED  BY <1>4, <3>2, <3>3 DEF WriteRowGroup
  <2>4. CASE To(w, "write", "drop") /\ UNCHANGED staged
    <3>1. FInv'
      BY <1>4, <1>0, <2>1, <2>4, FStay DEF WriteRowGroup, To, Places, Holding, Over
    <3>2. at'[w] = "drop"
      BY <1>0, <2>4 DEF To
    <3> QED  BY <1>4, <3>1, <3>2 DEF WriteRowGroup
  <2>5. CASE To(w, "write", "link") /\ staged[w].batches = RowGroups /\ UNCHANGED staged
    <3>1. staged[w] = [writer |-> w, batches |-> RowGroups]
      BY <2>2, <2>5
    <3>2. FInv'
      BY <1>4, <1>0, <2>1, <2>5, <3>1, FStay DEF WriteRowGroup, To, Places, Holding, Over
    <3>3. at'[w] = "link"
      BY <1>0, <2>5 DEF To
    <3> QED  BY <1>4, <3>2, <3>3 DEF WriteRowGroup
  <2> QED  BY <1>4, <2>3, <2>4, <2>5 DEF WriteRowGroup
<1>5. CASE Publish(w)
  <2>1. sidecar = w /\ staged[w] = [writer |-> w, batches |-> RowGroups]
    BY <1>5, <1>0 DEF Publish, To, Holding, FInv
  <2>2. PICK place \in {"tidy", "drop"} : at' = [at EXCEPT ![w] = place]
    BY <1>5 DEF Publish, To
  <2>3. FInv'
    BY <1>5, <1>0, <2>1, <2>2, FStay DEF Publish, Places, Holding, Over
  <2>4. at'[w] = place
    BY <1>0, <2>2
  <2> QED  BY <1>5, <2>1, <2>3, <2>4 DEF Publish
<1>6. CASE UnlinkTemporary(w)
  <2>1. sidecar = w
    BY <1>6, <1>0 DEF UnlinkTemporary, To, Holding
  <2>2. PICK place \in {"tidied", "dropped"} : at' = [at EXCEPT ![w] = place]
    BY <1>6 DEF UnlinkTemporary, To
  <2>3. FInv'
    BY <1>6, <1>0, <2>1, <2>2, FMove DEF UnlinkTemporary, Places, Holding, Over
  <2>4. at'[w] = place
    BY <1>0, <2>2
  <2> QED  BY <1>6, <2>3, <2>4 DEF UnlinkTemporary
<1>7. CASE UnlinkSidecar(w)
  <2>1. sidecar = w /\ at[w] \in {"tidied", "dropped"}
    BY <1>7, <1>0 DEF UnlinkSidecar, To, Holding
  <2>2. PICK place \in {"returned", "failed"} : at' = [at EXCEPT ![w] = place]
    BY <1>7 DEF UnlinkSidecar, To
  <2>3. staged[w] = NoFile
    BY <2>1 DEF FInv
  <2>4. \A v \in Writers \ {w} : at[v] \notin Holding
    BY <1>0, <2>1
  <2>5. FInv'
    BY <1>7, <1>0, <2>2, <2>4, FStay DEF UnlinkSidecar, Places, Holding, Over
  <2>6. sidecar' # w
    BY <1>7 DEF UnlinkSidecar
  <2> QED  BY <1>7, <2>1, <2>3, <2>5, <2>6 DEF UnlinkSidecar
<1> QED  BY <1>1, <1>2, <1>3, <1>4, <1>5, <1>6, <1>7 DEF Write

LEMMA FNext ==
  ASSUME FInv, [FileNext]_fileVars, NoSidecar \notin Writers, StaleSidecar \notin Writers
  PROVE  FInv'
<1>0. at \in [Writers -> Places] /\ \A v \in Writers : at[v] \in Holding => sidecar = v
  BY DEF FInv
<1>1. CASE UNCHANGED fileVars
  BY <1>0, <1>1, FAside DEF fileVars
<1>2. ASSUME NEW w \in Writers, StartWriter(w)
      PROVE  FInv'
  <2>1. PICK place \in {"failed", "look"} : at' = [at EXCEPT ![w] = place]
    BY <1>2 DEF StartWriter
  <2> QED  BY <1>0, <1>2, <2>1, FStay DEF StartWriter, Places, Holding, Over
<1>3. ASSUME NEW w \in Writers, Write(w)
      PROVE  FInv'
  BY <1>3, FWrite
<1>4. ASSUME NEW w \in Writers, Raise(w)
      PROVE  FInv'
  <2>1. sidecar = w
    BY <1>0, <1>4 DEF Raise, To, Holding
  <2>2. \A v \in Writers \ {w} : at[v] \notin Holding
    BY <1>0, <2>1
  <2>3. PICK place \in {"drop", "failed"} : /\ at' = [at EXCEPT ![w] = place]
                                            /\ place = "drop" => UNCHANGED sidecar
    BY <1>4 DEF Raise, To
  <2> QED  BY <1>4, <2>1, <2>2, <2>3, FStay DEF Raise, Places, Holding, Over
<1>5. ASSUME NEW w \in Writers, Die(w)
      PROVE  FInv'
  <2>1. at' = [at EXCEPT ![w] = "idle"] /\ staged' = [staged EXCEPT ![w] = NoFile]
    BY <1>5 DEF Die
  <2>2. \A v \in Writers \ {w} : at[v] \in Holding => sidecar' = v
    BY <1>0, <1>5 DEF Die
  <2> QED  BY <2>1, <2>2, FMove DEF Places, Holding, Over
<1>6. CASE RemoveStaleSidecar
  BY <1>0, <1>6, FAside DEF RemoveStaleSidecar
<1>7. CASE Intrude
  BY <1>0, <1>7, FAside DEF Intrude
<1> QED  BY <1>1, <1>2, <1>3, <1>4, <1>5, <1>6, <1>7 DEF FileNext

\* No step of a job overwrites the output, what it publishes is the whole
\* matrix, and a job that ends by itself takes its own claim and temporary with
\* it and nobody else's (write_stream, the single-file form).
THEOREM OutputIsKept ==
  ASSUME NoSidecar \notin Writers, StaleSidecar \notin Writers
  PROVE  FileSpec => OutputKept
<1>1. FileInit => FInv
  BY FInit
<1>2. FInv /\ [FileNext]_fileVars => FInv'
  BY FNext
<1>3. FInv => [\A w \in Writers : Write(w) =>
       /\ target # NoFile => target' = target
       /\ target' # target => target' = [writer |-> w, batches |-> RowGroups]
       /\ at'[w] = "returned" \/ (at[w] \in Holding /\ at'[w] = "failed")
            => staged'[w] = NoFile /\ sidecar' # w
       /\ sidecar' # sidecar => w \in {sidecar, sidecar'}]_fileVars
  BY FWrite
<1> QED  BY <1>1, <1>2, <1>3, PTL DEF FileSpec, OutputKept
=============================================================================
