# TLA+ models of cafein

cafein routes public-transport journeys: a Rust workspace (`crates/cafein-core`
the algorithms, `crates/cafein-gtfs` the feed reader, `crates/cafein-py` the
PyO3 bindings) under a Python package (`python/cafein`) that assembles
matrices, streams them to disk and derives indicators from them.  This
directory holds TLA+ models of the parts whose correctness depends on orders of
events, on crashes, or on a long chain of algorithmic invariants; TLC checks
them on small instances, and TLAPS proves the most important properties for
every value of the constants.

Paths below are relative to the repository; `search.rs` without a directory is
`crates/cafein-core/src/routers/raptor/search.rs`.

## 1. Inventory

| component | state it keeps | operations | what is hard about it | what makes it correct |
|---|---|---|---|---|
| streamed output (`_streaming.py`, fed by five functions of `matrices.py`) | a directory: `run.claim`, `manifest.json`, `part-*.parquet`, temporaries, and an in-memory manifest per job; or one `.parquet` file with its sidecar claim | `resolve_output`, `claim_run`, `write_manifest`, `validate_resume`, `write_stream`, `recover_schema`, `read_shards` | several processes on one output, kills between any two file operations, resumes, a reader without a lock | one writer at a time; a recorded shard is on disk and is what the manifest says; a finished run is complete; a dead run can be resumed; a published file is never overwritten |
| timetable build (`cafein-gtfs/timetable.rs`, `cafein-core/timetable.rs`) | builder's registered patterns and trips; the CSR timetable | `build_timetable`, `interpolate_stop_times`, `add_trip`, `finish` | a stable sort plus first-fit FIFO chaining that every binary search of the routers silently relies on | no overtaking inside a pattern, splits only where trips overtake, every sound trip once |
| RAPTOR range search (`search.rs`, `path_key.rs`, `transfers.rs`) | per-round arrival and label tables shared by all departures of a window, marks, pattern queue, exact-phase sidecar, thresholds | `profile`: access, scan, alight, board, walk, collect, reconstruct | tables outlive the pass that wrote them; two service days on one clock; unclosed footpaths; scan order | exact arrivals, consistent label chains, sound, undominated and complete journeys, canonical ties |
| reverse search (`reverse/search.rs`) | bags of continuations per round and stop | arrive-by profile, election, replay, fast paths | two criteria per label, replay by another engine | every continuation, no answer lost, the fast paths agree |
| RAPTOR matrices and costs (`raptor/matrices.rs`, `costs.rs`) | a pooled search, cells per destination | one search per origin, fold, sample, price | state surviving a pooled search's reset | an origin's row does not depend on the origins before it; cells add up and are cheapest |
| trip-based routing (`tbtr/`) | transfer set for one date, reached-trip index, queue | reduction, queries, matrices | the reduction may only drop transfers no journey needs | every arrival kept, scans exact, canonical chains |
| multicriteria RAPTOR and TBTR (`mcraptor/`, `mctbtr/`) | label bags, arenas of boarded trips | insertion, eviction, cancellation, merge | an evicted label is still a parent | Pareto frontier over time, grams and rides |
| vehicle carriage (`carriage.rs`) | two planes of tables | search with a carried vehicle | transitions between planes | exact on the product graph |
| fares and zones (`fare_frontier.rs`, `zone_frontier.rs`, `fares.rs`) | fare automata, dominance gates | frontier queries | dominance must respect what a fare can still become | no cheaper or faster journey lost |
| ULTRA, McULTRA (`ultra.rs`, `mcultra.rs`) | shortcut sets | precomputation by witness search | a missing shortcut is invisible to tests | same arrivals as with unrestricted walking |
| mode transfers (`mode_transfers.rs`, `access.rs`) | edge sets | merge of rental edges and walks | ties, stale rows | fastest per pair |
| streets and hierarchy (`streets/`, `ch.rs`) | graph, contraction order, shortcuts, a bounded profile cache, labels a thread keeps | search, snap, contract, ride | cached positions go stale; a witness search cut short; labels of the query before | distances equal Dijkstra's, answers independent of what was asked before |
| trip geometry (`geometry.rs`) | polylines | linear referencing | floating point | |
| GTFS reader and calendar (`cafein-gtfs/read.rs`, `service.rs`) | parsed feeds, services | read, merge, `runs_on` | exceptions against weekly service | |
| transport network state (`cafein-py/network.rs`, `artifact.rs`, `_snapshot.py`) | installed inputs, derived sets, generations, source identity; the saved file | `set_*`, `compute_*`, load, save, pinned queries | stale derived sets; an install between two calls of one query; a save cut off | nothing derived from a replaced input is used; the path always names a whole save |
| query bindings (`cost_matrices.rs`, `time_matrices.rs`, ...) | none | argument conversion, dispatch | | |
| progress and logging (`logging.rs`, `_log.py`) | ticker counters, live bars, presentation | `tick`, `start`/`end`, enable, disable, sync | worker threads, the GIL and two locks | monotone progress, no deadlock, no bar of an old presentation |
| workers and memory (`workers.rs`, `_memory.py`) | none | pool size, estimate | | |
| matrix computers, indicators, OSM extraction (`python/cafein`) | none | frame arithmetic, parsing | | |

How they interact.  `read.rs` hands feeds to the timetable build once, when a
network is created; routers only read the timetable.  The network object owns
timetable, transfers and streets, and hands references to the search engines;
`compute_*` calls derive further transfer sets and store them beside their
inputs.  Python computers call the network many times for one query, from
threads that may install something else in between (`_snapshot.py` guards that).
Long matrices are cut into batches and streamed: the batches of one job go into
one directory, whose files are all that jobs of different processes share.
Progress flows from worker threads through one lock and the GIL to the bars of
`_log.py`.

`PROJECT.json` lists every component with its status, and every hazard with its
line and the properties that would catch it.

## 2. Plan

What was planned is written: the core (`StreamingRun`, `Raptor`,
`TimetableBuild`, `NetworkState`, `ArtifactFile`, `Progress`), then the single
output file, the reverse search and the matrices, the other engines against the
same references, the shortcuts, the streets with everything asked of them, and
the theorems of section 5.

What remains worth doing, most valuable first:

1. Theorems on the other half of `ProductsExact`: the skeletons and least-cost cells
   of the matrices (`SkeletonAddsUp`, `CellsCheapest`), on top of `MatrixRowsExact`.
2. `CanonicalElection` on closed transfer sets, whose chains are recursive
   functions over the tables and would have to be related to one another first;
   `LegsUnfold` and `BehindFalls` of section 5 are a beginning.
3. The zone frontier and the bags of McULTRA, if instances that are small
   enough to enumerate and still reach their bounds can be found.

Composition.  The theorem `PatternsAreFifo` of the timetable build is the
assumption `WellFormedTimetable` of `Raptor`.  `Itineraries` says what every
engine promises, and `RaptorReference`, `ReverseSearch`, `RaptorMatrix`, `DayView`
and its engines, `Ultra`, `Carriage` and `FareFrontier` are all stated against
it; `SmallFeeds` gives them the same instances.  The street modules extend one
another from the layout to the policies.  `MCEngines`, `MCNetworkBuild`,
`MCNetworkState`, `MCStreamedOutput` and `MCFairRuns` put components that share no state side
by side, one at work in a behaviour, so that one run answers for all of them.

## 3. The modules

### ShardedRun, StreamingRun, SingleFileRun (`python/cafein/_streaming.py`)

`ShardedRun` is the abstract promise: a directory belongs to at most one query
from the moment its manifest appears, and the set of recorded batches only grows
within that query's plan.  `StreamingRun` is the code.  Every action of a job is
one file-system operation (or a decision between two), in program order:

| action | code |
|---|---|
| `Launch`, `Rerun`, `ResolveOutput` | a computer called with `output=`; `resolve_output` |
| `ClaimRun`, `ReleaseClaim` | `claim_run` (`O_EXCL`), and the `finally`/`except` that unlinks `run.claim` |
| `SeedManifest`, `LinkManifest`, `UnlinkSeed` | `write_manifest(claim=True)`: temporary, `os.link`, unlink |
| `Validate`, `VerifyShard`, `SweepTemporaries`, `DropUnmarkedPart`, `RecoverSchema` | `validate_resume` and its helpers |
| `WriteShard`, `PublishShard`, `RecordShard`, `PublishManifest` | one batch of `write_stream`: temporary, rename, hash, manifest by rename |
| `Fail`, `Kill` | an exception, or the death of the process, at any of these places |
| `RemoveStaleClaim`, `Tamper` | the operator; something outside the program altering a part file |
| `ReadManifest`, `ReadShard`, `ReadManifestRaced` | `read_shards`, with no claim |

The content of a shard is the triple (query, Arrow schema, batch) it was
computed from, and a sha256 stands for the content it was taken from, so
"damaged", "of another query" and "of another schema" are told apart and nothing
else is.

`SingleFileRun` is the other form, an output whose name ends in `.parquet`: a
job looks for the target (`LookForTarget`), takes the sidecar claim (`Reserve`),
writes row groups into a temporary, and links it to its name (`Publish`), while
another program may create the target at any moment (`Intrude`).

### Raptor, RaptorReference, Itineraries (`search.rs`, `path_key.rs`)

`Raptor` is `Search::profile`.  An action is one iteration of a loop of the
code: `SeedAccess` one access link, `CollectPatterns` the queue of a round,
`DequeuePattern`, `Alight` (per service day) and `Board` one stop of the pattern
scan, `StartWalking` and `Walk` one footpath of the one-to-one or the exact
transfer phase, `EndRound`, `Collect` one round's emission, `StartPass` the next
departure.  The order in which patterns and footpaths are taken is free where the code
takes them in the order stops happened to be marked, so a property of a run is
one no such order breaks.  `Record` is the write all three relaxations share
(tau, best, label, mark, with the tie rule of `path_key.rs`).  Numbers keep their
edges: a `u32::MAX` sentinel, checked addition, and the saturating subtraction of
a previous-day time.

`Itineraries` defines what an instance has to offer without marks, queues,
pruning or scan order: the earliest arrivals of one more ride and one more
footpath (`Further`), and when a set of journeys is a frontier.
`RaptorReference` states Raptor's promises in these terms.

### ReverseSearch, RaptorMatrix (`reverse/search.rs`, `raptor/matrices.rs`, `costs.rs`)

`ReverseSearch` grows bags of continuations from the destination.  An action is
the seeding of the egress stops, the start of a round, of a pattern
(`StartPattern`), one position of its scan with both service days
(`ScanPosition`), one round's footpaths (`Extend`), the end of a round, an
election, one replay by the forward engine, or the answer of one of the two fast
paths.  `InsertAll` is what the insertions of one step leave in a bag, in whatever order
they are made: the labels no other one of old and new dominates.  `ArriveByAssumption` says
what an arrive-by query is: deadlines of which the last is the latest, the walks all
the way, and the destination of each egress link.  `RaptorMatrix`
is a worker: `NextOrigin` with the reset of its pooled search, `FoldPass` and
`OriginRow` the cells of an origin, `PriceElected` the arrive-by form.  A matrix
request carries the origins that follow it (`NextRequest`), so the instances of a
run hold the request of every origin of theirs.

### DayView, TripBased, TripMatrix (`tbtr/`)

`DayView` splits the timetable of a date into lines.  `TripBased` generates and
reduces the transfers between trips, and scans segments of trips (`ScanSegment`,
`Alight`, `EndSegment`, rounds and passes).  `TripMatrix` is the scan of the
matrices, with a chain of tokens per stop and round instead of a destination; unlike the
searches it has no exact phase, and walks on only from rides that improve a stop.

### MultiCriteria, McRaptor, McTbtr, Exhaustive (`mcraptor/`, `mctbtr/`, `exhaustive.rs`)

`MultiCriteria` holds the bags, bands and promises both engines share.  The
actions of `McRaptor` and `McTbtr` are the phases of a round of the one thread
that runs them; `Exhaustive` is the oracle the repository tests them with, and all
itineraries of an instance beside it.

### Ultra, Carriage, FareFrontier (`ultra.rs`, `carriage.rs`, `fare_frontier.rs`, `fares.rs`)

`Ultra` steps through a source's departures, first rides, settled stops, second
rides and final walks, and emits shortcuts.  `Carriage` keeps the two planes, with
a vehicle and without, and the rows it parks and walks by.  `FareFrontier` carries
labels with what they have paid and may still owe, under both disciplines of
the calculator.

### TimetableBuild (`cafein-gtfs/timetable.rs`, `cafein-core/timetable.rs`)

`ReadTrip` is one iteration of `build_timetable` with `interpolate_stop_times`
and `add_trip`; `PlaceTrip` one trip of `finish`'s stable sort going to the
first chain it does not overtake; `FinishPattern` the emission of a registered
pattern's chains; `Ask`, `Halve`, `Find`, `Return` the binary searches
`earliest_active_trip` and `latest_active_trip` at the end of `search.rs`, with
the filters they apply.

### StreetGraph, ContractionHierarchy, StreetWalks, DirectedStreets, StreetQueries, StreetPolicies (`streets/`, `ch.rs`, `streets.rs`, `network.rs`, `mode_transfers.rs`)

The layout of edges and adjacency slots and the snaps; the build of the
hierarchy (`StartContraction`, `Requeue`, `Contract`, `FinishContraction`) and its
queries; the walking searches over a thread's kept labels; compiled profiles, their
cache, and the directed searches; the queries of the bindings, one action each;
and the merged transfer sets and the reduction of a street policy.  A later query
finds the cache and the labels an earlier one left behind.

### NetworkState (`cafein-py/network.rs`, `lib.rs`, `python/cafein/_snapshot.py`)

PyO3 borrows the network object for the length of a core call, so a call is one
step and calls of different Python threads interleave between them.  Each mutator
is an action that installs a new version of one input and drops what
the code drops (`SetTransfers`, `SetTripDistances`, `SetStreetNetwork`,
`SetMultimodalStreets`, and `InstallOther` for the inputs nothing is derived
from); each precomputation stores the record of the versions and parameters it
was computed from (`ComputeUltraShortcuts`, `ComputeMcUltraShortcuts`,
`ComputeTbtrTransfers`, `ComputeMcTbtrTransfers`, `ComputeModeTransfers`,
`ComputeCarriageTransfers`); `Refuse` is a mutator that fails its validation
after it forgot the file.  The lookups (`TimeTransfers`, `EmissionsTransfers`,
`TbtrSet`, ...) are the ones routers are handed, `ArtifactChecksum` the identity
a streamed run's fingerprint carries.  A query of several core calls reads the
two generations one after the other (`PinStreets`, `PinTransfers`), makes its
calls (`CallCore`, `CallFails`) and compares the generations in the same order
(`VerifyStreets`, `VerifyTransfers`).

### ArtifactFile (`cafein-py/artifact.rs`, `streets.rs`)

`write_container`, one file operation per action: `Create` (an exclusive staging
name made of pid and sequence number), `Write` (header and sections), `Sync`,
`Rename`, with `Fail` (the error path), `Kill`, `PowerLoss` (unsynced writes are
lost, a rename not yet settled may be) and `Settle`.  `LoadNetwork` takes
content and CRCs from one read and keeps the file mapped; a street network
takes them from two opens of the path (`ReadSource`, `LoadStreets`).
`NetworkState` treats a save as atomic, which is what `SavesWhole` of this module
justifies.

### Progress (`cafein-py/logging.rs`, `python/cafein/_log.py`)

A step is what runs without releasing the GIL or a lock another thread waits
for.  Workers count (`Tick`), take the ticker's lock at a boundary
(`LockTicker`), report the boundaries that are due one by one (`EmitBoundary`,
`Deliver`, which takes `_runs_lock` for the bar) and unlock.  A fan-out's caller
syncs, arms the ticker, starts the bar (`StartRead`, `StartOpen`), waits for its
workers (`Finish`) and ends the bar.  A user thread sets level and handler
(`Configure`, `InstallHandler`), drops the open bars under the lock
(`DropRuns`, `SignalClose`, `CloseBar`, `Dropped`) and syncs.  A shown bar has a
thread that redraws it (`Redraw`, `Redrawn`, `StopRedraw`), which its closer
waits for.

## 4. What the runs check

| run | question | bounds |
|---|---|---|
| `streaming_writers` | do claims exclude (`ClaimExclusive`), does the manifest tell the truth about the shards of a directory and a return mean that it is complete (`ManifestTrue`), is `ShardedRun` implemented, with completed shards left alone (`RefinesShardedRun`), and is a single file published whole and never overwritten (`OutputKept`)? | 2 processes, 2 queries (2 and 1 batches), 2 schemas, 3 launches, 2 kills or exceptions, 1 tampered file; single file: 2 row groups, 3 starts, 2 strikes, 2 foreign files |
| `fair_runs` | is a frame read without a claim one query's, one schema's, whole and undamaged (`ReaderSound`)? does a run whose manifest exists complete across kills unless a part was altered from outside (`RunCompletes`), and does every claim go away (`ClaimFreed`)? is every boundary reported once, when done, up to the total (`LinesExact`)? does the bar follow the setting and close with its run (`BarsExact`)? does every fan-out end and every reconfiguration return (`NoneWaits`)? | a directory or a fan-out at work; 2 processes, 1 query of 2 batches, 2 schemas, 2 launches, 2 faults, 1 tampered file, a reader at every point; 1 fan-out, 2 workers, 5 units, 2 lines (a step of 3, so the total is no multiple), 2 reconfigurations |
| `streaming_killed` (a violation) | can every killed run be resumed or restarted? | 1 fault |
| `raptor_range` | are label chains consistent, is no way on left out (`PassClosed`), are arrivals exact (`PassExact`), frontiers sound, undominated and complete (`FrontierExact`), ties canonical? are arrive-by continuations, answers and fast paths exact, and the rows and prices of matrices those of each origin alone? | 1216 instances: mostly 4 or 5 stops and at most 5 trips, a day of 10 ticks, a few departures, up to 3 rides |
| `raptor_ties` (a violation) | are arrivals earliest where trips leave a stop together? | one line, two trips |
| `engines` | do the frontiers of the multicriteria engines equal the oracle and the journeys they return exist? does the trip-to-trip reduction keep every arrival? do its searches answer exactly whatever the footpaths, is its matrix exact and canonical on closed footpaths, and does it miss on open ones only what is behind a ride that somebody on foot was as early as (`ScansExact`)? are the shortcuts as good as walking, are carried vehicles and fares exact? | 4 to 6 stops, the same families of feeds, one engine at work |
| `matrix_walks` (a violation) | has the trip-based matrix the earliest arrivals on footpaths that are not closed? | the `Shadowed` feeds |
| `band_anchor` (a violation) | is the fastest journey among the rows of a banded frontier? | feeds with a stop that is both an access and an egress stop |
| `ultra_calendar` (a violation) | are a network's shortcuts as good as walking on every date? | a trip that runs on the other of two dates |
| `network_build` | are splits exact, trips conserved and lookups exact? is the street layout independent of the order of its edges, the hierarchy exact, and are walks, rides, routes, profiles, policies and merged transfer sets those of a fresh search whatever was asked before? | feeds of up to 3 trips with every lookup over every subset of usable trips; small towns with 2 queries in a row, 2 override profiles, a witness search of 2 settled vertices |
| `network_calls` | does every lookup serve a set computed from what is installed now, does the checksum stand for this network's content, does a returned vehicle query see one network and a walking query one street graph, and is a query refused only after an install? is a saved path always whole and a mapped file left alone? | 2 dates, 2 factor vectors, 2 bindings, 3 installs or precomputations in any order, saves, loads, a foreign save, 1 query of 2 core calls; and 2 processes, a transport and a street network, 2 contents, 3 saves of 2 writes |
| `artifact_streets` (a violation) | are a street network's CRCs those of its own file? | 1 process, 2 saves of 2 writes |

Why the bounds are enough to be interesting.  Two processes are what an
interleaving needs and two batches are what a partly completed run needs; a
third launch lets a resume follow a collision; two faults let a job die while
it resumes after a death.  The families of `SmallFeeds` are built around the hazards:
footpaths that are not closed and shadowed arrivals (`Feeders`, `Shadowed`), trips
past midnight of two service days (`Midnight`), exact ties (`Parallel`), loops in a
pattern, excluded stops, inactive trips and overflowing access links (`Odd`), a
limit on rides that cuts journeys off (`RideLimit`).
The times vary so that connections are missed, caught and caught exactly.  Trips
that leave a stop together and part later occur in `raptor_range` only where its
answers do not depend on which of them is ridden; `raptor_ties` shows what
happens elsewhere.  The feeds of `MCNetworkBuild` combine ties, dwells,
overtaking, runs backwards and every position of blanks; its towns have parallel
edges, one-way streets, slopes, stops on a vertex and between two, and queries
whose second finds the state the first left behind.  Three installs let an input,
a set derived from it and a replacement follow each other, with a save and a
reload in between; longer chains are left to the theorems, which hold for any
number.  Three saves let a reader hold the first file while the second replaces
it and a third is cut off.  Two workers and two boundaries let one worker wait for
the lock with a boundary the other reports for it; more workers, and more
fan-outs at once, are left to the theorems too (all but the liveness property).

Each property of a passing run has a mutant in `PROJECT.json`: an operator of
the module that changes one mapped definition as a plausible bug would, under
which TLC finds that property violated.  Bounds named `Max...` are in the guards
of the actions of the environment only, never in those of the program.

Deadlock is checked in the Raptor, network and artifact runs.  The streaming and
progress systems may stop (nobody needs to start another job, and a fan-out that
is over stays so), so their configurations turn the check off and state that
everyone gets to the end as liveness; an engine of `engines`, `matrix_walks`,
`band_anchor` and `ultra_calendar` stops when it has returned its answer.

Fairness.  `StreamingRun!FairSpec` assumes weak fairness of `Program(j)`, since a
started process keeps running (kills are bounded faults); of
`RemoveStaleClaim`, since the error message of `claim_run` asks the operator to
remove a dead job's claim; and of `Rerun`, the user who reruns an unfinished
matrix with `resume=True`.  No fairness is assumed of launches, faults,
tampering or the reader.  `Progress!LogFairSpec` assumes weak
fairness of each thread that has something to do: the operating system and the
GIL let every thread run, a unit of work finishes, and redrawing a bar returns.
Weak fairness is enough for the locks: the acquisitions of a fan-out are finite
in number, and so are the reconfigurations of a run.  No fairness is assumed of a
call being made.  The fairness of `fair_runs` is that of both, each part while its system
is the one at work.

`Tabled` in the engines' modules changes nothing but when TLC computes a function's
values, and `\E x \in {e}` binds the value of `e` once.

## 5. What is proved

Each `*_proofs` module is checked by tlapm to the last leaf.  The theorems hold
for all values of the constants that satisfy the named assumptions of the
modules.

`StreamedOutput_proofs`, the shard directory.  `TInv` is the type invariant together with what a job
has in memory at each place (`Armed`).  `CInv` adds `ClaimExclusive`, which is
inductive on it: the claim is created exclusively, and removed only by its owner or
after its owner's death.  `SInv` adds that the published manifest and the
manifest in memory of the one claiming job agree with the shards on disk
(`Holds`, `Remembered`), per place of the program: the step from memory to disk is
what makes the truth of the manifest inductive.  From it follow
`ManifestAlwaysTrue`, `CompletedShardsStay`, and the step
simulation of `StreamingRefines`.  `RInv` adds what the reader has collected
(`ReaderReturnsSound`), with no assumption on what the writers do meanwhile.

`StreamedOutput_proofs`, the single file.  `FInv` says who owns the sidecar and the temporary at each
place of a job; `OutputIsKept`, the action property that a file once there is
never replaced and that what appears is whole, rests on the exclusive link alone,
so it holds whatever becomes of the claim.

`Raptor_proofs`.  Assumed: `WellFormedTimetable` (what `TimetableBuild` proves of
its patterns), `WellFormedTransfers` (one footpath per pair, and a set that calls
itself closed is), strictly decreasing departures.
`ChainsConsistent` is not inductive by itself: the trip being ridden must have
been boardable where it was boarded (`BoardedGood`), the sidecar must hold rides
that can be made (`TransitGood`) and so must the footpaths not yet relaxed
(`PendingGood`).  `RInv` is the conjunction.  Lemma `RecordConsistent` carries the
argument for the shared write: arrivals only fall, so what explained a label
still explains it (`ExplainsStays`).  `RaptorArrivalsOnlyImprove` is the action
property under that invariant.

The second half of the module bounds the arrivals from both sides, then follows
them into the journeys that are emitted.

* `RaptorPassClosed`: no way on is left out.  The code never looks at every ride
  of a round: it scans the lines of stops whose arrival changed since the last round, from
  the first such stop on, stops when nothing changed, and carries all that over to
  the next departure.  `CInv` says of every access link, every ride that can be
  caught and every footpath, at every step, that the tables hold what it gives or
  where the work on it waits: in the marks, in the queue, ahead of the scan, aboard
  a trip no later than it, in the sidecar, or among the footpaths still to relax.
  Each action passes on the work it takes up (`PassesOn`) and marks the stops
  whose arrivals it lowers (`MarksChanges`); between passes nothing waits.  A closed
  set's footpaths leave labels only and not rides, so a ride that comes second at its
  stop never walks; that it would have led nowhere sooner is the one place where
  closedness is needed (`WalksClose`).
* `RaptorPassExact`: the arrivals after a pass are exactly those of the
  reference in every round.  The reference is a recursive function of the number of
  rides: that the recursion has a solution, and that the tables equal it, are
  both shown by a least counterexample (`SmallestElement` of `Raptor_proofs`,
  lemmas `TableOfRounds`, `EarliestRounds` and `TablesExact`).  One direction is `RaptorPassClosed`.  The other is
  `SInv`: every arrival is that of an access link, a ride in time for what fewer
  rides reach, or *one* footpath behind such a ride.  `ChainsConsistent` is too
  weak for it, since a label may name a stop that was itself walked to when its ride
  was overtaken; `MarksReal` and `WalksReal` say that the footpaths of a round leave
  the arrivals of its rides.  The theorem has two hypotheses on the instance, and
  both are needed.  `TwinsAgree`: trips of a line that leave a stop together stay
  together; without it the conclusion is false, which is the finding
  `raptor_ties` of section 6, met in the attempt to prove it.  `AccessCloses`: on a
  closed set, a footpath behind an access link leads nowhere sooner than another
  access link, since the code relaxes no footpaths before the first ride.  Of the
  1216 instances of `raptor_range` 240 break the first, in ways that do not
  matter there, and 26 the second; TLC finds `PassExact` on all of them.
* `RaptorJourneysPareto`: no journey emitted is dominated by another, nor by
  walking to its egress stop, on any instance.  `EInv` says that a threshold is at
  most the arrival of every journey with no more rides (`BarsMet`) and, once
  lowered, is met by a journey emitted (`BarsEmitted`), that journeys come from the
  passes and rounds already collected (`EmittedInTurn`), and that an arrival no
  threshold rules out is one the pass at work has yet to collect and is sooner
  than walking (`OffersTaken`).
* `RaptorFrontierComplete`: at the end, every instant of the window, a candidate
  departure or not, has journeys as good as the reference's earliest arrivals by every
  number of rides.  `FInv` says so of each instant as soon as the last of its candidates
  has been asked for that many rides (`AnsweredInTurn`).  The reference of one
  instant is compared with tables that hold later departures too (`AsGood`): they
  are as good unless the walk to the access stop has not begun, and then an access link
  is no worse.  Besides the hypotheses of `RaptorPassExact` it assumes `Covers`: what
  can be boarded leaving at some instant can be boarded leaving at a candidate that is no
  earlier.  `RaptorCandidatesCover` proves that of what `departure_candidates` picks.
* `RaptorJourneysSound`: an emitted journey can be made as its legs say.  `reconstruct`
  follows labels written by any pass, some of them improved since, and puts the
  departure of the pass at work in front.  `LInv` says which stops labels may name; a
  label's arrival with the number of its rides falls with every step of a
  chain (`BehindFalls`), so chains end (`LegsExist`, `LegsUnfold`) and each label
  adds legs that connect to those behind it (`ChainOnward`); the chain's root is the
  pass's own because each departs earlier than the one before (`AccessNow`).
  Assumed is `WalksTakeTime`, that the footpaths of a closed set take time: with
  footpaths of no duration chains end because of the tie rule of
  `path_key.rs`, which is model-checked.
* `RaptorFrontierExact`: the three together, `FrontierExact` on every instance that
  meets the four hypotheses.  Of the 382 range searches of `raptor_range` 320 do; TLC
  finds `FrontierExact` on the others too.

`ReverseSearch_proofs`, on top of the lemmas of `Raptor_proofs`.  Assumed are
`ArriveByAssumption` and what `Raptor_proofs` assumes of timetable and footpaths;
none of the hypotheses that the forward theorems need (`TwinsAgree`,
`AccessCloses`) is.

* `ReverseContinuationsExact`: after the rounds every label of a stop is a continuation
  that can be ridden, and for every continuation there is one that leaves no earlier
  and arrives no later.  Neither half is inductive by itself.  `GInv` says that every
  label, wherever it is on its way (in a bag, aboard a trip, touched and not yet walked
  to), can be ridden to the destination by the deadline (the `Genuine` lemmas).  `VInv`
  says that what can be ridden is held, or that the work on it waits: in the changed
  stops, in the queue, at a position the scan has not reached, aboard a trip no earlier, or
  among the labels touched (the `NoneMissing` lemmas; `ScanInv` for the round at work,
  `RoundsCovered` and `SeedsCovered` for those behind).  A pattern is scanned from its
  last changed stop only, so the stops beyond have to be shown empty
  (`QueuedFarEnough`).  `AllHeld` then compares the bags with the recursive reference by
  a least counterexample in the number of rides.
* `ReverseAnswersExact`: no forward answer is lost, a candidate is only dropped
  where walking is as fast, and both fast paths answer as asking for one destination or
  from one origin at a time would.  Reverse and forward search are two recursions in opposite
  directions, which meet halfway: who is somewhere in time for a continuation arrives when
  it says (`RidesThrough`), and whatever the forward search reaches with its last ride, an
  access link is in time for a continuation of no more rides that arrives as early
  (`MeetsHalfway`).  What the elections leave out is led by what they keep
  (`WinnerLeads`, `ParetoCovers`).  A candidate the replay drops must reach an egress stop
  as early with fewer rides than it has, which its election excludes unless the stop is an
  access stop as well and it was walked to (`DetourWalked`).  The one search for all
  destinations, or all origins, holds continuations that are as early as those asked for alone,
  and conversely (`SharedAlone`), so both elect one winner (`SameWinner`, `NearestIs`).
  `AInv` says that elections and answers are those of the bags as they stand.
* The replay is compared with the reference of the forward engine (`ForwardArrival`); that
  the engine does reach it is `RaptorPassExact`, under its hypotheses.

`RaptorMatrix_proofs`, on top of `Raptor_proofs`.  Assumed of a matrix request is
`MatrixAssumption`: one departure for fastest times, some for a window, percentiles
between 0 and 100, and further origins that are matrix requests themselves.

* `MatrixRowsExact`: a row of fastest times has the exact time of every destination,
  and a row of percentiles has, for every percentile, a value of that rank among
  the exact times at every mark, whatever origins the worker's one search served
  before and in whatever order its passes scanned.  It is stated, row by row, of
  the requests that meet the hypotheses of `RaptorPassExact` (`Fit`); of the 96 such
  requests of `raptor_range` 66 do, and TLC finds `RowsExact` on the others too.
  `MInv` is inductive: the tables of the origin at work satisfy `RInv`, `CInv` and `SInv`,
  its cells and samples are those of the passes run (`CellsGood`, `SamplesGood`), and the
  finished rows are exact, each for the request it answers (`RowsGood`).  Three facts carry
  it.  The reset between two origins gives back all a search begins with except what
  every pass restores by itself, like the queue (`Blank`, from which each of the three
  invariants follows: `InvBlank`, `ClosedBlank`, `RealBlank`).  A pass leaves the arrivals of all departures so far in its tables,
  which are those of its own departure alone, since who leaves later can be waited for
  (`LastDepartureLeads`, once more by a least counterexample in the number of rides).  And the rank of a sorted
  sequence is counted on the unsorted one (`NearestRankIs`), whose sorted order exists
  (`Sortable`).

`TimetableBuild_proofs`.  `BInv` says that the builder starts from nothing
(`Fresh`), registered keys are distinct, trips are as long as their patterns
(`Lengths`), chains and patterns hold trips of their own key (`Placed`, with
`ChainsSorted` and `ChainsSplit`), and that the range of a binary search brackets its
boundary (`Narrowed`).  `PatternsAreFifo` compares a trip with the last of a
chain only and concludes for all by transitivity (`FollowsTransitive`);
`SplitsAreNeeded` uses that the sort order makes a trip that does not fit
overtake (`SortedOvertakes`), and `SplitsAreExact` is the two together;
`LookupsAreExact` is the usual argument for binary search, on a sequence the first
theorem makes monotone at every stop.  `TripsAreConserved` first shows of the
interpolation, by the known times around a blank (`Surround`, `Flow`), that it
leaves a sound trip's given times alone and its filled ones in order, so that
only flawed trips are quarantined; `KInv` then follows a trip from where it was
read through the one chain to the one pattern that lists it, once.

`NetworkState_proofs`.  `StateInv` says that everything derived was derived from
the inputs beside it (`Sound`), of the live network and of the file alike, since
a load makes the file the network; that a remembered source is the content
itself; and that compiled links belong to the multimodal graph installed.
`LookupsAreCurrent` and `ChecksumIsOwn` follow.  For the queries (`SnapshotsAreExact`),
`QueryInv` adds what equality of a generation with its pinned value means: until
the generation has moved, the versions it guards are those already seen
(`StreetsBehind`, `TransfersBehind`, `SeenNow`); after a check has passed it
keeps that everything seen was one (`SeenOnce`).  Lemma `Advance` carries it over
an install.

`ArtifactFile_proofs`.  The path and the disk name only files that are whole and
synced (`Published`); a save in progress owns the file it stages into, which
neither the path nor a loader refers to (`SaveInv`); and a loader's file is
published, with the content loaded (`LoadInv`).  With `SInv`, which follows each
staging name from its owner to the rename or the kill that left it, this makes
`SavesAreWhole` and `HeldFilesUnchanged` inductive.

`Progress_proofs`.  `TickInv` says what a worker between its count and its report
leaves pending: its boundary is at most the count, it is alone under the lock,
the last line is the emitted boundary or the one before it, and when
all units are done either the total was emitted or the worker that counted the last unit has
yet to report (`LinesAreExact`, `LinesInOrder`).  `BInv` says that who opens or closes
a bar holds `_runs_lock` (`LockInv`), and what bar a fan-out has at each place of its
caller (`BarInv`); a bar about to open under a replaced setting implies a
reconfiguration that still has to take the lock, which is why the bar it opens
cannot be missed (`BarsAreExact`, `OpenBarsStand`).

Only model-checked, not proved:

* liveness (`RunCompletes`, `ClaimFreed`, `NoneWaits`), which is out of the prover's
  reach;
* `PassExact`, `FrontierExact` and `RowsExact` on the instances that do not meet the hypotheses of
  their theorems, where trips tie, footpaths take no time or access links are not closed
  in ways that happen not to matter;
* `CanonicalElection`, which compares whole chains of labels, and the two parts of
  `ProductsExact` that follow chains as well, `SkeletonAddsUp` and `CellsCheapest`: each
  would need its own relation between recursive functions, as `TableOfRounds`, `LegsExist` and `MeetsHalfway` are for
  those above, since the library's induction theorems cannot be instantiated by
  the installed provers;
* the other engines and the streets, whose code is folds over bags, heaps and
  rows, for the same reason.

## 6. Findings

* `streaming_killed`.  `tests/test_streaming.py:1019` says a real process death
  "must leave a directory a plain resume completes from".  A kill between the
  creation of the first manifest's temporary and its link leaves a directory
  that is not empty and has no manifest: a fresh run and a resume both refuse it.
* `raptor_ties`.  `search.rs:139` says that `best[k][stop]` "is the earliest arrival
  at `stop` with at most `k` rides".  A rider aboard a trip changes to another of its line only
  if it departs strictly earlier (`search.rs:1013`), so where two trips
  leave together and the one caught upstream arrives later, the later arrival
  stays.  `carriage.rs:581-590` makes the same comparison.
* `band_anchor`.  `mc_bounds.rs:12-15` says the fastest journey of a pass always
  achieves the destination bound.  Where a stop is both an access and an egress
  stop the bound is that of walking by it, and `max_slower` drops the fastest
  journey.
* `ultra_calendar`.  `ultra.rs:8-11` describes the shortcuts as an alternative to
  unrestricted walking computed once for all dates.  Their witnesses may ride trips that
  do not run on the date of the query, which then misses the earliest arrival.
* `matrix_walks`.  `network.rs:1237` says that the engines relax the footpaths "with the
  exact transfer phase", `transfers.rs:17-20` that walks extend rides and never
  walks, and `tests/test_router_auto.py:190` that the rows of a cost matrix "never change
  with the dispatch".  Every non-empty transfer set is marked unclosed, and `matrix_pass`
  has no such phase: a ride that gets to a stop later than a walk does not improve it
  (`tbtr/matrix.rs:173`) and never walks on, while nobody may walk on from the
  walk.  RAPTOR's matrix and the trip-based searches have the phase and the arrival.
* `artifact_streets`.  `streets.rs:157` says a street network keeps the CRCs of
  the file it was loaded from.  They are read by an open of their own, before
  the load's: a save in between leaves it the CRCs of the file before.

Met while modelling, without a run of their own:

* `path_key.rs:1-4` promises the same representative "whatever chain their scan
  order meets first".  On an unclosed transfer set the sidecar keeps the first of two
  rides that arrive together, so the ride behind a footpath depends on the scan order.
* `itineraries.py:548` says a transit frame "reads one street graph and one
  transfer set".  Computing a whole-day ULTRA set (`network.rs:646`) advances no
  generation, so a frame during which another thread computes one relaxes two
  transfer sets and passes its check.
* `_log.py:570` says `progress="bar"` "draws one bar per operation".  A `sync` reads the
  presentation and stores it in two steps, so one of an earlier setting may
  store last, and the next operation draws none.
* `_streaming.py:655` makes the temporary of a single file outside the `try` of line 658
  that would release the claim: a failure there leaves the claim behind.
* The trip-based profile lists rides that are no faster than walking, which RAPTOR's
  does not.
* Where a carried walk and a carriage ride tie at a parking stop, the oracle in
  `carriage/tests.rs:398` lets a walk follow the park; `carriage.rs:421-428` does so
  only while the ride holds the slot.
* Of the zone frontier, from reading alone: a walked label that no point query collects may
  dominate a transit arrival that one would, where `fare_frontiers.rs:208` says
  "exact"; and a warm run over several slots with differing ceilings may answer a slot
  otherwise than it would alone.  The bindings call it with one slot.

## 7. Not modelled, and why

Floating-point geometry, snapping radii, elevation, statistics and indicators hold
no state and are beyond what TLC evaluates; text parsing (GTFS fields, OSM tags)
likewise.  The zone frontier is another label algebra with bounds of its own that
instances small enough to enumerate do not reach, and so are the bags of McULTRA,
which otherwise repeats `Ultra`.  Fan-outs over origins share nothing but the pool
that `RaptorMatrix` models for one worker.

`Raptor` leaves out the cost hooks; `one_to_all`, `plan` and the
reuse of a pooled search are in `RaptorMatrix`.  `StreamingRun` leaves out the
operator who removes the claim of a job that still runs, and the dictionary checks
of a batch are an outcome.

`NetworkState` keeps of the data which version of each input they were computed
from, and takes the computations to be deterministic.  A load is a new object: the
model moves to it when no query runs on the old one, and queries begun
on it see only it.  A foreign save has a content no install of this network makes.

In `ArtifactFile` a CRC stands for the content it is taken from; the format of the
container and the decoding of mapped sections are left out.  A file's content is
known from its creation, and is whole once all its parts are written.

In the engines grams, fares and seconds are small whole numbers; counters nothing
reads back are left out.  In the streets a place is a whole number of meters along
its edge, coordinates lie on a line, and the candidates of the grid index are all edges
within the allowance.

`Progress` leaves out the collectors, the phases, pyrosm's own reads and the
wording of lines.  The GIL makes a bytecode atomic and nothing more: it is not a
variable, and a Python thread may be interrupted between any two steps.

Trip geometry, the GTFS reader, the memory plans, the matrix computers, the
indicators and the OSM extraction are not modelled; `PROJECT.json` gives the reason
for each.
