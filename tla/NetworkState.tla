---------------------------- MODULE NetworkState ----------------------------
(***************************************************************************)
(* The mutable network object (TransportNetwork, cafein-py lib.rs and      *)
(* network.rs): what its mutators install, which derived sets they drop,   *)
(* which set each lookup relaxes, the file identity its checksum rests on, *)
(* and the Python queries that pin its generations across several core     *)
(* calls (_snapshot.py).                                                   *)
(*                                                                         *)
(* PyO3 borrows the object for the length of a core call, so a core call   *)
(* is one step; calls of different threads interleave between them.  The   *)
(* data are versions: an installed input is the number of its install, 0   *)
(* for none, and a derived set is the record of the inputs and parameters  *)
(* it was computed from (the computations are deterministic).  A Rust      *)
(* Option is the set of its values: {} for None.                           *)
(***************************************************************************)
EXTENDS Naturals

CONSTANTS
  Dates,        \* service dates
  Factors,      \* per-trip emission-factor vectors
  Bindings,     \* (mode, budget, speeds) bindings of vehicle transfer sets
  Queries,      \* the threads that run multi-call queries
  QueryKinds,   \* bound: the queries they run, out of AllKinds
  Calls,        \* bound: the core calls of a query
  MaxInstalls   \* bound: the installs of a run

AllKinds == {"time", "emissions", "policy", "carriage"}

ASSUME QueryKindsAssumption == QueryKinds \subseteq AllKinds
ASSUME CallsAssumption == Calls \in Nat
ASSUME MaxInstallsAssumption == MaxInstalls \in Nat

VARIABLES
  net,                    \* what save persists: the inputs and the derived sets
  compiled,               \* the multimodal graph the links and profiles were compiled from
  source,                 \* the artifact file the network was loaded from
  streets_generation,     \* walking and multimodal installs
  transfers_generation,   \* footpath, mode-set and carriage-set installs
  file,                   \* the artifact file's content
  installs,               \* installs so far
  query                   \* the state of each multi-call query

vars == <<net, compiled, source, streets_generation, transfers_generation,
          file, installs, query>>
generations == <<streets_generation, transfers_generation>>

Windows == {"day", "part"}   \* whether a shortcut set serves the whole service day

Inputs == {"closure", "walking", "multimodal", "distances", "other"}

UltraSets    == [walking : Nat, window : Windows]
McUltraSets  == [walking : Nat, distances : Nat, factors : Factors, window : Windows]
TbtrSets     == [date : Dates]
McTbtrSets   == [date : Dates, distances : Nat, factors : Factors]
VehicleSets  == [closure : Nat, multimodal : Nat, links : Nat, binding : Bindings]

Contents ==
  [closure : Nat, walking : Nat, multimodal : Nat, distances : Nat, other : Nat,
   ultra : SUBSET UltraSets, mcultra : SUBSET McUltraSets,
   tbtr : SUBSET TbtrSets, mctbtr : SUBSET McTbtrSets,
   mode : SUBSET VehicleSets, carriage : SUBSET VehicleSets]

Built == [closure |-> 0, walking |-> 0, multimodal |-> 0, distances |-> 0, other |-> 0,
          ultra |-> {}, mcultra |-> {}, tbtr |-> {}, mctbtr |-> {},
          mode |-> {}, carriage |-> {}]

----------------------------------------------------------------------------
(* The lookups: which set a query relaxes.                                 *)

Closure == [closure |-> net.closure]

\* The whole-day ULTRA shortcuts, else the closure.
TimeTransfers ==
  LET day == {u \in net.ultra : u.window = "day"}
  IN IF day # {} THEN day ELSE {Closure}

\* The whole-day McULTRA shortcuts of exactly these factors, else the closure.
EmissionsTransfers(factors) ==
  LET built == {u \in net.mcultra : u.window = "day" /\ u.factors = factors}
  IN IF built # {} THEN built ELSE {Closure}

\* The cached trip-transfer sets serve their own date and factors only;
\* {} is the engine built ad hoc.
TbtrSet(date) == {t \in net.tbtr : t.date = date}
McTbtrSet(date, factors) == {t \in net.mctbtr : t.date = date /\ t.factors = factors}

\* The vehicle set under a transfers= binding, the closure without one; {} is
\* the error of a missing set or another binding.
PolicyTransfers(binding) ==
  IF binding = {} THEN {Closure} ELSE {m \in net.mode : m.binding \in binding}
CarriageTransfers(binding) ==
  IF binding = {} THEN {Closure} ELSE {c \in net.carriage : c.binding \in binding}

\* The stop links and profiles of the multimodal graph, compiled on first use.
Compiled == IF compiled = {} THEN {net.multimodal} ELSE compiled

----------------------------------------------------------------------------
(* The mutators.  Every one forgets the file first, and one that then      *)
(* fails its validation has done nothing else.                             *)

Fresh == installs + 1

\* Mutant: a mutator that keeps the identity of the loaded file.
MutateKeepingSource == /\ installs < MaxInstalls
                       /\ installs' = Fresh
                       /\ UNCHANGED <<source, file, query>>

Mutate == /\ installs < MaxInstalls
          /\ installs' = Fresh
          /\ source' = {}
          /\ UNCHANGED <<file, query>>

Refuse ==
  /\ source' = {}
  /\ UNCHANGED <<net, compiled, generations, file, installs, query>>

\* Mutant: a footpath install that advances no generation.
SetTransfersUncounted ==
  /\ Mutate
  /\ net' = [net EXCEPT !.closure = Fresh, !.mode = {}, !.carriage = {}]
  /\ UNCHANGED <<compiled, generations>>

SetTransfers ==
  /\ Mutate
  /\ net' = [net EXCEPT !.closure = Fresh, !.mode = {}, !.carriage = {}]
  /\ transfers_generation' = transfers_generation + 1
  /\ UNCHANGED <<compiled, streets_generation>>

\* Mutant: new distances leave the set reduced against the old ones.
SetTripDistancesKeepingMcTbtr ==
  /\ Mutate
  /\ net' = [net EXCEPT !.distances = Fresh, !.mcultra = {}]
  /\ UNCHANGED <<compiled, generations>>

SetTripDistances ==
  /\ Mutate
  /\ net' = [net EXCEPT !.distances = Fresh, !.mcultra = {}, !.mctbtr = {}]
  /\ UNCHANGED <<compiled, generations>>

\* Leg geometries, the walking hierarchy, street attributes and elevations:
\* persisted, and no derived set reads them.
InstallOther ==
  /\ Mutate
  /\ net' = [net EXCEPT !.other = Fresh]
  /\ UNCHANGED <<compiled, generations>>

SetStreetNetwork ==
  /\ Mutate
  /\ net' = [net EXCEPT !.walking = Fresh, !.ultra = {}, !.mcultra = {}]
  /\ streets_generation' = streets_generation + 1
  /\ UNCHANGED <<compiled, transfers_generation>>

SetMultimodalStreets ==
  /\ Mutate
  /\ net' = [net EXCEPT !.multimodal = Fresh, !.mode = {}, !.carriage = {}]
  /\ streets_generation' = streets_generation + 1
  /\ compiled' = {}
  /\ UNCHANGED transfers_generation

ComputeTbtrTransfers(date) ==
  /\ Mutate
  /\ net' = [net EXCEPT !.tbtr = {[date |-> date]}]
  /\ UNCHANGED <<compiled, generations>>

ComputeMcTbtrTransfers(date, factors) ==
  /\ net.distances # 0
  /\ Mutate
  /\ net' = [net EXCEPT !.mctbtr =
               {[date |-> date, distances |-> net.distances, factors |-> factors]}]
  /\ UNCHANGED <<compiled, generations>>

ComputeUltraShortcuts(window) ==
  /\ net.walking # 0
  /\ Mutate
  /\ net' = [net EXCEPT !.ultra = {[walking |-> net.walking, window |-> window]}]
  /\ UNCHANGED <<compiled, generations>>

ComputeMcUltraShortcuts(factors, window) ==
  /\ net.distances # 0
  /\ net.walking # 0
  /\ Mutate
  /\ net' = [net EXCEPT !.mcultra =
               {[walking |-> net.walking, distances |-> net.distances,
                 factors |-> factors, window |-> window]}]
  /\ UNCHANGED <<compiled, generations>>

\* The set a vehicle computation merges out of the closure and the graph.  (The
\* wheelchair's reads no closure; it is dropped with the closure all the same.)
VehicleSet(binding, links) ==
  [closure |-> net.closure, multimodal |-> net.multimodal,
   links |-> links, binding |-> binding]

ComputeModeTransfers(binding) ==
  /\ net.multimodal # 0
  /\ Mutate
  /\ compiled' = Compiled
  /\ net' = [net EXCEPT !.mode = {VehicleSet(binding, l) : l \in Compiled}]
  /\ transfers_generation' = transfers_generation + 1
  /\ UNCHANGED streets_generation

ComputeCarriageTransfers(binding) ==
  /\ net.multimodal # 0
  /\ Mutate
  /\ compiled' = Compiled
  /\ net' = [net EXCEPT !.carriage = {VehicleSet(binding, l) : l \in Compiled}]
  /\ transfers_generation' = transfers_generation + 1
  /\ UNCHANGED streets_generation

----------------------------------------------------------------------------
(* The artifact file.                                                      *)

\* A load's header CRCs identify the content: they are that content here.
Save ==
  /\ file' = {net}
  /\ UNCHANGED <<net, compiled, source, generations, installs, query>>

\* Another process saves its own network, unlike any of this one, over the path.
SaveElsewhere ==
  /\ file' = {[Built EXCEPT !.other = MaxInstalls + 1]}
  /\ UNCHANGED <<net, compiled, source, generations, installs, query>>

Over == {"idle", "returned", "refused", "failed"}

\* A load builds a new object; queries keep the one they started on, so the
\* model moves to the new object when none is running on the old one.
Load ==
  /\ \A q \in Queries : query[q].pc \in Over
  /\ \E content \in file :
       /\ net' = content
       /\ source' = {content}
  /\ compiled' = {}
  /\ streets_generation' = 0
  /\ transfers_generation' = 0
  /\ UNCHANGED <<file, installs, query>>

\* The content the fingerprint digest stands for: the file's while the file
\* still has the content that was loaded, else what the network would save.
ArtifactChecksum ==
  IF source # {} /\ file = source THEN file ELSE {net}

----------------------------------------------------------------------------
(* Queries of several core calls, pinned to the generations they began on. *)

Ready == [pc |-> "idle", kind |-> "time", binding |-> {}, factors |-> {},
          streets |-> 0, transfers |-> 0, began |-> 0, calls |-> 0, seen |-> {}]

Step(q, state) ==
  /\ query' = [query EXCEPT ![q] = state]
  /\ UNCHANGED <<net, source, generations, file, installs>>

\* NetworkSnapshot reads the two generations one after the other.
PinStreets(q, kind, binding, factors) ==
  /\ query[q].pc = "idle"
  /\ Step(q, [query[q] EXCEPT !.pc = "pinning", !.kind = kind, !.binding = binding,
                !.factors = factors, !.streets = streets_generation, !.began = installs])
  /\ UNCHANGED compiled

PinTransfers(q) ==
  /\ query[q].pc = "pinning"
  /\ Step(q, [query[q] EXCEPT !.pc = "running", !.transfers = transfers_generation])
  /\ UNCHANGED compiled

\* The street graph a core call of this kind reads, and the transfers it relaxes.
StreetsRead(kind) ==
  IF kind \in {"time", "emissions"} THEN {net.walking} \ {0} ELSE {net.multimodal} \ {0}

TransfersRead(kind, binding, factors) ==
  CASE kind = "time"      -> TimeTransfers
    [] kind = "emissions" -> UNION {EmissionsTransfers(f) : f \in factors}
    [] kind = "policy"    -> PolicyTransfers(binding)
    [] kind = "carriage"  -> CarriageTransfers(binding)

\* The Free plane of a carriage search always walks the closure.
Answer(kind, binding, factors) ==
  [streets   |-> StreetsRead(kind),
   transfers |-> TransfersRead(kind, binding, factors),
   walks     |-> IF kind = "carriage" THEN {Closure} ELSE {}]

Answers(q) == Answer(query[q].kind, query[q].binding, query[q].factors)

CallCore(q) ==
  /\ query[q].pc = "running"
  /\ query[q].calls < Calls
  /\ Answers(q).streets # {}
  /\ Answers(q).transfers # {}
  /\ compiled' = IF query[q].kind \in {"policy", "carriage"} THEN Compiled ELSE compiled
  /\ Step(q, [query[q] EXCEPT !.calls = @ + 1, !.seen = @ \cup {Answers(q)}])

\* Without the graph, or the set bound to this query, the core call raises.
CallFails(q) ==
  /\ query[q].pc = "running"
  /\ \/ Answers(q).streets = {}
     \/ Answers(q).transfers = {}
  /\ Step(q, [query[q] EXCEPT !.pc = "failed"])
  /\ UNCHANGED compiled

VerifyStreets(q) ==
  /\ query[q].pc = "running"
  /\ query[q].calls > 0
  /\ Step(q, [query[q] EXCEPT !.pc =
                IF streets_generation # query[q].streets THEN "refused" ELSE "verifying"])
  /\ UNCHANGED compiled

VerifyTransfers(q) ==
  /\ query[q].pc = "verifying"
  /\ Step(q, [query[q] EXCEPT !.pc =
                IF transfers_generation # query[q].transfers THEN "refused" ELSE "returned"])
  /\ UNCHANGED compiled

----------------------------------------------------------------------------

Init ==
  /\ net = Built
  /\ compiled = {}
  /\ source = {}
  /\ streets_generation = 0
  /\ transfers_generation = 0
  /\ file = {}
  /\ installs = 0
  /\ query = [q \in Queries |-> Ready]

Install ==
  \/ SetTransfers
  \/ SetTripDistances
  \/ InstallOther
  \/ SetStreetNetwork
  \/ SetMultimodalStreets

Compute ==
  \/ \E d \in Dates : ComputeTbtrTransfers(d)
  \/ \E d \in Dates, f \in Factors : ComputeMcTbtrTransfers(d, f)
  \/ \E w \in Windows : ComputeUltraShortcuts(w)
  \/ \E f \in Factors, w \in Windows : ComputeMcUltraShortcuts(f, w)
  \/ \E b \in Bindings : ComputeModeTransfers(b)
  \/ \E b \in Bindings : ComputeCarriageTransfers(b)

\* Only an emissions query has factors, only a vehicle query a binding.
Begin(q) ==
  \/ "time" \in QueryKinds /\ PinStreets(q, "time", {}, {})
  \/ "emissions" \in QueryKinds /\ \E f \in Factors : PinStreets(q, "emissions", {}, {f})
  \/ \E kind \in QueryKinds \cap {"policy", "carriage"} :
       \/ PinStreets(q, kind, {}, {})
       \/ \E b \in Bindings : PinStreets(q, kind, {b}, {})

QueryStep(q) ==
  \/ Begin(q)
  \/ PinTransfers(q)
  \/ CallCore(q)
  \/ CallFails(q)
  \/ VerifyStreets(q)
  \/ VerifyTransfers(q)

Next ==
  \/ Install
  \/ Compute
  \/ Refuse
  \/ Save
  \/ SaveElsewhere
  \/ Load
  \/ \E q \in Queries : QueryStep(q)

Spec == Init /\ [][Next]_vars

----------------------------------------------------------------------------
(* Properties.                                                             *)

QueryStates ==
  [pc : {"idle", "pinning", "running", "verifying", "returned", "refused", "failed"},
   kind : AllKinds, binding : SUBSET Bindings, factors : SUBSET Factors,
   streets : Nat, transfers : Nat, began : Nat, calls : Nat, seen : SUBSET
     [streets : SUBSET Nat, walks : SUBSET [closure : Nat],
      transfers : SUBSET ([closure : Nat] \cup UltraSets \cup McUltraSets \cup VehicleSets)]]

\* Every variable holds values of its type.
TypeOK ==
  /\ net \in Contents
  /\ compiled \in SUBSET Nat
  /\ source \in SUBSET Contents
  /\ streets_generation \in Nat
  /\ transfers_generation \in Nat
  /\ file \in SUBSET Contents
  /\ installs \in Nat
  /\ query \in [Queries -> QueryStates]

\* Whatever a lookup hands to a search was computed from the inputs installed
\* now, for the query's own date, factors or binding and for the whole day:
\* every install drops what it invalidates (network.rs set_*), a load restores
\* matching sets, and no lookup serves a set built for something else.
LookupsCurrent ==
  /\ TimeTransfers \subseteq {Closure, [walking |-> net.walking, window |-> "day"]}
  /\ \A f \in Factors :
       EmissionsTransfers(f) \subseteq
         {Closure, [walking |-> net.walking, distances |-> net.distances,
                    factors |-> f, window |-> "day"]}
  /\ \A d \in Dates : TbtrSet(d) \subseteq {[date |-> d]}
  /\ \A d \in Dates, f \in Factors :
       McTbtrSet(d, f) \subseteq {[date |-> d, distances |-> net.distances, factors |-> f]}
  /\ \A b \in Bindings :
       /\ PolicyTransfers({b}) \subseteq {VehicleSet(b, net.multimodal)}
       /\ CarriageTransfers({b}) \subseteq {VehicleSet(b, net.multimodal)}

\* The checksum a run's fingerprint carries stands for the content of this
\* network: a mutation since the load, or a file replaced since, never lets
\* the digest of another content through (lib.rs source: "never a false match").
ChecksumIdentifies == ArtifactChecksum = {net}

\* A returned policy or carriage query saw one street graph, one closure and
\* one vehicle set from its first core call to its last, and a returned walking
\* query one street graph, whatever was installed meanwhile (_snapshot.py).
OneNetwork ==
  \A q \in Queries :
    query[q].pc = "returned" =>
      IF query[q].kind \in {"policy", "carriage"}
        THEN \A a, b \in query[q].seen : a = b
        ELSE \A a, b \in query[q].seen : a.streets = b.streets

\* A query is refused only when something was installed after it began: an
\* install that failed leaves whatever is pinned to the network valid
\* (network.rs set_street_network).
RefusedOnlyIfReplaced ==
  \A q \in Queries : query[q].pc = "refused" => query[q].began < installs

\* A pinned query returns only what one network answered, and is refused only
\* where another thread replaced something under it (_snapshot.py
\* NetworkSnapshot).
SnapshotExact == OneNetwork /\ RefusedOnlyIfReplaced
=============================================================================
