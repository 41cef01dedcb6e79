------------------------- MODULE NetworkState_proofs -------------------------
(***************************************************************************)
(* Proofs about NetworkState, for every set of dates, factors, bindings    *)
(* and queries and every bound.  The inductive invariant says that a       *)
(* derived set carries the versions of the inputs installed beside it, in  *)
(* the network and in the file alike, and that the identity a network      *)
(* holds is its own content; the query theorem adds what a query knows     *)
(* while its pinned generations still stand.                               *)
(***************************************************************************)
EXTENDS NetworkState, TLAPS

\* The derived sets of content n were computed from its own inputs.
Current(n) ==
  /\ \A u \in n.ultra : u.walking = n.walking
  /\ \A u \in n.mcultra : u.walking = n.walking /\ u.distances = n.distances
  /\ \A t \in n.mctbtr : t.distances = n.distances
  /\ \A v \in n.mode \cup n.carriage :
       v.closure = n.closure /\ v.multimodal = n.multimodal /\ v.links = n.multimodal

Sound(n) == n \in Contents /\ Current(n)

\* The part of the inductive invariant about the network and the file.
StateInv ==
  /\ Sound(net)
  /\ \A content \in file : Sound(content)
  /\ source \subseteq {net}
  /\ compiled \subseteq {net.multimodal}
  /\ streets_generation \in Nat
  /\ transfers_generation \in Nat
  /\ installs \in Nat

----------------------------------------------------------------------------
(* What each mutator leaves in the network.                                *)

LEMMA InstallSound ==
  ASSUME Sound(net), installs \in Nat
  PROVE  /\ Sound([net EXCEPT !.closure = Fresh, !.mode = {}, !.carriage = {}])
         /\ Sound([net EXCEPT !.distances = Fresh, !.mcultra = {}, !.mctbtr = {}])
         /\ Sound([net EXCEPT !.other = Fresh])
         /\ Sound([net EXCEPT !.walking = Fresh, !.ultra = {}, !.mcultra = {}])
         /\ Sound([net EXCEPT !.multimodal = Fresh, !.mode = {}, !.carriage = {}])
<1>0. Fresh \in Nat
  BY DEF Fresh
<1>1. net \in Contents /\ Current(net)
  BY DEF Sound
<1> HIDE DEF Fresh
<1>2. Sound([net EXCEPT !.closure = Fresh, !.mode = {}, !.carriage = {}])
  BY <1>0, <1>1 DEF Sound, Current, Contents
<1>3. Sound([net EXCEPT !.distances = Fresh, !.mcultra = {}, !.mctbtr = {}])
  BY <1>0, <1>1 DEF Sound, Current, Contents
<1>4. Sound([net EXCEPT !.other = Fresh])
  BY <1>0, <1>1 DEF Sound, Current, Contents
<1>5. Sound([net EXCEPT !.walking = Fresh, !.ultra = {}, !.mcultra = {}])
  BY <1>0, <1>1 DEF Sound, Current, Contents
<1>6. Sound([net EXCEPT !.multimodal = Fresh, !.mode = {}, !.carriage = {}])
  BY <1>0, <1>1 DEF Sound, Current, Contents
<1>. QED
  BY <1>2, <1>3, <1>4, <1>5, <1>6

\* A vehicle set is keyed by the inputs it read: the links are those of the graph installed now.
LEMMA VehicleSound ==
  ASSUME Sound(net), compiled \subseteq {net.multimodal}, NEW b \in Bindings
  PROVE  /\ Compiled = {net.multimodal}
         /\ Sound([net EXCEPT !.mode = {VehicleSet(b, l) : l \in Compiled}])
         /\ Sound([net EXCEPT !.carriage = {VehicleSet(b, l) : l \in Compiled}])
<1>1. net \in Contents /\ Current(net)
  BY DEF Sound
<1>2. Compiled = {net.multimodal}
  BY DEF Compiled
<1>3. {VehicleSet(b, l) : l \in Compiled} = {VehicleSet(b, net.multimodal)}
  BY <1>2
<1>4. /\ VehicleSet(b, net.multimodal) \in VehicleSets
      /\ VehicleSet(b, net.multimodal).closure = net.closure
      /\ VehicleSet(b, net.multimodal).multimodal = net.multimodal
      /\ VehicleSet(b, net.multimodal).links = net.multimodal
  BY <1>1 DEF VehicleSet, VehicleSets, Contents
<1>5. Sound([net EXCEPT !.mode = {VehicleSet(b, net.multimodal)}])
  BY <1>1, <1>4 DEF Sound, Current, Contents
<1>6. Sound([net EXCEPT !.carriage = {VehicleSet(b, net.multimodal)}])
  BY <1>1, <1>4 DEF Sound, Current, Contents
<1>. QED
  BY <1>2, <1>3, <1>5, <1>6

----------------------------------------------------------------------------
(* The state part is inductive.                                            *)

LEMMA StateInit == Init => StateInv
<1>. SUFFICES ASSUME Init PROVE StateInv
  OBVIOUS
<1>1. Sound(Built)
  BY DEF Sound, Current, Built, Contents
<1>. QED
  BY <1>1 DEF Init, StateInv

\* A mutator that leaves the network sound and drops what was compiled from
\* another multimodal graph keeps the invariant.
LEMMA MutatorKeeps ==
  ASSUME StateInv, Mutate, Sound(net'), compiled' \subseteq {net'.multimodal},
         streets_generation' \in Nat, transfers_generation' \in Nat
  PROVE  StateInv'
<1>1. installs' \in Nat
  BY DEF StateInv, Mutate, Fresh
<1>2. source' \subseteq {net'}
  BY DEF Mutate
<1>3. \A content \in file' : Sound(content)
  BY DEF StateInv, Mutate
<1>4. Sound(net)'
  BY DEF Sound, Current
<1>5. (\A content \in file : Sound(content))'
  BY <1>3 DEF Sound, Current
<1>. QED
  BY <1>1, <1>2, <1>4, <1>5 DEF StateInv

LEMMA StateStep == StateInv /\ [Next]_vars => StateInv'
<1>. SUFFICES ASSUME StateInv, [Next]_vars PROVE StateInv'
  OBVIOUS
<1>0. /\ Sound(net) /\ net \in Contents
      /\ compiled \subseteq {net.multimodal}
      /\ streets_generation \in Nat /\ transfers_generation \in Nat /\ installs \in Nat
  BY DEF StateInv, Sound
<1>1. CASE Install
  <2>1. CASE SetTransfers
    <3>1. Sound(net')
      BY <1>0, <2>1, InstallSound DEF SetTransfers
    <3>2. compiled' \subseteq {net'.multimodal}
      BY <1>0, <2>1 DEF SetTransfers, Contents
    <3>. QED
      BY <1>0, <2>1, <3>1, <3>2, MutatorKeeps DEF SetTransfers
  <2>2. CASE SetTripDistances
    <3>1. Sound(net')
      BY <1>0, <2>2, InstallSound DEF SetTripDistances
    <3>2. compiled' \subseteq {net'.multimodal}
      BY <1>0, <2>2 DEF SetTripDistances, Contents
    <3>. QED
      BY <1>0, <2>2, <3>1, <3>2, MutatorKeeps DEF SetTripDistances, generations
  <2>3. CASE InstallOther
    <3>1. Sound(net')
      BY <1>0, <2>3, InstallSound DEF InstallOther
    <3>2. compiled' \subseteq {net'.multimodal}
      BY <1>0, <2>3 DEF InstallOther, Contents
    <3>. QED
      BY <1>0, <2>3, <3>1, <3>2, MutatorKeeps DEF InstallOther, generations
  <2>4. CASE SetStreetNetwork
    <3>1. Sound(net')
      BY <1>0, <2>4, InstallSound DEF SetStreetNetwork
    <3>2. compiled' \subseteq {net'.multimodal}
      BY <1>0, <2>4 DEF SetStreetNetwork, Contents
    <3>. QED
      BY <1>0, <2>4, <3>1, <3>2, MutatorKeeps DEF SetStreetNetwork
  <2>5. CASE SetMultimodalStreets
    <3>1. Sound(net')
      BY <1>0, <2>5, InstallSound DEF SetMultimodalStreets
    <3>. QED
      BY <1>0, <2>5, <3>1, MutatorKeeps DEF SetMultimodalStreets
  <2>. QED
    BY <1>1, <2>1, <2>2, <2>3, <2>4, <2>5 DEF Install
<1>2. CASE Compute
  <2>1. ASSUME NEW d \in Dates, ComputeTbtrTransfers(d)
        PROVE  StateInv'
    <3>1. Sound(net')
      BY <1>0, <2>1 DEF ComputeTbtrTransfers, Sound, Current, Contents, TbtrSets
    <3>2. compiled' \subseteq {net'.multimodal}
      BY <1>0, <2>1 DEF ComputeTbtrTransfers, Contents
    <3>. QED
      BY <1>0, <2>1, <3>1, <3>2, MutatorKeeps DEF ComputeTbtrTransfers, generations
  <2>2. ASSUME NEW d \in Dates, NEW f \in Factors, ComputeMcTbtrTransfers(d, f)
        PROVE  StateInv'
    <3>1. Sound(net')
      BY <1>0, <2>2 DEF ComputeMcTbtrTransfers, Sound, Current, Contents, McTbtrSets
    <3>2. compiled' \subseteq {net'.multimodal}
      BY <1>0, <2>2 DEF ComputeMcTbtrTransfers, Contents
    <3>. QED
      BY <1>0, <2>2, <3>1, <3>2, MutatorKeeps DEF ComputeMcTbtrTransfers, generations
  <2>3. ASSUME NEW w \in Windows, ComputeUltraShortcuts(w)
        PROVE  StateInv'
    <3>1. Sound(net')
      BY <1>0, <2>3 DEF ComputeUltraShortcuts, Sound, Current, Contents, UltraSets
    <3>2. compiled' \subseteq {net'.multimodal}
      BY <1>0, <2>3 DEF ComputeUltraShortcuts, Contents
    <3>. QED
      BY <1>0, <2>3, <3>1, <3>2, MutatorKeeps DEF ComputeUltraShortcuts, generations
  <2>4. ASSUME NEW f \in Factors, NEW w \in Windows, ComputeMcUltraShortcuts(f, w)
        PROVE  StateInv'
    <3>1. Sound(net')
      BY <1>0, <2>4 DEF ComputeMcUltraShortcuts, Sound, Current, Contents, McUltraSets
    <3>2. compiled' \subseteq {net'.multimodal}
      BY <1>0, <2>4 DEF ComputeMcUltraShortcuts, Contents
    <3>. QED
      BY <1>0, <2>4, <3>1, <3>2, MutatorKeeps DEF ComputeMcUltraShortcuts, generations
  <2>5. ASSUME NEW b \in Bindings, ComputeModeTransfers(b)
        PROVE  StateInv'
    <3>1. Sound(net') /\ compiled' = {net.multimodal}
      BY <1>0, <2>5, VehicleSound DEF ComputeModeTransfers
    <3>2. compiled' \subseteq {net'.multimodal}
      BY <1>0, <2>5, <3>1 DEF ComputeModeTransfers, Contents
    <3>. QED
      BY <1>0, <2>5, <3>1, <3>2, MutatorKeeps DEF ComputeModeTransfers
  <2>6. ASSUME NEW b \in Bindings, ComputeCarriageTransfers(b)
        PROVE  StateInv'
    <3>1. Sound(net') /\ compiled' = {net.multimodal}
      BY <1>0, <2>6, VehicleSound DEF ComputeCarriageTransfers
    <3>2. compiled' \subseteq {net'.multimodal}
      BY <1>0, <2>6, <3>1 DEF ComputeCarriageTransfers, Contents
    <3>. QED
      BY <1>0, <2>6, <3>1, <3>2, MutatorKeeps DEF ComputeCarriageTransfers
  <2>. QED
    BY <1>2, <2>1, <2>2, <2>3, <2>4, <2>5, <2>6 DEF Compute
<1>3. CASE Refuse
  BY <1>3 DEF Refuse, StateInv, generations, Sound, Current
<1>4. CASE Save
  BY <1>4 DEF Save, StateInv, generations, Sound, Current
<1>5. CASE SaveElsewhere
  <2>1. Sound([Built EXCEPT !.other = MaxInstalls + 1])
    BY MaxInstallsAssumption DEF Sound, Current, Built, Contents
  <2>. QED
    BY <1>5, <2>1 DEF SaveElsewhere, StateInv, generations, Sound, Current
<1>6. CASE Load
  <2>1. PICK content \in file : net' = content /\ source' = {content}
    BY <1>6 DEF Load
  <2>2. Sound(content)
    BY <2>1 DEF StateInv
  <2>. QED
    BY <1>6, <2>1, <2>2 DEF Load, StateInv, Sound, Current
<1>7. ASSUME NEW q \in Queries, QueryStep(q)
      PROVE  StateInv'
  <2>1. Compiled \subseteq {net.multimodal}
    BY <1>0, SMTT(30) DEF Compiled
  <2>2. /\ UNCHANGED <<net, source, generations, file, installs>>
        /\ compiled' \in {compiled, Compiled}
    BY <1>7 DEF QueryStep, Begin, PinStreets, PinTransfers, CallCore, CallFails,
                VerifyStreets, VerifyTransfers, Step
  <2>. QED
    BY <1>0, <2>1, <2>2 DEF StateInv, generations, Sound, Current
<1>8. CASE UNCHANGED vars
  BY <1>8 DEF vars, StateInv, Sound, Current
<1>. QED
  BY <1>1, <1>2, <1>3, <1>4, <1>5, <1>6, <1>7, <1>8 DEF Next

LEMMA StateAlways == Spec => []StateInv
<1>. QED
  BY StateInit, StateStep, PTL DEF Spec

----------------------------------------------------------------------------
(* The lookups and the checksum.                                           *)

LEMMA SoundLookups == StateInv => LookupsCurrent
<1>. SUFFICES ASSUME StateInv PROVE LookupsCurrent
  OBVIOUS
<1>0. net \in Contents /\ Current(net)
  BY DEF StateInv, Sound
<1>1. TimeTransfers \subseteq {Closure, [walking |-> net.walking, window |-> "day"]}
  <2>1. ASSUME NEW u \in net.ultra, u.window = "day"
        PROVE  u = [walking |-> net.walking, window |-> "day"]
    <3>1. u \in UltraSets /\ u.walking = net.walking
      BY <1>0 DEF Contents, Current
    <3>. QED
      BY <2>1, <3>1 DEF UltraSets
  <2>. QED
    BY <2>1 DEF TimeTransfers
<1>2. ASSUME NEW f \in Factors
      PROVE  EmissionsTransfers(f) \subseteq
               {Closure, [walking |-> net.walking, distances |-> net.distances,
                          factors |-> f, window |-> "day"]}
  <2>1. ASSUME NEW u \in net.mcultra, u.window = "day", u.factors = f
        PROVE  u = [walking |-> net.walking, distances |-> net.distances,
                    factors |-> f, window |-> "day"]
    <3>1. u \in McUltraSets /\ u.walking = net.walking /\ u.distances = net.distances
      BY <1>0 DEF Contents, Current
    <3>. QED
      BY <2>1, <3>1 DEF McUltraSets
  <2>. QED
    BY <2>1 DEF EmissionsTransfers
<1>3. ASSUME NEW d \in Dates
      PROVE  TbtrSet(d) \subseteq {[date |-> d]}
  BY <1>0 DEF TbtrSet, Contents, TbtrSets
<1>4. ASSUME NEW d \in Dates, NEW f \in Factors
      PROVE  McTbtrSet(d, f) \subseteq {[date |-> d, distances |-> net.distances, factors |-> f]}
  <2>1. ASSUME NEW t \in net.mctbtr, t.date = d, t.factors = f
        PROVE  t = [date |-> d, distances |-> net.distances, factors |-> f]
    <3>1. t \in McTbtrSets /\ t.distances = net.distances
      BY <1>0 DEF Contents, Current
    <3>. QED
      BY <2>1, <3>1 DEF McTbtrSets
  <2>. QED
    BY <2>1 DEF McTbtrSet
<1>5. ASSUME NEW b \in Bindings
      PROVE  /\ PolicyTransfers({b}) \subseteq {VehicleSet(b, net.multimodal)}
             /\ CarriageTransfers({b}) \subseteq {VehicleSet(b, net.multimodal)}
  <2>1. ASSUME NEW v \in net.mode \cup net.carriage, v.binding = b
        PROVE  v = VehicleSet(b, net.multimodal)
    <3>1. v \in VehicleSets /\ v.closure = net.closure
          /\ v.multimodal = net.multimodal /\ v.links = net.multimodal
      BY <1>0 DEF Contents, Current
    <3>. QED
      BY <2>1, <3>1 DEF VehicleSets, VehicleSet
  <2>2. {b} # {}
    OBVIOUS
  <2>. QED
    BY <2>1, <2>2 DEF PolicyTransfers, CarriageTransfers
<1>. QED
  BY <1>1, <1>2, <1>3, <1>4, <1>5 DEF LookupsCurrent

\* No search ever relaxes a set computed from inputs since replaced, or for
\* another date, factor vector or binding, whatever the order of installs,
\* precomputations, saves and loads (network.rs set_*, time_transfers).
THEOREM LookupsAreCurrent == Spec => []LookupsCurrent
<1>. QED
  BY StateAlways, SoundLookups, PTL

\* The checksum never stands for another content than the network's own, even
\* when the artifact file is replaced and put back (artifact.rs
\* _artifact_checksum, lib.rs source).
THEOREM ChecksumIsOwn == Spec => []ChecksumIdentifies
<1>1. StateInv => ChecksumIdentifies
  BY DEF StateInv, ChecksumIdentifies, ArtifactChecksum
<1>. QED
  BY <1>1, StateAlways, PTL

----------------------------------------------------------------------------
(* The pinned queries.                                                     *)

Vehicle(kind) == kind \in {"policy", "carriage"}

\* What a query has seen is what a core call would see now ...
SeenNow(q) == IF Vehicle(query[q].kind)
                THEN \A a \in query[q].seen : a = Answers(q)
                ELSE \A a \in query[q].seen : a.streets = StreetsRead(query[q].kind)

\* ... or was the same at every call.
SeenOnce(q) == IF Vehicle(query[q].kind)
                 THEN \A a, b \in query[q].seen : a = b
                 ELSE \A a, b \in query[q].seen : a.streets = b.streets

StreetsPinned(q) == query[q].streets = streets_generation
TransfersPinned(q) == query[q].transfers = transfers_generation

\* A generation that moved on moved with an install.
StreetsBehind(q) == /\ query[q].streets \in Nat
                    /\ query[q].streets <= streets_generation
                    /\ ~StreetsPinned(q) => query[q].began < installs
TransfersBehind(q) == /\ query[q].transfers \in Nat
                      /\ query[q].transfers <= transfers_generation
                      /\ ~TransfersPinned(q) => query[q].began < installs

QueryInv(q) ==
  /\ query[q].began \in Nat
  /\ query[q].began <= installs
  /\ query[q].pc \in {"idle", "pinning"} => query[q].seen = {}
  /\ query[q].pc = "pinning" => StreetsBehind(q)
  /\ query[q].pc = "running" =>
       /\ StreetsBehind(q)
       /\ TransfersBehind(q)
       /\ (StreetsPinned(q) /\ (Vehicle(query[q].kind) => TransfersPinned(q))) => SeenNow(q)
  /\ query[q].pc = "verifying" =>
       /\ TransfersBehind(q)
       /\ (Vehicle(query[q].kind) => TransfersPinned(q)) => SeenOnce(q)
  /\ query[q].pc = "returned" => SeenOnce(q)
  /\ query[q].pc = "refused" => query[q].began < installs

\* What a step of the network may do to a query that is not its own: install
\* with a new generation, or leave alone everything that generation counts.
Advance ==
  /\ streets_generation' \in Nat /\ streets_generation <= streets_generation'
  /\ transfers_generation' \in Nat /\ transfers_generation <= transfers_generation'
  /\ installs' \in Nat /\ installs <= installs'
  /\ streets_generation' # streets_generation => installs < installs'
  /\ transfers_generation' # transfers_generation => installs < installs'
  /\ streets_generation' = streets_generation =>
       net'.walking = net.walking /\ net'.multimodal = net.multimodal
  /\ (streets_generation' = streets_generation /\ transfers_generation' = transfers_generation) =>
       net'.closure = net.closure /\ net'.mode = net.mode /\ net'.carriage = net.carriage
  /\ query' = query

LEMMA NetworkAdvances ==
  StateInv /\ (Install \/ Compute \/ Refuse \/ Save \/ SaveElsewhere) => Advance
<1>. SUFFICES ASSUME StateInv, Install \/ Compute \/ Refuse \/ Save \/ SaveElsewhere
              PROVE  Advance
  OBVIOUS
<1>0. /\ net \in Contents
      /\ streets_generation \in Nat /\ transfers_generation \in Nat /\ installs \in Nat
  BY DEF StateInv, Sound
<1>1. CASE Install
  <2>1. CASE SetTransfers
    BY <1>0, <2>1 DEF SetTransfers, Mutate, Fresh, Advance, Contents
  <2>2. CASE SetTripDistances
    BY <1>0, <2>2 DEF SetTripDistances, Mutate, Fresh, Advance, generations, Contents
  <2>5. CASE InstallOther
    BY <1>0, <2>5 DEF InstallOther, Mutate, Fresh, Advance, generations, Contents
  <2>3. CASE SetStreetNetwork
    BY <1>0, <2>3 DEF SetStreetNetwork, Mutate, Fresh, Advance, Contents
  <2>4. CASE SetMultimodalStreets
    BY <1>0, <2>4 DEF SetMultimodalStreets, Mutate, Fresh, Advance, Contents
  <2>. QED
    BY <1>1, <2>1, <2>2, <2>3, <2>4, <2>5 DEF Install
<1>2. CASE Compute
  <2>1. CASE \E b \in Bindings : ComputeModeTransfers(b) \/ ComputeCarriageTransfers(b)
    BY <1>0, <2>1 DEF ComputeModeTransfers, ComputeCarriageTransfers, Mutate, Fresh, Advance,
                      Contents
  <2>2. CASE \/ \E d \in Dates : ComputeTbtrTransfers(d)
             \/ \E d \in Dates, f \in Factors : ComputeMcTbtrTransfers(d, f)
    BY <1>0, <2>2 DEF ComputeTbtrTransfers, ComputeMcTbtrTransfers, Mutate, Fresh, Advance,
                      generations, Contents
  <2>3. CASE \/ \E w \in Windows : ComputeUltraShortcuts(w)
             \/ \E f \in Factors, w \in Windows : ComputeMcUltraShortcuts(f, w)
    BY <1>0, <2>3 DEF ComputeUltraShortcuts, ComputeMcUltraShortcuts, Mutate, Fresh, Advance,
                      generations, Contents
  <2>. QED
    BY <1>2, <2>1, <2>2, <2>3 DEF Compute
<1>3. CASE Refuse \/ Save \/ SaveElsewhere
  BY <1>0, <1>3 DEF Refuse, Save, SaveElsewhere, Advance, generations
<1>. QED
  BY <1>1, <1>2, <1>3

\* Under generations that stand, a core call would see what it saw before.
LEMMA AnswersStand ==
  ASSUME Advance, streets_generation' = streets_generation,
         NEW q \in Queries
  PROVE  /\ StreetsRead(query[q].kind)' = StreetsRead(query[q].kind)
         /\ (Vehicle(query[q].kind) /\ transfers_generation' = transfers_generation) =>
              Answers(q)' = Answers(q)
<1>1. StreetsRead(query[q].kind)' = StreetsRead(query[q].kind)
  BY DEF Advance, StreetsRead
<1>2. ASSUME Vehicle(query[q].kind), transfers_generation' = transfers_generation
      PROVE  Answers(q)' = Answers(q)
  <2>1. Closure' = Closure /\ net'.mode = net.mode /\ net'.carriage = net.carriage
    BY <1>2 DEF Advance, Closure
  <2>2. query' = query
    BY DEF Advance
  <2>3. PolicyTransfers(query[q].binding)' = PolicyTransfers(query[q].binding)
    BY <2>1, <2>2 DEF PolicyTransfers
  <2>4. CarriageTransfers(query[q].binding)' = CarriageTransfers(query[q].binding)
    BY <2>1, <2>2 DEF CarriageTransfers
  <2>5. CASE query[q].kind = "policy"
    <3>1. Answers(q) = [streets |-> StreetsRead("policy"),
                        transfers |-> PolicyTransfers(query[q].binding), walks |-> {}]
      BY <2>5 DEF Answers, Answer, TransfersRead
    <3>2. Answers(q)' = [streets |-> StreetsRead("policy")',
                         transfers |-> PolicyTransfers(query[q].binding)', walks |-> {}]
      BY <2>2, <2>5 DEF Answers, Answer, TransfersRead
    <3>. QED
      BY <1>1, <2>2, <2>3, <2>5, <3>1, <3>2
  <2>6. CASE query[q].kind = "carriage"
    <3>1. Answers(q) = [streets |-> StreetsRead("carriage"),
                        transfers |-> CarriageTransfers(query[q].binding), walks |-> {Closure}]
      BY <2>6 DEF Answers, Answer, TransfersRead
    <3>2. Answers(q)' = [streets |-> StreetsRead("carriage")',
                         transfers |-> CarriageTransfers(query[q].binding)', walks |-> {Closure'}]
      BY <2>2, <2>6 DEF Answers, Answer, TransfersRead
    <3>. QED
      BY <1>1, <2>1, <2>2, <2>4, <2>6, <3>1, <3>2
  <2>. QED
    BY <1>2, <2>5, <2>6 DEF Vehicle
<1>. QED
  BY <1>1, <1>2

\* Another thread's core call disturbs no query's invariant.
LEMMA OthersKeep ==
  ASSUME StateInv, Advance, NEW q \in Queries, QueryInv(q)
  PROVE  QueryInv(q)'
<1>0. /\ streets_generation \in Nat /\ transfers_generation \in Nat /\ installs \in Nat
      /\ streets_generation' \in Nat /\ transfers_generation' \in Nat /\ installs' \in Nat
      /\ streets_generation <= streets_generation'
      /\ transfers_generation <= transfers_generation'
      /\ installs <= installs'
      /\ streets_generation' # streets_generation => installs < installs'
      /\ transfers_generation' # transfers_generation => installs < installs'
      /\ query' = query
  BY DEF StateInv, Advance
<1>1. query[q].began \in Nat /\ query[q].began <= installs
  BY DEF QueryInv
<1>2. StreetsBehind(q) => StreetsBehind(q)'
  BY <1>0, <1>1 DEF StreetsBehind, StreetsPinned
<1>3. TransfersBehind(q) => TransfersBehind(q)'
  BY <1>0, <1>1 DEF TransfersBehind, TransfersPinned
<1>4. SeenOnce(q)' = SeenOnce(q)
  BY <1>0 DEF SeenOnce, Vehicle
<1>5. TransfersBehind(q) /\ TransfersPinned(q)' =>
        TransfersPinned(q) /\ transfers_generation' = transfers_generation
  BY <1>0 DEF TransfersBehind, TransfersPinned
<1>6. StreetsBehind(q) /\ StreetsPinned(q)' =>
        StreetsPinned(q) /\ streets_generation' = streets_generation
  BY <1>0 DEF StreetsBehind, StreetsPinned
<1>7. ASSUME StreetsBehind(q), TransfersBehind(q), StreetsPinned(q)',
             Vehicle(query[q].kind) => TransfersPinned(q)',
             (StreetsPinned(q) /\ (Vehicle(query[q].kind) => TransfersPinned(q))) => SeenNow(q)
      PROVE  SeenNow(q)'
  <2>1. SeenNow(q)
    BY <1>5, <1>6, <1>7
  <2>2. CASE Vehicle(query[q].kind)
    <3>1. Answers(q)' = Answers(q)
      BY <1>5, <1>6, <1>7, <2>2, AnswersStand
    <3>. QED
      BY <1>0, <2>1, <2>2, <3>1 DEF SeenNow, Vehicle
  <2>3. CASE ~Vehicle(query[q].kind)
    <3>1. StreetsRead(query[q].kind)' = StreetsRead(query[q].kind)
      BY <1>6, <1>7, AnswersStand
    <3>. QED
      BY <1>0, <2>1, <2>3, <3>1 DEF SeenNow, Vehicle
  <2>. QED
    BY <2>2, <2>3
<1>8. Vehicle(query[q].kind)' = Vehicle(query[q].kind)
  BY <1>0 DEF Vehicle
<1>9. query[q].pc = "running" =>
        (/\ StreetsBehind(q)
         /\ TransfersBehind(q)
         /\ (StreetsPinned(q) /\ (Vehicle(query[q].kind) => TransfersPinned(q))) => SeenNow(q))'
  BY <1>2, <1>3, <1>7, <1>8 DEF QueryInv
<1>10. query[q].pc = "verifying" =>
        (/\ TransfersBehind(q)
         /\ (Vehicle(query[q].kind) => TransfersPinned(q)) => SeenOnce(q))'
  BY <1>3, <1>4, <1>5, <1>8 DEF QueryInv
<1>11. query[q].pc = "pinning" => StreetsBehind(q)'
  BY <1>2 DEF QueryInv
<1>12. query[q].pc = "refused" => query[q].began < installs'
  BY <1>0, <1>1 DEF QueryInv
<1>13. query[q].began <= installs'
  BY <1>0, <1>1
<1>. QED
  BY <1>0, <1>1, <1>4, <1>9, <1>10, <1>11, <1>12, <1>13 DEF QueryInv

----------------------------------------------------------------------------
(* Types.                                                                  *)

TypedQueries == query \in [Queries -> QueryStates]

AnswerTypes ==
  [streets : SUBSET Nat, walks : SUBSET [closure : Nat],
   transfers : SUBSET ([closure : Nat] \cup UltraSets \cup McUltraSets \cup VehicleSets)]

\* What a core call reports is typed, whatever the query asks.
LEMMA AnswerTyped ==
  ASSUME StateInv, NEW kind \in AllKinds, NEW binding \in SUBSET Bindings,
         NEW factors \in SUBSET Factors
  PROVE  Answer(kind, binding, factors) \in AnswerTypes
<1> DEFINE Sets == [closure : Nat] \cup UltraSets \cup McUltraSets \cup VehicleSets
<1>0. net \in Contents
  BY DEF StateInv, Sound
<1>1. StreetsRead(kind) \in SUBSET Nat
  BY <1>0 DEF StreetsRead, Contents
<1>2. Closure \in [closure : Nat]
  BY <1>0 DEF Closure, Contents
<1>3. TimeTransfers \in SUBSET Sets
  <2>1. net.ultra \subseteq UltraSets
    BY <1>0 DEF Contents
  <2>. QED
    BY <1>2, <2>1 DEF TimeTransfers
<1>4. UNION {EmissionsTransfers(f) : f \in factors} \in SUBSET Sets
  <2>1. net.mcultra \subseteq McUltraSets
    BY <1>0 DEF Contents
  <2>2. \A f \in factors : EmissionsTransfers(f) \subseteq Sets
    BY <1>2, <2>1 DEF EmissionsTransfers
  <2>. QED
    BY <2>2
<1>5. PolicyTransfers(binding) \in SUBSET Sets /\ CarriageTransfers(binding) \in SUBSET Sets
  <2>1. net.mode \subseteq VehicleSets /\ net.carriage \subseteq VehicleSets
    BY <1>0 DEF Contents
  <2>. QED
    BY <1>2, <2>1 DEF PolicyTransfers, CarriageTransfers
<1>6. TransfersRead(kind, binding, factors) \in SUBSET Sets
  BY <1>3, <1>4, <1>5 DEF TransfersRead, AllKinds
<1>7. (IF kind = "carriage" THEN {Closure} ELSE {}) \in SUBSET [closure : Nat]
  BY <1>2
<1>8. AnswerTypes = [streets : SUBSET Nat, walks : SUBSET [closure : Nat],
                     transfers : SUBSET Sets]
  BY DEF AnswerTypes
<1> HIDE DEF Sets
<1>. QED
  BY <1>1, <1>6, <1>7, <1>8 DEF Answer

\* A query begins by pinning a kind, with a binding or factors at most.
LEMMA BeginPins ==
  ASSUME NEW q \in Queries, Begin(q)
  PROVE  \E kind \in AllKinds, binding \in SUBSET Bindings, factors \in SUBSET Factors :
       PinStreets(q, kind, binding, factors)
<1>1. /\ {} \in SUBSET Bindings /\ {} \in SUBSET Factors
      /\ \A b \in Bindings : {b} \in SUBSET Bindings
      /\ \A f \in Factors : {f} \in SUBSET Factors
      /\ "time" \in AllKinds /\ "emissions" \in AllKinds
      /\ \A kind \in QueryKinds : kind \in AllKinds
  BY QueryKindsAssumption DEF AllKinds
<1>2. \/ PinStreets(q, "time", {}, {})
      \/ \E f \in Factors : PinStreets(q, "emissions", {}, {f})
      \/ \E kind \in QueryKinds : PinStreets(q, kind, {}, {})
      \/ \E kind \in QueryKinds, b \in Bindings : PinStreets(q, kind, {b}, {})
  BY DEF Begin
<1>. QED
  BY <1>1, <1>2

\* A step of one query, given the state it moves to.
LEMMA StepTyped ==
  ASSUME TypedQueries, NEW q \in Queries, NEW state \in QueryStates, Step(q, state)
  PROVE  /\ TypedQueries'
         /\ query'[q] = state
         /\ \A p \in Queries : p # q => query'[p] = query[p]
BY DEF TypedQueries, Step

LEMMA TypesStep == StateInv /\ TypedQueries /\ [Next]_vars => TypedQueries'
<1>. SUFFICES ASSUME StateInv, TypedQueries, [Next]_vars PROVE TypedQueries'
  OBVIOUS
<1>1. ASSUME NEW q \in Queries, QueryStep(q)
      PROVE  TypedQueries'
  <2>0. query[q] \in QueryStates
    BY DEF TypedQueries
  <2>. HIDE DEF TypedQueries
  <2>1. ASSUME NEW kind \in AllKinds, NEW binding \in SUBSET Bindings,
               NEW factors \in SUBSET Factors, PinStreets(q, kind, binding, factors)
        PROVE  TypedQueries'
    <3>1. [query[q] EXCEPT !.pc = "pinning", !.kind = kind, !.binding = binding,
             !.factors = factors, !.streets = streets_generation, !.began = installs]
            \in QueryStates
      BY <2>0 DEF QueryStates, StateInv
    <3>. QED
      BY <2>1, <3>1, StepTyped DEF PinStreets
  <2>2. CASE Begin(q)
    BY <2>1, <2>2, BeginPins
  <2>3. CASE PinTransfers(q)
    <3>1. [query[q] EXCEPT !.pc = "running", !.transfers = transfers_generation] \in QueryStates
      BY <2>0 DEF QueryStates, StateInv
    <3>. QED
      BY <2>3, <3>1, StepTyped DEF PinTransfers
  <2>4. CASE CallCore(q)
    <3>1. Answers(q) \in AnswerTypes
      BY <2>0, AnswerTyped DEF Answers, QueryStates
    <3>2. query[q].seen \cup {Answers(q)} \in SUBSET AnswerTypes
      BY <2>0, <3>1 DEF QueryStates, AnswerTypes
    <3>3. [query[q] EXCEPT !.calls = @ + 1, !.seen = @ \cup {Answers(q)}] \in QueryStates
      <4> DEFINE more == query[q].seen \cup {Answers(q)}
      <4>1. query[q].calls + 1 \in Nat
        BY <2>0 DEF QueryStates
      <4>2. more \in SUBSET AnswerTypes
        BY <3>2
      <4>3. [query[q] EXCEPT !.calls = @ + 1, !.seen = @ \cup {Answers(q)}] =
              [query[q] EXCEPT !.calls = query[q].calls + 1, !.seen = more]
        BY <2>0 DEF QueryStates
      <4> HIDE DEF more
      <4>. QED
        BY <2>0, <4>1, <4>2, <4>3 DEF QueryStates, AnswerTypes
    <3>. QED
      BY <2>4, <3>3, StepTyped DEF CallCore
  <2>5. CASE CallFails(q)
    <3>1. [query[q] EXCEPT !.pc = "failed"] \in QueryStates
      BY <2>0 DEF QueryStates
    <3>. QED
      BY <2>5, <3>1, StepTyped DEF CallFails
  <2>6. CASE VerifyStreets(q)
    <3>1. \A s \in {"refused", "verifying"} : [query[q] EXCEPT !.pc = s] \in QueryStates
      BY <2>0 DEF QueryStates
    <3>. QED
      BY <2>6, <3>1, StepTyped DEF VerifyStreets
  <2>7. CASE VerifyTransfers(q)
    <3>1. \A s \in {"refused", "returned"} : [query[q] EXCEPT !.pc = s] \in QueryStates
      BY <2>0 DEF QueryStates
    <3>. QED
      BY <2>7, <3>1, StepTyped DEF VerifyTransfers
  <2>. QED
    BY <1>1, <2>2, <2>3, <2>4, <2>5, <2>6, <2>7 DEF QueryStep
<1>2. CASE Install \/ Compute \/ Refuse \/ Save \/ SaveElsewhere
  BY <1>2, NetworkAdvances DEF Advance, TypedQueries
<1>3. CASE Load \/ UNCHANGED vars
  BY <1>3 DEF Load, vars, TypedQueries
<1>. QED
  BY <1>1, <1>2, <1>3 DEF Next

LEMMA TypesInit == Init => TypedQueries
BY DEF Init, TypedQueries, QueryStates, Ready, AllKinds

\* Every variable keeps its type, for every value of the constants.
THEOREM TypeCorrect == Spec => []TypeOK
<1>1. Spec => []TypedQueries
  BY TypesInit, TypesStep, StateAlways, PTL DEF Spec
<1>2. StateInv /\ TypedQueries => TypeOK
  BY DEF StateInv, Sound, TypedQueries, TypeOK, Contents
<1>. QED
  BY <1>1, <1>2, StateAlways, PTL

----------------------------------------------------------------------------
(* Returned and refused queries.                                           *)

\* Queries that change nothing of the network see what they saw.
LEMMA AnswersSame ==
  ASSUME NEW q \in Queries, net' = net, query'[q].kind = query[q].kind,
         query'[q].binding = query[q].binding, query'[q].factors = query[q].factors
  PROVE  Answers(q)' = Answers(q)
<1>1. Closure' = Closure /\ TimeTransfers' = TimeTransfers
  BY DEF TimeTransfers, Closure
<1>2. UNION {EmissionsTransfers(f) : f \in query[q].factors}' =
        UNION {EmissionsTransfers(f) : f \in query[q].factors}
  BY DEF EmissionsTransfers, Closure
<1>3. /\ PolicyTransfers(query[q].binding)' = PolicyTransfers(query[q].binding)
      /\ CarriageTransfers(query[q].binding)' = CarriageTransfers(query[q].binding)
  BY DEF PolicyTransfers, CarriageTransfers, Closure
<1>4. StreetsRead(query[q].kind)' = StreetsRead(query[q].kind)
  BY DEF StreetsRead
<1>. QED
  BY <1>1, <1>2, <1>3, <1>4 DEF Answers, Answer, TransfersRead

LEMMA QueryInit == Init => \A q \in Queries : QueryInv(q)
BY DEF Init, Ready, QueryInv

\* A step of a query keeps its own invariant.
LEMMA OwnKeeps ==
  ASSUME StateInv, TypedQueries, NEW q \in Queries, QueryInv(q), QueryStep(q)
  PROVE  QueryInv(q)'
<1>0. /\ streets_generation \in Nat /\ transfers_generation \in Nat /\ installs \in Nat
      /\ query[q] \in QueryStates
  BY DEF StateInv, TypedQueries
<1>1. ASSUME NEW state \in QueryStates, Step(q, state)
      PROVE  /\ query'[q] = state
             /\ streets_generation' = streets_generation
             /\ transfers_generation' = transfers_generation
             /\ installs' = installs /\ net' = net
  <2>1. query'[q] = state
    BY <1>1, StepTyped
  <2>. QED
    BY <1>1, <2>1 DEF Step, generations
<1>2. CASE Begin(q)
  <2>1. PICK kind \in AllKinds, binding \in SUBSET Bindings, factors \in SUBSET Factors :
          PinStreets(q, kind, binding, factors)
    BY <1>2, BeginPins
  <2> DEFINE state == [query[q] EXCEPT !.pc = "pinning", !.kind = kind, !.binding = binding,
                         !.factors = factors, !.streets = streets_generation,
                         !.began = installs]
  <2>2. state \in QueryStates /\ Step(q, state) /\ query[q].pc = "idle"
    BY <1>0, <2>1 DEF PinStreets, QueryStates
  <2>3. /\ state.pc = "pinning" /\ state.seen = query[q].seen
        /\ state.streets = streets_generation /\ state.began = installs
    BY <1>0 DEF QueryStates
  <2>4. query[q].seen = {}
    BY <2>2 DEF QueryInv
  <2> HIDE DEF state
  <2>5. /\ query'[q] = state
        /\ streets_generation' = streets_generation /\ installs' = installs
    BY <1>1, <2>2
  <2>. QED
    BY <1>0, <2>3, <2>4, <2>5 DEF QueryInv, StreetsBehind, StreetsPinned
<1>3. CASE PinTransfers(q)
  <2> DEFINE state == [query[q] EXCEPT !.pc = "running", !.transfers = transfers_generation]
  <2>1. state \in QueryStates /\ Step(q, state) /\ query[q].pc = "pinning"
    BY <1>0, <1>3 DEF PinTransfers, QueryStates
  <2>2. /\ state.pc = "running" /\ state.seen = query[q].seen /\ state.kind = query[q].kind
        /\ state.streets = query[q].streets /\ state.began = query[q].began
        /\ state.transfers = transfers_generation
    BY <1>0 DEF QueryStates
  <2>3. query[q].seen = {} /\ StreetsBehind(q) /\ query[q].began \in Nat
        /\ query[q].began <= installs
    BY <2>1 DEF QueryInv
  <2> HIDE DEF state
  <2>4. /\ query'[q] = state
        /\ streets_generation' = streets_generation
        /\ transfers_generation' = transfers_generation /\ installs' = installs
    BY <1>1, <2>1
  <2>5. StreetsBehind(q)' /\ TransfersBehind(q)'
    BY <1>0, <2>2, <2>3, <2>4 DEF StreetsBehind, StreetsPinned, TransfersBehind, TransfersPinned
  <2>6. SeenNow(q)'
    BY <2>2, <2>3, <2>4 DEF SeenNow
  <2>. QED
    BY <2>2, <2>3, <2>4, <2>5, <2>6 DEF QueryInv
<1>4. CASE CallCore(q)
  <2> DEFINE more == query[q].seen \cup {Answers(q)}
             state == [query[q] EXCEPT !.calls = query[q].calls + 1, !.seen = more]
  <2>0. [query[q] EXCEPT !.calls = @ + 1, !.seen = @ \cup {Answers(q)}] = state
    BY <1>0 DEF QueryStates
  <2>1. Step(q, state) /\ query[q].pc = "running"
    BY <1>4, <2>0 DEF CallCore
  <2>2. state \in QueryStates
    <3>1. query[q].kind \in AllKinds /\ query[q].binding \in SUBSET Bindings
          /\ query[q].factors \in SUBSET Factors
      BY <1>0 DEF QueryStates
    <3>2. Answers(q) \in AnswerTypes
      BY <3>1, AnswerTyped DEF Answers
    <3>3. more \in SUBSET AnswerTypes
      BY <1>0, <3>2 DEF QueryStates, AnswerTypes
    <3>4. query[q].calls + 1 \in Nat
      BY <1>0 DEF QueryStates
    <3> HIDE DEF more
    <3>. QED
      BY <1>0, <3>3, <3>4 DEF QueryStates, AnswerTypes
  <2>3. /\ state.pc = "running" /\ state.seen = more /\ state.kind = query[q].kind
        /\ state.binding = query[q].binding /\ state.factors = query[q].factors
        /\ state.streets = query[q].streets /\ state.began = query[q].began
        /\ state.transfers = query[q].transfers
    <3> HIDE DEF more
    <3>. QED
      BY <1>0, <2>1 DEF QueryStates
  <2> HIDE DEF state
  <2>4. /\ query'[q] = state
        /\ streets_generation' = streets_generation
        /\ transfers_generation' = transfers_generation
        /\ installs' = installs /\ net' = net
    BY <1>1, <2>1, <2>2
  <2>5. StreetsRead(query[q].kind)' = StreetsRead(query[q].kind)
    BY <2>3, <2>4 DEF StreetsRead
  <2>6. Answers(q)' = Answers(q)
    BY <2>3, <2>4, AnswersSame
  <2>7. Answers(q).streets = StreetsRead(query[q].kind)
    BY DEF Answers, Answer
  <2>8. SeenNow(q) => SeenNow(q)'
    BY <2>3, <2>4, <2>5, <2>6, <2>7 DEF SeenNow, Vehicle
  <2>9. /\ query[q].began \in Nat /\ query[q].began <= installs
        /\ StreetsBehind(q) /\ TransfersBehind(q)
        /\ (StreetsPinned(q) /\ (Vehicle(query[q].kind) => TransfersPinned(q))) => SeenNow(q)
    BY <2>1 DEF QueryInv
  <2>10. /\ StreetsBehind(q)' /\ TransfersBehind(q)'
         /\ StreetsPinned(q)' = StreetsPinned(q) /\ TransfersPinned(q)' = TransfersPinned(q)
         /\ Vehicle(query[q].kind)' = Vehicle(query[q].kind)
    BY <2>3, <2>4, <2>9 DEF StreetsBehind, StreetsPinned, TransfersBehind, TransfersPinned,
                            Vehicle
  <2>. QED
    BY <2>3, <2>4, <2>8, <2>9, <2>10 DEF QueryInv
<1>5. CASE CallFails(q)
  <2>1. [query[q] EXCEPT !.pc = "failed"] \in QueryStates
    BY <1>0 DEF QueryStates
  <2>2. query'[q] = [query[q] EXCEPT !.pc = "failed"] /\ installs' = installs
    BY <1>1, <1>5, <2>1 DEF CallFails
  <2>3. query'[q].pc = "failed" /\ query'[q].began = query[q].began
    BY <1>0, <2>2 DEF QueryStates
  <2>. QED
    BY <2>2, <2>3 DEF QueryInv
<1>6. CASE VerifyStreets(q)
  <2>1. \A s \in {"refused", "verifying"} : [query[q] EXCEPT !.pc = s] \in QueryStates
    BY <1>0 DEF QueryStates
  <2>2. PICK s \in {"refused", "verifying"} :
          /\ Step(q, [query[q] EXCEPT !.pc = s])
          /\ s = IF streets_generation # query[q].streets THEN "refused" ELSE "verifying"
    BY <1>6 DEF VerifyStreets
  <2>3. /\ query'[q] = [query[q] EXCEPT !.pc = s]
        /\ transfers_generation' = transfers_generation /\ installs' = installs
    BY <1>1, <2>1, <2>2
  <2>4. /\ query'[q].pc = s /\ query'[q].seen = query[q].seen
        /\ query'[q].kind = query[q].kind /\ query'[q].began = query[q].began
        /\ query'[q].transfers = query[q].transfers
    BY <1>0, <2>3 DEF QueryStates
  <2>5. /\ query[q].began \in Nat /\ query[q].began <= installs
        /\ StreetsBehind(q) /\ TransfersBehind(q)
        /\ (StreetsPinned(q) /\ (Vehicle(query[q].kind) => TransfersPinned(q))) => SeenNow(q)
    BY <1>6 DEF QueryInv, VerifyStreets
  <2>6. CASE s = "refused"
    <3>1. query[q].began < installs
      BY <2>2, <2>5, <2>6 DEF StreetsBehind, StreetsPinned
    <3>. QED
      BY <2>3, <2>4, <2>5, <2>6, <3>1 DEF QueryInv
  <2>7. CASE s = "verifying"
    <3>1. StreetsPinned(q)
      BY <2>2, <2>7 DEF StreetsPinned
    <3>2. SeenNow(q) => SeenOnce(q)
      BY DEF SeenNow, SeenOnce
    <3>3. SeenOnce(q)' = SeenOnce(q) /\ Vehicle(query[q].kind)' = Vehicle(query[q].kind)
      BY <2>4 DEF SeenOnce, Vehicle
    <3>4. TransfersBehind(q)' /\ TransfersPinned(q)' = TransfersPinned(q)
      BY <2>3, <2>4, <2>5 DEF TransfersBehind, TransfersPinned
    <3>. QED
      BY <2>3, <2>4, <2>5, <2>7, <3>1, <3>2, <3>3, <3>4 DEF QueryInv
  <2>. QED
    BY <2>6, <2>7
<1>7. CASE VerifyTransfers(q)
  <2>1. \A s \in {"refused", "returned"} : [query[q] EXCEPT !.pc = s] \in QueryStates
    BY <1>0 DEF QueryStates
  <2>2. PICK s \in {"refused", "returned"} :
          /\ Step(q, [query[q] EXCEPT !.pc = s])
          /\ s = IF transfers_generation # query[q].transfers THEN "refused" ELSE "returned"
    BY <1>7 DEF VerifyTransfers
  <2>3. query'[q] = [query[q] EXCEPT !.pc = s] /\ installs' = installs
    BY <1>1, <2>1, <2>2
  <2>4. /\ query'[q].pc = s /\ query'[q].seen = query[q].seen
        /\ query'[q].kind = query[q].kind /\ query'[q].began = query[q].began
    BY <1>0, <2>3 DEF QueryStates
  <2>5. /\ query[q].began \in Nat /\ query[q].began <= installs
        /\ TransfersBehind(q)
        /\ (Vehicle(query[q].kind) => TransfersPinned(q)) => SeenOnce(q)
    BY <1>7 DEF QueryInv, VerifyTransfers
  <2>6. CASE s = "refused"
    <3>1. query[q].began < installs
      BY <2>2, <2>5, <2>6 DEF TransfersBehind, TransfersPinned
    <3>. QED
      BY <2>3, <2>4, <2>5, <2>6, <3>1 DEF QueryInv
  <2>7. CASE s = "returned"
    <3>1. TransfersPinned(q)
      BY <2>2, <2>7 DEF TransfersPinned
    <3>2. SeenOnce(q)' = SeenOnce(q)
      BY <2>4 DEF SeenOnce, Vehicle
    <3>. QED
      BY <2>3, <2>4, <2>5, <2>7, <3>1, <3>2 DEF QueryInv
  <2>. QED
    BY <2>6, <2>7
<1>. QED
  BY <1>2, <1>3, <1>4, <1>5, <1>6, <1>7 DEF QueryStep

LEMMA QueriesStep ==
  StateInv /\ TypedQueries /\ (\A q \in Queries : QueryInv(q)) /\ [Next]_vars =>
    (\A q \in Queries : QueryInv(q))'
<1>. SUFFICES ASSUME StateInv, TypedQueries, [Next]_vars,
                     NEW q \in Queries, QueryInv(q)
              PROVE  QueryInv(q)'
  OBVIOUS
<1>1. CASE Install \/ Compute \/ Refuse \/ Save \/ SaveElsewhere
  BY <1>1, NetworkAdvances, OthersKeep
<1>2. CASE Load
  <2>1. query[q].pc \in Over /\ query' = query /\ installs' = installs
    BY <1>2 DEF Load
  <2>2. SeenOnce(q)' = SeenOnce(q)
    BY <2>1 DEF SeenOnce, Vehicle
  <2>. QED
    BY <2>1, <2>2 DEF QueryInv, Over
<1>3. ASSUME NEW p \in Queries, QueryStep(p)
      PROVE  QueryInv(q)'
  <2>1. CASE p = q
    BY <1>3, <2>1, OwnKeeps
  <2>2. CASE p # q
    <3>1. \E state : Step(p, state)
      BY <1>3 DEF QueryStep, Begin, PinStreets, PinTransfers, CallCore, CallFails,
                  VerifyStreets, VerifyTransfers
    <3>2. query'[q] = query[q] /\ UNCHANGED <<net, source, generations, file, installs>>
      BY <2>2, <3>1 DEF Step, TypedQueries
    <3>3. SeenNow(q)' = SeenNow(q) /\ SeenOnce(q)' = SeenOnce(q)
      <4>1. Answers(q)' = Answers(q)
        BY <3>2, AnswersSame
      <4>2. StreetsRead(query[q].kind)' = StreetsRead(query[q].kind)
        BY <3>2 DEF StreetsRead
      <4>. QED
        BY <3>2, <4>1, <4>2 DEF SeenNow, SeenOnce, Vehicle
    <3>4. /\ StreetsBehind(q)' = StreetsBehind(q) /\ TransfersBehind(q)' = TransfersBehind(q)
          /\ StreetsPinned(q)' = StreetsPinned(q) /\ TransfersPinned(q)' = TransfersPinned(q)
          /\ Vehicle(query[q].kind)' = Vehicle(query[q].kind) /\ installs' = installs
      BY <3>2 DEF StreetsBehind, StreetsPinned, TransfersBehind, TransfersPinned, Vehicle,
                  generations
    <3>. QED
      BY <3>2, <3>3, <3>4, SMTT(30) DEF QueryInv
  <2>. QED
    BY <2>1, <2>2
<1>4. CASE UNCHANGED vars
  BY <1>4 DEF vars, QueryInv, StreetsBehind, TransfersBehind, StreetsPinned, TransfersPinned,
              SeenNow, SeenOnce, Vehicle, Answers, Answer, StreetsRead, TransfersRead,
              TimeTransfers, EmissionsTransfers, PolicyTransfers, CarriageTransfers, Closure
<1>. QED
  BY <1>1, <1>2, <1>3, <1>4 DEF Next

LEMMA QueriesAlways == Spec => [](\A q \in Queries : QueryInv(q))
<1>1. Spec => []TypedQueries
  BY TypesInit, TypesStep, StateAlways, PTL DEF Spec
<1>. QED
  BY <1>1, QueryInit, QueriesStep, StateAlways, PTL DEF Spec

\* However many core calls a query makes and whatever is installed between
\* them, a returned vehicle query saw one network and a returned walking query
\* one street graph (_snapshot.py NetworkSnapshot).
THEOREM ReturnedSawOneNetwork == Spec => []OneNetwork
<1>1. (\A q \in Queries : QueryInv(q)) => OneNetwork
  BY DEF QueryInv, OneNetwork, SeenOnce, Vehicle
<1>. QED
  BY <1>1, QueriesAlways, PTL

\* A refusal always has an install behind it: none comes from an install that
\* failed, nor from the two generations being read one after the other.
THEOREM RefusedBehindInstall == Spec => []RefusedOnlyIfReplaced
<1>1. (\A q \in Queries : QueryInv(q)) => RefusedOnlyIfReplaced
  BY DEF QueryInv, RefusedOnlyIfReplaced
<1>. QED
  BY <1>1, QueriesAlways, PTL

\* Pinning by generations refuses no query it need not and passes none it
\* should refuse.
THEOREM SnapshotsAreExact == Spec => []SnapshotExact
<1>. QED
  BY ReturnedSawOneNetwork, RefusedBehindInstall, PTL DEF SnapshotExact
=============================================================================
