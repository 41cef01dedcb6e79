--------------------------- MODULE Progress_proofs ---------------------------
(***************************************************************************)
(* Proofs about Progress, for any number of fan-outs, workers, units,      *)
(* lines and reconfiguring threads.  The inductive invariant has a part    *)
(* for each ticker (what a worker between its count and its report leaves  *)
(* pending) and a part for the bars (who holds _runs_lock, and under which *)
(* setting a bar is about to open).                                        *)
(***************************************************************************)
EXTENDS Progress, TLAPS

LEMMA StepNat == Step \in Nat
<1>1. Total + Lines - 1 \in Nat /\ Lines \in Nat \ {0}
  BY TotalAssumption, LinesAssumption
<1>. QED
  BY <1>1, TotalAssumption, LinesAssumption DEF Step

ThreadType == [pc : ThreadStates, read : BOOLEAN, began : SUBSET Nat,
               setting : AllSettings \cup {Default}]
BarType == [pc : {"none", "open", "popped", "signalled", "closed"}, n : Units, under : Nat]
TickerType == [armed : BOOLEAN, completed : Units, emitted : Units]
WorkerType == [pc : {"idle", "waiting", "holding", "delivering"}, done : Units]

\* A thread that moves keeps the type, and the others stay where they are.
LEMMA Moved ==
  ASSUME LogTypeOK, NEW t \in Threads, NEW pc \in ThreadStates, Move(t, pc)
  PROVE  /\ thread' \in [Threads -> ThreadType]
         /\ thread'[t].pc = pc
         /\ \A s \in Threads : s # t => thread'[s] = thread[s]
<1>1. thread \in [Threads -> ThreadType]
  BY DEF LogTypeOK, ThreadType
<1>2. [thread[t] EXCEPT !.pc = pc] \in ThreadType
  BY <1>1 DEF ThreadType
<1>3. thread' = [thread EXCEPT ![t] = [thread[t] EXCEPT !.pc = pc]]
  BY DEF Move
<1>. QED
  BY <1>1, <1>2, <1>3 DEF ThreadType

LEMMA ThreadsAre == /\ Runs \subseteq Threads
                    /\ Users \subseteq Threads
BY DEF Threads

LEMMA TypeInit == LogInit => LogTypeOK
<1>. SUFFICES ASSUME LogInit PROVE LogTypeOK
  OBVIOUS
<1>1. 0 \in Units /\ OwnInfo \in BOOLEAN
  BY TotalAssumption, SettingsAssumption DEF Units
<1>2. [pc |-> "idle", read |-> FALSE, setting |-> Default, began |-> {}] \in ThreadType
  BY <1>1 DEF ThreadType, ThreadStates
<1>3. thread \in [Threads -> ThreadType]
  BY <1>2 DEF LogInit
<1>4. bar \in [Runs -> BarType] /\ ticker \in [Runs -> TickerType]
  BY <1>1 DEF LogInit, NoBar, BarType, TickerType
<1>5. worker \in [Runs -> [Workers -> WorkerType]]
  BY <1>1 DEF LogInit, WorkerType
<1>. QED
  BY <1>1, <1>3, <1>4, <1>5 DEF LogInit, LogTypeOK, ThreadType, BarType, TickerType, WorkerType

\* What LogTypeOK says of the variables, with the types named.
LEMMA Typed ==
  LogTypeOK <=>
    /\ level \in BOOLEAN /\ threshold \in BOOLEAN /\ progress \in BOOLEAN
    /\ handler \in {"none", "bar", "other"}
    /\ installs \in Nat
    /\ thread \in [Threads -> ThreadType]
    /\ held \in SUBSET Threads
    /\ bar \in [Runs -> BarType]
    /\ redraw \in [Runs -> {"off", "waiting", "refreshing"}]
    /\ ticker \in [Runs -> TickerType]
    /\ mutex \in [Runs -> SUBSET Workers]
    /\ worker \in [Runs -> [Workers -> WorkerType]]
    /\ lines \in [Runs -> Units]
BY DEF LogTypeOK, ThreadType, BarType, TickerType, WorkerType

\* A step that changes one entry of a function, or one field of its record.
LEMMA BarSet ==
  ASSUME bar \in [Runs -> BarType], NEW r \in Runs
  PROVE  /\ \A pc \in {"none", "open", "popped", "signalled", "closed"} :
              [bar EXCEPT ![r].pc = pc] \in [Runs -> BarType]
         /\ \A n \in Units : [bar EXCEPT ![r].n = n] \in [Runs -> BarType]
         /\ \A k \in Nat : [bar EXCEPT ![r].under = k] \in [Runs -> BarType]
BY DEF BarType

LEMMA WorkerSet ==
  ASSUME worker \in [Runs -> [Workers -> WorkerType]], NEW r \in Runs, NEW w \in Workers
  PROVE  /\ \A pc \in {"idle", "waiting", "holding", "delivering"} :
              [worker EXCEPT ![r][w].pc = pc] \in [Runs -> [Workers -> WorkerType]]
         /\ \A state \in WorkerType :
              [worker EXCEPT ![r][w] = state] \in [Runs -> [Workers -> WorkerType]]
<1>1. ASSUME NEW state \in WorkerType
      PROVE  [worker EXCEPT ![r][w] = state] \in [Runs -> [Workers -> WorkerType]]
  BY <1>1
<1>2. ASSUME NEW pc \in {"idle", "waiting", "holding", "delivering"}
      PROVE  [worker EXCEPT ![r][w].pc = pc] \in [Runs -> [Workers -> WorkerType]]
  <2>1. [worker[r][w] EXCEPT !.pc = pc] \in WorkerType
    BY <1>2 DEF WorkerType
  <2>2. [worker EXCEPT ![r][w].pc = pc]
          = [worker EXCEPT ![r][w] = [worker[r][w] EXCEPT !.pc = pc]]
    OBVIOUS
  <2>. QED
    BY <1>1, <2>1, <2>2
<1>. QED
  BY <1>1, <1>2

LEMMA TickerSet ==
  ASSUME ticker \in [Runs -> TickerType], NEW r \in Runs
  PROVE  /\ \A b \in BOOLEAN : [ticker EXCEPT ![r].armed = b] \in [Runs -> TickerType]
         /\ \A n \in Units : [ticker EXCEPT ![r].completed = n] \in [Runs -> TickerType]
         /\ \A n \in Units : [ticker EXCEPT ![r].emitted = n] \in [Runs -> TickerType]
BY DEF TickerType

LEMMA TypeStep == LogTypeOK /\ [LogNext]_logVars => LogTypeOK'
<1>. SUFFICES ASSUME LogTypeOK, [LogNext]_logVars PROVE LogTypeOK'
  OBVIOUS
<1>. USE ThreadsAre
<1>0. /\ level \in BOOLEAN /\ threshold \in BOOLEAN /\ progress \in BOOLEAN
      /\ handler \in {"none", "bar", "other"}
      /\ installs \in Nat
      /\ thread \in [Threads -> ThreadType]
      /\ held \in SUBSET Threads
      /\ bar \in [Runs -> BarType]
      /\ redraw \in [Runs -> {"off", "waiting", "refreshing"}]
      /\ ticker \in [Runs -> TickerType]
      /\ mutex \in [Runs -> SUBSET Workers]
      /\ worker \in [Runs -> [Workers -> WorkerType]]
      /\ lines \in [Runs -> Units]
  BY Typed
<1>d. Draws \in BOOLEAN
  BY DEF Draws
<1>u. UNCHANGED logVars => LogTypeOK'
  BY <1>0, Typed DEF logVars, config, bars, ticks, LogTypeOK, ThreadType, BarType, TickerType, WorkerType
<1>1. ASSUME NEW u \in Users, Enable(u) \/ Disable(u) PROVE LogTypeOK'
  <2>1. PICK setting \in AllSettings \cup {Default} : Configure(u, setting)
    BY <1>1, SettingsAssumption DEF Enable, Disable
  <2>2. setting.info \in BOOLEAN
    BY SettingsAssumption DEF AllSettings, Default
  <2>3. [thread[u] EXCEPT !.pc = "configuring", !.setting = setting] \in ThreadType
    <3>1. thread[u] \in ThreadType
      BY <1>0
    <3>. QED
      BY <3>1 DEF ThreadType, ThreadStates
  <2>4. thread' \in [Threads -> ThreadType]
    BY <1>0, <2>1, <2>3 DEF Configure
  <2>. QED
    BY <1>0, <2>1, <2>2, <2>4 DEF Configure, bars, ticks, LogTypeOK, ThreadType, BarType, TickerType, WorkerType
<1>2. ASSUME NEW u \in Users, InstallHandler(u) PROVE LogTypeOK'
  <2>1. thread[u].setting.handler \in {"none", "bar", "other"}
    BY <1>0 DEF ThreadType, AllSettings, Default
  <2>2. thread' \in [Threads -> ThreadType]
    BY <1>2, Moved DEF InstallHandler, ThreadStates
  <2>. QED
    BY <1>0, <1>2, <2>1, <2>2 DEF InstallHandler, bars, ticks, LogTypeOK, ThreadType, BarType, TickerType, WorkerType
<1>3. ASSUME NEW u \in Users, DropRuns(u) PROVE LogTypeOK'
  <2>1. bar' \in [Runs -> BarType]
    <3>1. ASSUME NEW r \in Runs PROVE [bar[r] EXCEPT !.pc = "popped"] \in BarType
      BY <1>0 DEF BarType
    <3>. QED
      BY <1>0, <1>3, <3>1 DEF DropRuns
  <2>2. thread' \in [Threads -> ThreadType]
    BY <1>3, Moved DEF DropRuns, ThreadStates
  <2>. QED
    BY <1>0, <1>3, <2>1, <2>2 DEF DropRuns, config, ticks, LogTypeOK, ThreadType, BarType, TickerType, WorkerType
<1>4. ASSUME NEW t \in Threads, NEW r \in Runs, SignalClose(t, r) \/ CloseBar(t, r) PROVE LogTypeOK'
  <2>1. CASE SignalClose(t, r)
    <3>1. bar' = [bar EXCEPT ![r].pc = "signalled"]
      BY <2>1 DEF SignalClose
    <3>2. bar' \in [Runs -> BarType]
      BY <1>0, <3>1, BarSet
    <3>. QED
      BY <1>0, <2>1, <3>2 DEF SignalClose, config, ticks, LogTypeOK, ThreadType, BarType, TickerType, WorkerType
  <2>2. CASE CloseBar(t, r)
    <3>1. bar' = [bar EXCEPT ![r].pc = "closed"]
      BY <2>2 DEF CloseBar
    <3>2. bar' \in [Runs -> BarType]
      BY <1>0, <3>1, BarSet
    <3>. QED
      BY <1>0, <2>2, <3>2 DEF CloseBar, config, ticks, LogTypeOK, ThreadType, BarType, TickerType, WorkerType
  <2>. QED
    BY <1>4, <2>1, <2>2
<1>5. ASSUME NEW t \in Threads, Dropped(t) \/ EndedRun(t) PROVE LogTypeOK'
  <2>1. thread' \in [Threads -> ThreadType]
    BY <1>5, Moved DEF Dropped, EndedRun, ThreadStates
  <2>. QED
    BY <1>0, <1>5, <2>1 DEF Dropped, EndedRun, config, ticks, LogTypeOK, ThreadType, BarType, TickerType, WorkerType
<1>6. ASSUME NEW t \in Threads, Sync(t) PROVE LogTypeOK'
  <2>1. CASE ReadLevel(t)
    <3>1. [thread[t] EXCEPT !.pc = "levelling", !.read = level] \in ThreadType
      <4>1. thread[t] \in ThreadType
        BY <1>0
      <4>. QED
        BY <1>0, <4>1 DEF ThreadType, ThreadStates
    <3>2. thread' \in [Threads -> ThreadType]
      BY <1>0, <2>1, <3>1 DEF ReadLevel
    <3>. QED
      BY <1>0, <2>1, <3>2 DEF ReadLevel, config, bars, ticks, LogTypeOK, ThreadType, BarType, TickerType, WorkerType
  <2>2. CASE SetLogLevel(t)
    <3>1. thread' \in [Threads -> ThreadType]
      BY <2>2, Moved DEF SetLogLevel, ThreadStates
    <3>2. thread[t].read \in BOOLEAN
      BY <1>0 DEF ThreadType
    <3>. QED
      BY <1>0, <2>2, <3>1, <3>2 DEF SetLogLevel, bars, ticks, LogTypeOK, ThreadType, BarType, TickerType, WorkerType
  <2>3. CASE ReadPresentation(t)
    <3>1. [thread[t] EXCEPT !.pc = "arming", !.read = Draws] \in ThreadType
      <4>1. thread[t] \in ThreadType
        BY <1>0
      <4>. QED
        BY <4>1, <1>d DEF ThreadType, ThreadStates
    <3>2. thread' \in [Threads -> ThreadType]
      BY <1>0, <2>3, <3>1 DEF ReadPresentation
    <3>. QED
      BY <1>0, <2>3, <3>2 DEF ReadPresentation, config, bars, ticks, LogTypeOK, ThreadType, BarType, TickerType, WorkerType
  <2>4. CASE SetProgress(t)
    <3>1. thread' \in [Threads -> ThreadType]
      <4>1. CASE t \in Runs
        BY <2>4, <4>1, Moved DEF SetProgress, ThreadStates
      <4>2. CASE t \notin Runs
        BY <2>4, <4>2, Moved DEF SetProgress, ThreadStates
      <4>. QED
        BY <4>1, <4>2
    <3>2. thread[t].read \in BOOLEAN
      BY <1>0 DEF ThreadType
    <3>. QED
      BY <1>0, <2>4, <3>1, <3>2 DEF SetProgress, bars, ticks, LogTypeOK, ThreadType, BarType, TickerType, WorkerType
  <2>. QED
    BY <1>6, <2>1, <2>2, <2>3, <2>4 DEF Sync
<1>7. ASSUME NEW r \in Runs, Begin(r) PROVE LogTypeOK'
  <2> DEFINE began == IF Reconfiguring THEN {} ELSE {installs}
  <2>1. began \in SUBSET Nat
    BY <1>0
  <2>2. thread' = [thread EXCEPT ![r].pc = "syncing", ![r].began = began]
    BY <1>7 DEF Begin
  <2> HIDE DEF began
  <2>3. [thread[r] EXCEPT !.pc = "syncing", !.began = began] \in ThreadType
    <3>1. thread[r] \in ThreadType
      BY <1>0
    <3>. QED
      BY <3>1, <2>1 DEF ThreadType, ThreadStates
  <2>4. thread' \in [Threads -> ThreadType]
    BY <1>0, <2>2, <2>3
  <2>. QED
    BY <1>0, <1>7, <2>4 DEF Begin, config, bars, ticks, LogTypeOK, ThreadType, BarType, TickerType, WorkerType
<1>8. ASSUME NEW r \in Runs, ArmTicker(r) PROVE LogTypeOK'
  <2> DEFINE armed == Total >= Minimum /\ (threshold \/ progress)
  <2>1. armed \in BOOLEAN /\ ticker' = [ticker EXCEPT ![r].armed = armed]
    BY <1>8 DEF ArmTicker
  <2>2. Move(r, "starting") \/ Move(r, "running")
    BY <1>8 DEF ArmTicker
  <2> HIDE DEF armed
  <2>3. ticker' \in [Runs -> TickerType]
    BY <1>0, <2>1, TickerSet
  <2>4. thread' \in [Threads -> ThreadType]
    BY <2>2, Moved DEF ThreadStates
  <2>. QED
    BY <1>0, <1>8, <2>3, <2>4 DEF ArmTicker, config, bars, LogTypeOK, ThreadType, BarType, TickerType, WorkerType
<1>9. ASSUME NEW r \in Runs, StartRead(r) \/ StartOpen(r) \/ EndBar(r) PROVE LogTypeOK'
  <2>1. Move(r, "opening") \/ Move(r, "running") \/ Move(r, "closing") \/ Move(r, "over")
    BY <1>9 DEF StartRead, StartOpen, EndBar
  <2>2. thread' \in [Threads -> ThreadType]
    BY <2>1, Moved DEF ThreadStates
  <2>3. bar' \in [Runs -> BarType]
    <3>1. \/ bar' = bar
          \/ bar' = [bar EXCEPT ![r].under = installs]
          \/ bar' = [bar EXCEPT ![r].pc = "open"]
          \/ bar' = [bar EXCEPT ![r].pc = "popped"]
      BY <1>9 DEF StartRead, StartOpen, EndBar
    <3>2. /\ [bar EXCEPT ![r].under = installs] \in [Runs -> BarType]
          /\ [bar EXCEPT ![r].pc = "open"] \in [Runs -> BarType]
          /\ [bar EXCEPT ![r].pc = "popped"] \in [Runs -> BarType]
      BY <1>0, BarSet
    <3>. QED
      BY <1>0, <3>1, <3>2
  <2>4. held' \in SUBSET Threads /\ redraw' \in [Runs -> {"off", "waiting", "refreshing"}]
    BY <1>0, <1>9 DEF StartRead, StartOpen, EndBar
  <2>. QED
    BY <1>0, <1>9, <2>2, <2>3, <2>4 DEF StartRead, StartOpen, EndBar, config, ticks, LogTypeOK, ThreadType, BarType, TickerType, WorkerType
<1>10. ASSUME NEW r \in Runs, Redraw(r) \/ Redrawn(r) \/ StopRedraw(r) PROVE LogTypeOK'
  BY <1>0, <1>10 DEF Redraw, Redrawn, StopRedraw, config, ticks, LogTypeOK, ThreadType, BarType, TickerType, WorkerType
<1>11. ASSUME NEW r \in Runs, Finish(r) PROVE LogTypeOK'
  <2>1. Move(r, "ending") \/ Move(r, "over")
    BY <1>11 DEF Finish
  <2>2. thread' \in [Threads -> ThreadType]
    BY <2>1, Moved DEF ThreadStates
  <2>. QED
    BY <1>0, <1>11, <2>2 DEF Finish, config, bars, ticks, LogTypeOK, ThreadType, BarType, TickerType, WorkerType
<1>12. ASSUME NEW r \in Runs, NEW w \in Workers, Tick(r, w) PROVE LogTypeOK'
  <2> DEFINE done == ticker[r].completed + 1
  <2>1. done \in Units
    BY <1>0, <1>12, TotalAssumption DEF Tick, TickerType, Units
  <2>2. ticker' = [ticker EXCEPT ![r].completed = done]
    BY <1>12 DEF Tick
  <2>3. worker' = worker \/ worker' = [worker EXCEPT ![r][w] = [pc |-> "waiting", done |-> done]]
    BY <1>12 DEF Tick
  <2> HIDE DEF done
  <2>4. [pc |-> "waiting", done |-> done] \in WorkerType
    BY <2>1 DEF WorkerType
  <2>5. worker' \in [Runs -> [Workers -> WorkerType]]
    <3>1. [worker EXCEPT ![r][w] = [pc |-> "waiting", done |-> done]] \in [Runs -> [Workers -> WorkerType]]
      BY <1>0, <2>4, WorkerSet
    <3>. QED
      BY <1>0, <2>3, <3>1
  <2>6. ticker' \in [Runs -> TickerType]
    BY <1>0, <2>1, <2>2, TickerSet
  <2>. QED
    BY <1>0, <1>12, <2>5, <2>6 DEF Tick, config, bars, LogTypeOK, ThreadType, BarType, TickerType, WorkerType
<1>13. ASSUME NEW r \in Runs, NEW w \in Workers, LockTicker(r, w) \/ UnlockTicker(r, w) PROVE LogTypeOK'
  <2>1. worker' \in [Runs -> [Workers -> WorkerType]]
    <3>1. \/ worker' = [worker EXCEPT ![r][w].pc = "holding"]
          \/ worker' = [worker EXCEPT ![r][w].pc = "idle"]
      BY <1>13 DEF LockTicker, UnlockTicker
    <3>2. /\ [worker EXCEPT ![r][w].pc = "holding"] \in [Runs -> [Workers -> WorkerType]]
          /\ [worker EXCEPT ![r][w].pc = "idle"] \in [Runs -> [Workers -> WorkerType]]
      BY <1>0, WorkerSet
    <3>. QED
      BY <3>1, <3>2
  <2>2. mutex' \in [Runs -> SUBSET Workers]
    <3>1. mutex' = [mutex EXCEPT ![r] = {w}] \/ mutex' = [mutex EXCEPT ![r] = {}]
      BY <1>13 DEF LockTicker, UnlockTicker
    <3>. QED
      BY <1>0, <3>1
  <2>3. UNCHANGED <<config, thread, bars, ticker, lines>>
    BY <1>13 DEF LockTicker, UnlockTicker
  <2>. QED
    BY <1>0, <2>1, <2>2, <2>3 DEF config, bars, LogTypeOK, ThreadType, BarType, TickerType, WorkerType
<1>14. ASSUME NEW r \in Runs, NEW w \in Workers, EmitBoundary(r, w) PROVE LogTypeOK'
  <2> DEFINE next == Min2(ticker[r].emitted + Step, Total)
  <2>1. next \in Units
    BY <1>0, StepNat, TotalAssumption DEF Min2, TickerType, Units
  <2>2. ticker' = [ticker EXCEPT ![r].emitted = next]
    BY <1>0, <1>14 DEF EmitBoundary
  <2> HIDE DEF next
  <2>3. worker' \in [Runs -> [Workers -> WorkerType]] /\ ticker' \in [Runs -> TickerType]
    <3>1. worker' = [worker EXCEPT ![r][w].pc = "delivering"]
      BY <1>14 DEF EmitBoundary
    <3>2. [worker EXCEPT ![r][w].pc = "delivering"] \in [Runs -> [Workers -> WorkerType]]
      BY <1>0, WorkerSet
    <3>3. [ticker EXCEPT ![r].emitted = next] \in [Runs -> TickerType]
      BY <1>0, <2>1, TickerSet
    <3>. QED
      BY <2>2, <3>1, <3>2, <3>3
  <2>. QED
    BY <1>0, <1>14, <2>3 DEF EmitBoundary, config, bars, LogTypeOK, ThreadType, BarType, TickerType, WorkerType
<1>15. ASSUME NEW r \in Runs, NEW w \in Workers, Deliver(r, w) PROVE LogTypeOK'
  <2> DEFINE n == Max2(bar[r].n, ticker[r].emitted)
  <2>1. n \in Units /\ ticker[r].emitted \in Units
    BY <1>0 DEF Max2, TickerType, BarType, Units
  <2>2. bar' = bar \/ bar' = [bar EXCEPT ![r].n = n]
    BY <1>0, <1>15 DEF Deliver
  <2> HIDE DEF n
  <2>3. bar' \in [Runs -> BarType] /\ lines' \in [Runs -> Units]
    BY <1>0, <1>15, <2>1, <2>2, BarSet DEF Deliver
  <2>4. worker' \in [Runs -> [Workers -> WorkerType]]
    BY <1>0, <1>15, WorkerSet DEF Deliver
  <2>. QED
    BY <1>0, <1>15, <2>3, <2>4 DEF Deliver, config, LogTypeOK, ThreadType, BarType, TickerType, WorkerType
<1>. QED
  BY <1>u, <1>1, <1>2, <1>3, <1>4, <1>5, <1>6, <1>7, <1>8, <1>9, <1>10, <1>11, <1>12, <1>13,
     <1>14, <1>15 DEF LogNext, Reconfigure, Fan, Work

\* Every variable keeps its type, for every value of the constants.
THEOREM TypeCorrect == LogSpec => []LogTypeOK
<1>. QED
  BY TypeInit, TypeStep, PTL DEF LogSpec

----------------------------------------------------------------------------
(* The ticker.                                                             *)

\* Where a run is before its ticker may count.
Before == {"idle", "syncing", "levelling", "levelled", "arming", "armed", "starting", "opening"}

AtRest(r) == \A w \in Workers : worker[r][w].pc = "idle"

Delivering(r) == \E w \in Workers : worker[r][w].pc = "delivering"

\* A worker past its count still has its boundary to report, one at a time under
\* the lock; when all units are done, the last worker is one of those.
TickInv(r) ==
  /\ thread[r].pc \in Before =>
       ticker[r].completed = 0 /\ ticker[r].emitted = 0 /\ lines[r] = 0
  /\ thread[r].pc # "running" => AtRest(r)
  /\ \A w \in Workers :
       worker[r][w].pc # "idle" => worker[r][w].done <= ticker[r].completed
  /\ \A w \in Workers :
       worker[r][w].pc \in {"holding", "delivering"} => mutex[r] = {w}
  /\ ticker[r].emitted <= ticker[r].completed
  /\ ~Delivering(r) => lines[r] = ticker[r].emitted
  /\ Delivering(r) => /\ ticker[r].emitted = Min2(lines[r] + Step, Total)
                      /\ lines[r] <= ticker[r].emitted
  /\ ticker[r].completed = Total =>
       \/ ticker[r].emitted = Total
       \/ \E w \in Workers : worker[r][w].pc # "idle" /\ worker[r][w].done = Total

LEMMA TickInit == LogInit => \A r \in Runs : TickInv(r)
<1>. SUFFICES ASSUME LogInit, NEW r \in Runs PROVE TickInv(r)
  OBVIOUS
<1>1. ticker[r].completed = 0 /\ ticker[r].emitted = 0 /\ lines[r] = 0 /\ Total # 0
  BY TotalAssumption DEF LogInit
<1>2. \A w \in Workers : worker[r][w].pc = "idle"
  BY DEF LogInit
<1>. QED
  BY <1>1, <1>2 DEF TickInv, AtRest, Delivering

\* How the caller of a fan-out may move.
Advances(r) == /\ thread'[r].pc \in Before => thread[r].pc \in Before
               /\ thread'[r].pc # "running" => thread[r].pc # "running" \/ AtRest(r)

LEMMA TickFrame ==
  ASSUME NEW r \in Runs, TickInv(r), Advances(r),
         ticker'[r].completed = ticker[r].completed,
         ticker'[r].emitted = ticker[r].emitted,
         mutex'[r] = mutex[r], worker'[r] = worker[r], lines'[r] = lines[r]
  PROVE  TickInv(r)'
<1>1. AtRest(r)' = AtRest(r) /\ Delivering(r)' = Delivering(r)
  BY DEF AtRest, Delivering
<1>. QED
  BY <1>1 DEF TickInv, Advances

\* Every step but a worker's.
LEMMA CallersAdvance ==
  ASSUME LogTypeOK, NEW r \in Runs,
         \/ \E u \in Users : Enable(u) \/ Disable(u) \/ Reconfigure(u)
         \/ \E s \in Runs : Begin(s) \/ Fan(s) \/ Finish(s)
         \/ \E s \in Runs : Redraw(s) \/ Redrawn(s) \/ StopRedraw(s)
         \/ UNCHANGED logVars
  PROVE  /\ Advances(r)
         /\ ticker'[r].completed = ticker[r].completed
         /\ ticker'[r].emitted = ticker[r].emitted
         /\ UNCHANGED <<mutex, worker, lines>>
<1>. USE ThreadsAre
<1>0. /\ thread \in [Threads -> ThreadType] /\ ticker \in [Runs -> TickerType]
  BY Typed
<1>s. ASSUME thread' = thread PROVE Advances(r)
  BY <1>s DEF Advances
<1>m. ASSUME NEW t \in Threads, NEW pc \in ThreadStates, Move(t, pc), t # r PROVE Advances(r)
  BY <1>m, Moved DEF Advances
<1>n. ASSUME NEW s \in Runs, NEW pc \in ThreadStates, Move(s, pc),
             pc \in Before => thread[s].pc \in Before,
             pc # "running" => thread[s].pc # "running" \/ AtRest(s)
      PROVE  Advances(r)
  <2>1. CASE s = r
    BY <1>n, <2>1, Moved DEF Advances
  <2>2. CASE s # r
    BY <1>m, <1>n, <2>2
  <2>. QED
    BY <2>1, <2>2
<1>1. ASSUME NEW u \in Users, Enable(u) \/ Disable(u)
      PROVE  thread'[r] = thread[r] /\ UNCHANGED ticks
  <2>1. u # r
    BY ThreadsAssumption
  <2>2. PICK setting \in AllSettings \cup {Default} : Configure(u, setting)
    BY <1>1, SettingsAssumption DEF Enable, Disable
  <2>. QED
    BY <1>0, <2>1, <2>2 DEF Configure, ticks
<1>2. ASSUME NEW t \in Threads, Sync(t)
      PROVE  Advances(r) /\ UNCHANGED ticks
  <2>1. CASE ReadLevel(t)
    BY <1>0, <2>1 DEF ReadLevel, Advances, Before
  <2>2. CASE ReadPresentation(t)
    BY <1>0, <2>2 DEF ReadPresentation, Advances, Before
  <2>3. CASE SetLogLevel(t)
    <3>1. Move(t, "levelled") /\ thread[t].pc = "levelling" /\ UNCHANGED ticks
      BY <2>3 DEF SetLogLevel
    <3>2. CASE t \in Runs
      BY <1>n, <3>1, <3>2 DEF ThreadStates, Before
    <3>3. CASE t \notin Runs
      BY <1>m, <3>1, <3>3 DEF ThreadStates
    <3>. QED
      BY <3>1, <3>2, <3>3
  <2>4. CASE SetProgress(t)
    <3>1. thread[t].pc = "arming" /\ UNCHANGED ticks
      BY <2>4 DEF SetProgress
    <3>2. CASE t \in Runs
      <4>1. Move(t, "armed")
        BY <2>4, <3>2 DEF SetProgress
      <4>. QED
        BY <1>n, <3>1, <3>2, <4>1 DEF ThreadStates, Before
    <3>3. CASE t \notin Runs
      <4>1. Move(t, "idle")
        BY <2>4, <3>3 DEF SetProgress
      <4>. QED
        BY <1>m, <3>1, <3>3, <4>1 DEF ThreadStates
    <3>. QED
      BY <3>2, <3>3
  <2>. QED
    BY <1>2, <2>1, <2>2, <2>3, <2>4 DEF Sync
<1>3. ASSUME NEW u \in Users, InstallHandler(u) \/ DropRuns(u) \/ Dropped(u)
      PROVE  Advances(r) /\ UNCHANGED ticks
  <2>1. u # r
    BY ThreadsAssumption
  <2>2. /\ Move(u, "dropping") \/ Move(u, "closing") \/ Move(u, "syncing")
        /\ UNCHANGED ticks
    BY <1>3 DEF InstallHandler, DropRuns, Dropped
  <2>. QED
    BY <1>m, <2>1, <2>2 DEF ThreadStates
<1>4. ASSUME NEW t \in Threads, NEW s \in Runs, SignalClose(t, s) \/ CloseBar(t, s)
      PROVE  UNCHANGED thread /\ UNCHANGED ticks
  BY <1>4 DEF SignalClose, CloseBar
<1>5. ASSUME NEW s \in Runs, Begin(s) PROVE Advances(r) /\ UNCHANGED ticks
  BY <1>0, <1>5 DEF Begin, Advances, Before
<1>6. ASSUME NEW s \in Runs, ArmTicker(s)
      PROVE  /\ Advances(r) /\ UNCHANGED <<mutex, worker, lines>>
             /\ ticker'[r].completed = ticker[r].completed
             /\ ticker'[r].emitted = ticker[r].emitted
  <2>1. /\ thread[s].pc = "armed" /\ UNCHANGED <<mutex, worker, lines>>
        /\ Move(s, "starting") \/ Move(s, "running")
    BY <1>6 DEF ArmTicker
  <2>2. Advances(r)
    BY <1>n, <2>1 DEF ThreadStates, Before
  <2> DEFINE armed == Total >= Minimum /\ (threshold \/ progress)
  <2>3. ticker' = [ticker EXCEPT ![s].armed = armed]
    BY <1>6 DEF ArmTicker
  <2> HIDE DEF armed
  <2>4. ticker[r] \in TickerType /\ ticker[s] \in TickerType
    BY <1>0
  <2>5. ticker'[r].completed = ticker[r].completed /\ ticker'[r].emitted = ticker[r].emitted
    BY <1>0, <2>3, <2>4 DEF TickerType
  <2>. QED
    BY <2>1, <2>2, <2>5
<1>7. ASSUME NEW s \in Runs, StartRead(s) \/ StartOpen(s)
      PROVE  Advances(r) /\ UNCHANGED ticks
  <2>1. /\ thread[s].pc \in {"starting", "opening"} /\ UNCHANGED ticks
        /\ Move(s, "opening") \/ Move(s, "running")
    BY <1>7 DEF StartRead, StartOpen
  <2>. QED
    BY <1>n, <2>1 DEF ThreadStates, Before
<1>8. ASSUME NEW s \in Runs, EndBar(s) \/ EndedRun(s) PROVE Advances(r) /\ UNCHANGED ticks
  <2>1. /\ thread[s].pc \in {"ending", "closing"} /\ UNCHANGED ticks
        /\ Move(s, "closing") \/ Move(s, "over")
    BY <1>8 DEF EndBar, EndedRun
  <2>. QED
    BY <1>n, <2>1 DEF ThreadStates, Before
<1>9. ASSUME NEW s \in Runs, Finish(s) PROVE Advances(r) /\ UNCHANGED ticks
  <2>1. /\ AtRest(s) /\ UNCHANGED ticks
        /\ Move(s, "ending") \/ Move(s, "over")
    BY <1>9 DEF Finish, AtRest
  <2>. QED
    BY <1>n, <2>1 DEF ThreadStates, Before
<1>10. ASSUME NEW s \in Runs, Redraw(s) \/ Redrawn(s) \/ StopRedraw(s)
       PROVE  UNCHANGED thread /\ UNCHANGED ticks
  BY <1>10 DEF Redraw, Redrawn, StopRedraw
<1>11. UNCHANGED logVars => UNCHANGED thread /\ UNCHANGED ticks
  BY DEF logVars
<1>12. ASSUME UNCHANGED ticks
       PROVE  /\ ticker'[r].completed = ticker[r].completed
              /\ ticker'[r].emitted = ticker[r].emitted
              /\ UNCHANGED <<mutex, worker, lines>>
  BY <1>12 DEF ticks
<1>13. ASSUME thread'[r] = thread[r] PROVE Advances(r)
  BY <1>13 DEF Advances
<1>14. ASSUME NEW u \in Users, Enable(u) \/ Disable(u) \/ Reconfigure(u)
       PROVE  Advances(r) /\ UNCHANGED ticks
  BY <1>1, <1>2, <1>3, <1>4, <1>s, <1>13, <1>14 DEF Reconfigure
<1>15. ASSUME NEW s \in Runs, Begin(s) \/ Fan(s) \/ Finish(s), ~ArmTicker(s)
       PROVE  Advances(r) /\ UNCHANGED ticks
  BY <1>2, <1>4, <1>5, <1>7, <1>8, <1>9, <1>s, <1>15 DEF Fan
<1>. QED
  BY <1>6, <1>10, <1>11, <1>12, <1>14, <1>15, <1>s

\* A worker's step keeps the invariant of its own run, and leaves the others alone.
LEMMA TickKeeps ==
  ASSUME LogTypeOK, NEW r \in Runs, NEW w \in Workers, TickInv(r), Tick(r, w)
  PROVE  TickInv(r)'
<1>0. /\ ticker \in [Runs -> TickerType]
      /\ worker \in [Runs -> [Workers -> WorkerType]]
      /\ Total \in Nat /\ ticker[r].completed \in Nat /\ ticker[r].emitted \in Nat
  BY Typed, TotalAssumption DEF TickerType, Units
<1> DEFINE done == ticker[r].completed + 1
<1>1. /\ thread[r].pc = "running" /\ thread' = thread
      /\ worker[r][w].pc = "idle"
      /\ done <= Total
      /\ ticker' = [ticker EXCEPT ![r].completed = done]
      /\ UNCHANGED <<mutex, lines>>
  BY DEF Tick
<1>2. IF done % Step = 0 \/ done = Total
        THEN worker' = [worker EXCEPT ![r][w] = [pc |-> "waiting", done |-> done]]
        ELSE worker' = worker
  BY DEF Tick
<1>3. done \in Nat /\ done = ticker[r].completed + 1
  BY <1>0
<1> HIDE DEF done
<1>4. ticker'[r].completed = done /\ ticker'[r].emitted = ticker[r].emitted
  BY <1>0, <1>1 DEF TickerType
<1>5. \A v \in Workers : v # w => worker'[r][v] = worker[r][v]
  BY <1>0, <1>2
<1>6. \/ worker'[r][w] = [pc |-> "waiting", done |-> done]
      \/ worker'[r][w] = worker[r][w] /\ done # Total
  BY <1>0, <1>2
<1>7. worker'[r][w].pc \in {"idle", "waiting"}
  BY <1>1, <1>6
<1>8. Delivering(r)' <=> Delivering(r)
  BY <1>1, <1>5, <1>7 DEF Delivering
<1>9. \A v \in Workers : worker'[r][v].pc # "idle" => worker'[r][v].done <= done
  <2>. SUFFICES ASSUME NEW v \in Workers, worker'[r][v].pc # "idle" PROVE worker'[r][v].done <= done
    OBVIOUS
  <2>1. CASE v = w
    BY <1>1, <1>3, <1>6, <2>1
  <2>2. CASE v # w
    <3>1. worker[r][v].done <= ticker[r].completed /\ worker[r][v].done \in Nat
      BY <1>0, <1>5, <2>2 DEF TickInv, WorkerType, Units
    <3>. QED
      BY <1>0, <1>3, <1>5, <2>2, <3>1
  <2>. QED
    BY <2>1, <2>2
<1>10. \A v \in Workers : worker'[r][v].pc \in {"holding", "delivering"} => mutex'[r] = {v}
  BY <1>1, <1>5, <1>7 DEF TickInv
<1>11. done = Total => \E v \in Workers : worker'[r][v].pc # "idle" /\ worker'[r][v].done = Total
  BY <1>6
<1>12. ticker[r].emitted <= done
  BY <1>0, <1>3 DEF TickInv
<1>. QED
  BY <1>1, <1>4, <1>8, <1>9, <1>10, <1>11, <1>12 DEF TickInv, Before

\* What the four steps under the lock leave in the ticker.
LEMMA WorkKeeps ==
  ASSUME LogTypeOK, NEW r \in Runs, NEW w \in Workers, TickInv(r), Work(r, w)
  PROVE  TickInv(r)'
<1>0. /\ ticker \in [Runs -> TickerType]
      /\ worker \in [Runs -> [Workers -> WorkerType]]
      /\ mutex \in [Runs -> SUBSET Workers] /\ lines \in [Runs -> Units]
      /\ Total \in Nat /\ Step \in Nat
      /\ ticker[r].completed \in Nat /\ ticker[r].emitted \in Nat /\ lines[r] \in Nat
      /\ worker[r][w].done \in Nat
      /\ ticker[r].emitted <= Total /\ lines[r] <= Total
  BY Typed, TotalAssumption, StepNat DEF TickerType, WorkerType, Units
<1>1. worker[r][w].pc # "idle"
  BY DEF Work, LockTicker, EmitBoundary, Deliver, UnlockTicker
<1>2. thread[r].pc = "running" /\ thread' = thread
  BY <1>1 DEF TickInv, AtRest, Work, LockTicker, EmitBoundary, Deliver, UnlockTicker
<1>3. \A v \in Workers : v # w => worker'[r][v] = worker[r][v]
  BY <1>0 DEF Work, LockTicker, EmitBoundary, Deliver, UnlockTicker
<1>4. worker'[r][w].done = worker[r][w].done
  BY <1>0, SMTT(30) DEF Work, LockTicker, EmitBoundary, Deliver, UnlockTicker, WorkerType
<1>5. worker[r][w].done <= ticker[r].completed
  BY <1>1 DEF TickInv
<1>6. \A v \in Workers : worker'[r][v].pc # "idle" => worker'[r][v].done <= ticker[r].completed
  BY <1>3, <1>4, <1>5 DEF TickInv
<1>7. CASE LockTicker(r, w)
  <2>1. /\ worker[r][w].pc = "waiting" /\ worker'[r][w].pc = "holding"
        /\ mutex[r] = {} /\ mutex'[r] = {w} /\ UNCHANGED <<ticker, lines>>
    BY <1>0, <1>7 DEF LockTicker, WorkerType
  <2>2. \A v \in Workers : v # w => worker'[r][v].pc \notin {"holding", "delivering"}
    BY <1>3, <2>1 DEF TickInv
  <2>3. Delivering(r)' <=> Delivering(r)
    BY <1>3, <2>1 DEF Delivering
  <2>4. (\E v \in Workers : worker[r][v].pc # "idle" /\ worker[r][v].done = Total)
          => \E v \in Workers : worker'[r][v].pc # "idle" /\ worker'[r][v].done = Total
    BY <1>3, <1>4, <2>1
  <2>. QED
    BY <1>2, <1>6, <2>1, <2>2, <2>3, <2>4 DEF TickInv, Before
<1>8. CASE EmitBoundary(r, w)
  <2> DEFINE next == Min2(ticker[r].emitted + Step, Total)
  <2>1. /\ worker[r][w].pc = "holding" /\ worker'[r][w].pc = "delivering"
        /\ UNCHANGED <<mutex, lines>> /\ Pending(r, w)
    BY <1>0, <1>8 DEF EmitBoundary, WorkerType
  <2>2. ticker' = [ticker EXCEPT ![r].emitted = next]
    BY <1>0, <1>8 DEF EmitBoundary
  <2>3. /\ next <= worker[r][w].done
        /\ ticker[r].emitted <= next
    BY <1>0, <2>1 DEF Pending, Min2
  <2>4. next \in Nat
    BY <1>0 DEF Min2
  <2>5. \A v \in Workers : v # w => worker[r][v].pc \notin {"holding", "delivering"}
    BY <2>1 DEF TickInv
  <2>6. ~Delivering(r)
    BY <2>1, <2>5 DEF Delivering
  <2>7. lines[r] = ticker[r].emitted
    BY <2>6 DEF TickInv
  <2>8. next = Min2(lines[r] + Step, Total)
    BY <2>7
  <2> HIDE DEF next
  <2>9. ticker'[r].emitted = next /\ ticker'[r].completed = ticker[r].completed
    BY <1>0, <2>2 DEF TickerType
  <2>10. Delivering(r)'
    BY <2>1 DEF Delivering
  <2>11. next <= ticker[r].completed
    BY <1>0, <1>5, <2>3, <2>4
  <2>12. (\E v \in Workers : worker[r][v].pc # "idle" /\ worker[r][v].done = Total)
           => \E v \in Workers : worker'[r][v].pc # "idle" /\ worker'[r][v].done = Total
    BY <1>3, <1>4, <2>1
  <2>13. ticker[r].emitted = Total => next = Total
    BY <1>0, <2>3, <2>8, <2>4 DEF Min2
  <2>14. \A v \in Workers : worker'[r][v].pc \in {"holding", "delivering"} => mutex'[r] = {v}
    BY <1>3, <2>1, <2>5 DEF TickInv
  <2>15. lines'[r] <= ticker'[r].emitted /\ ticker'[r].emitted = Min2(lines'[r] + Step, Total)
    BY <2>1, <2>3, <2>7, <2>8, <2>9
  <2>. QED
    BY <1>2, <1>6, <2>9, <2>10, <2>11, <2>12, <2>13, <2>14, <2>15 DEF TickInv, Before
<1>9. CASE Deliver(r, w)
  <2>1. /\ worker[r][w].pc = "delivering" /\ worker'[r][w].pc = "holding"
        /\ UNCHANGED <<mutex, ticker>> /\ lines'[r] = ticker[r].emitted
    BY <1>0, <1>9 DEF Deliver, WorkerType
  <2>2. \A v \in Workers : v # w => worker[r][v].pc \notin {"holding", "delivering"}
    BY <2>1 DEF TickInv
  <2>3. ~Delivering(r)'
    BY <1>3, <2>1, <2>2 DEF Delivering
  <2>4. (\E v \in Workers : worker[r][v].pc # "idle" /\ worker[r][v].done = Total)
          => \E v \in Workers : worker'[r][v].pc # "idle" /\ worker'[r][v].done = Total
    BY <1>3, <1>4, <2>1
  <2>5. \A v \in Workers : worker'[r][v].pc \in {"holding", "delivering"} => mutex'[r] = {v}
    BY <1>3, <2>1, <2>2 DEF TickInv
  <2>. QED
    BY <1>2, <1>6, <2>1, <2>3, <2>4, <2>5 DEF TickInv, Before
<1>10. CASE UnlockTicker(r, w)
  <2>1. /\ worker[r][w].pc = "holding" /\ worker'[r][w].pc = "idle"
        /\ UNCHANGED <<ticker, lines>> /\ ~Pending(r, w)
    BY <1>0, <1>10 DEF UnlockTicker, WorkerType
  <2>2. \A v \in Workers : v # w => worker[r][v].pc \notin {"holding", "delivering"}
    BY <2>1 DEF TickInv
  <2>3. ~Delivering(r)' /\ ~Delivering(r)
    BY <1>3, <2>1, <2>2 DEF Delivering
  <2>4. ASSUME worker[r][w].done = Total PROVE ticker[r].emitted = Total
    <3>1. Min2(worker[r][w].done, Total) = Total
      BY <2>4 DEF Min2
    <3>2. ~(ticker[r].emitted < Total)
      BY <2>1, <2>4, <3>1 DEF Pending
    <3>3. ticker[r].emitted \in Nat /\ Total \in Nat /\ ticker[r].emitted <= Total
      BY <1>0
    <3>. QED
      BY <3>2, <3>3
  <2>5. ticker[r].completed = Total =>
          \/ ticker[r].emitted = Total
          \/ \E v \in Workers : worker'[r][v].pc # "idle" /\ worker'[r][v].done = Total
    <3>. SUFFICES ASSUME ticker[r].completed = Total, ticker[r].emitted # Total
                  PROVE  \E v \in Workers : worker'[r][v].pc # "idle" /\ worker'[r][v].done = Total
      OBVIOUS
    <3>1. PICK v \in Workers : worker[r][v].pc # "idle" /\ worker[r][v].done = Total
      BY DEF TickInv
    <3>. QED
      BY <1>3, <2>4, <3>1
  <2>6. \A v \in Workers : worker'[r][v].pc \in {"holding", "delivering"} => mutex'[r] = {v}
    BY <1>3, <2>1, <2>2
  <2>. QED
    BY <1>2, <1>6, <2>1, <2>3, <2>5, <2>6 DEF TickInv, Before
<1>. QED
  BY <1>7, <1>8, <1>9, <1>10 DEF Work

LEMMA OthersKeep ==
  ASSUME LogTypeOK, NEW r \in Runs, TickInv(r), NEW s \in Runs, s # r, NEW w \in Workers,
         Tick(s, w) \/ Work(s, w)
  PROVE  TickInv(r)'
<1>0. /\ ticker \in [Runs -> TickerType] /\ mutex \in [Runs -> SUBSET Workers]
      /\ worker \in [Runs -> [Workers -> WorkerType]] /\ lines \in [Runs -> Units]
  BY Typed
<1>1. thread' = thread
  BY DEF Tick, Work, LockTicker, EmitBoundary, Deliver, UnlockTicker
<1>2. ticker'[r] = ticker[r]
  BY <1>0 DEF Tick, Work, LockTicker, EmitBoundary, Deliver, UnlockTicker
<1>3. worker'[r] = worker[r]
  BY <1>0 DEF Tick, Work, LockTicker, EmitBoundary, Deliver, UnlockTicker
<1>4. mutex'[r] = mutex[r] /\ lines'[r] = lines[r]
  BY <1>0 DEF Tick, Work, LockTicker, EmitBoundary, Deliver, UnlockTicker
<1>. QED
  BY <1>1, <1>2, <1>3, <1>4, TickFrame DEF Advances

LEMMA TickStep ==
  LogTypeOK /\ (\A r \in Runs : TickInv(r)) /\ [LogNext]_logVars => (\A r \in Runs : TickInv(r))'
<1>. SUFFICES ASSUME LogTypeOK, \A r \in Runs : TickInv(r), [LogNext]_logVars, NEW r \in Runs
              PROVE  TickInv(r)'
  OBVIOUS
<1>1. CASE \/ \E u \in Users : Enable(u) \/ Disable(u) \/ Reconfigure(u)
           \/ \E s \in Runs : Begin(s) \/ Fan(s) \/ Finish(s)
           \/ \E s \in Runs : Redraw(s) \/ Redrawn(s) \/ StopRedraw(s)
           \/ UNCHANGED logVars
  <2>1. /\ Advances(r)
        /\ ticker'[r].completed = ticker[r].completed
        /\ ticker'[r].emitted = ticker[r].emitted
        /\ UNCHANGED <<mutex, worker, lines>>
    BY <1>1, CallersAdvance
  <2>. QED
    BY <2>1, TickFrame
<1>2. ASSUME NEW s \in Runs, NEW w \in Workers, Tick(s, w) \/ Work(s, w)
      PROVE  TickInv(r)'
  <2>1. CASE s = r
    BY <1>2, <2>1, TickKeeps, WorkKeeps
  <2>2. CASE s # r
    BY <1>2, <2>2, OthersKeep
  <2>. QED
    BY <2>1, <2>2
<1>. QED
  BY <1>1, <1>2 DEF LogNext

LEMMA TickAlways == LogSpec => [](LogTypeOK /\ \A r \in Runs : TickInv(r))
<1>1. LogInit => LogTypeOK /\ \A r \in Runs : TickInv(r)
  BY TypeInit, TickInit
<1>2. (LogTypeOK /\ \A r \in Runs : TickInv(r)) /\ [LogNext]_logVars
        => (LogTypeOK /\ \A r \in Runs : TickInv(r))'
  BY TypeStep, TickStep
<1>. QED
  BY <1>1, <1>2, PTL DEF LogSpec

\* No line ever reports a unit that is not done.
THEOREM LinesAreTruthful == LogSpec => []LinesTruthful
<1>1. LogTypeOK /\ (\A r \in Runs : TickInv(r)) => LinesTruthful
  <2>. SUFFICES ASSUME LogTypeOK, NEW r \in Runs, TickInv(r) PROVE lines[r] <= ticker[r].completed
    BY DEF LinesTruthful
  <2>1. lines[r] \in Nat /\ ticker[r].emitted \in Nat /\ ticker[r].completed \in Nat
    BY Typed DEF TickerType, Units
  <2>2. lines[r] <= ticker[r].emitted
    BY <2>1 DEF TickInv
  <2>3. ticker[r].emitted <= ticker[r].completed
    BY DEF TickInv
  <2>. QED
    BY <2>1, <2>2, <2>3
<1>. QED
  BY <1>1, TickAlways, PTL

\* A fan-out that did all its units reported its total before its end event.
THEOREM TotalIsReported == LogSpec => []RunReported
<1>1. (\A r \in Runs : TickInv(r)) => RunReported
  BY DEF RunReported, TickInv, AtRest, Delivering
<1>. QED
  BY <1>1, TickAlways, PTL

\* Lines report every boundary in turn: none regresses, is repeated or skipped.
THEOREM LinesInOrder == LogSpec => LinesAdvance
<1>1. LogTypeOK /\ (\A r \in Runs : TickInv(r)) /\ [LogNext]_logVars
        => [\A r \in Runs : lines'[r] # lines[r] => lines'[r] = Min2(lines[r] + Step, Total)]_logVars
  <2>. SUFFICES ASSUME LogTypeOK, \A r \in Runs : TickInv(r), [LogNext]_logVars, NEW r \in Runs,
                       lines'[r] # lines[r]
                PROVE  lines'[r] = Min2(lines[r] + Step, Total)
    OBVIOUS
  <2>1. PICK s \in Runs, w \in Workers : Tick(s, w) \/ Work(s, w)
    BY CallersAdvance DEF LogNext
  <2>2. Deliver(s, w)
    BY <2>1 DEF Tick, Work, LockTicker, EmitBoundary, UnlockTicker
  <2>3. lines \in [Runs -> Units]
    BY Typed
  <2>4. s = r /\ lines'[r] = ticker[r].emitted
    BY <2>2, <2>3 DEF Deliver
  <2>5. Delivering(r)
    BY <2>2, <2>4 DEF Delivering, Deliver
  <2>. QED
    BY <2>4, <2>5 DEF TickInv
<1>. QED
  BY <1>1, TickAlways, PTL DEF LogSpec, LinesAdvance

----------------------------------------------------------------------------
(* The bars.                                                               *)

Dropping == \E u \in Users : thread[u].pc = "dropping"

Live == {"popped", "signalled"}

\* Who opens or closes bars holds _runs_lock, and a bar is taken from the open
\* ones by a thread that is closing.
LockInv ==
  /\ \A t \in Threads : thread[t].pc \in {"opening", "closing"} => held = {t}
  /\ \A r \in Runs : bar[r].pc \in Live => \E t \in Threads : thread[t].pc = "closing"

\* A run has a bar only between its start and its end, of the present setting or
\* about to be dropped; a redrawing thread has a bar to redraw.
BarInv(r) ==
  /\ thread[r].pc \in Before => bar[r].pc = "none"
  /\ bar[r].pc = "none" => bar[r].n = 0 /\ redraw[r] = "off"
  /\ thread[r].pc = "opening" /\ bar[r].under # installs => Dropping
  /\ bar[r].pc = "open" /\ bar[r].under # installs => Dropping
  /\ bar[r].pc = "open" => bar[r].n = lines[r]
  /\ thread[r].pc = "closing" => bar[r].pc \in Live \cup {"closed"}
  /\ thread[r].pc = "over" => bar[r].pc \in {"none", "closed"}
  /\ redraw[r] # "off" => bar[r].pc \in Live \cup {"open"}
  /\ thread[r].pc \in {"starting", "opening"} => ticker[r].armed
  /\ ~ticker[r].armed => bar[r].pc = "none"

BInv == LockInv /\ \A r \in Runs : BarInv(r)

LEMMA BarInit == LogInit => BInv
BY ThreadsAre DEF LogInit, BInv, LockInv, BarInv, NoBar, Live, Before

\* A step that leaves the bars, the settings and the lines as they are.
LEMMA QuietKeeps ==
  ASSUME BInv, UNCHANGED <<bars, installs, lines>>,
         \A t \in Threads : \A pc \in {"opening", "closing", "dropping"} :
           thread'[t].pc = pc <=> thread[t].pc = pc,
         \A r \in Runs : /\ thread'[r].pc \in Before => thread[r].pc \in Before
                         /\ thread'[r].pc = "over" => bar[r].pc \in {"none", "closed"}
                         /\ thread'[r].pc \in {"starting", "opening"} => ticker'[r].armed
                         /\ ~ticker'[r].armed => bar[r].pc = "none"
  PROVE  BInv'
<1>. USE ThreadsAre
<1>1. /\ UNCHANGED <<held, bar, redraw, installs, lines>>
      /\ Dropping' <=> Dropping
  BY DEF bars, Dropping
<1>2. LockInv'
  BY <1>1 DEF BInv, LockInv
<1>3. ASSUME NEW r \in Runs PROVE BarInv(r)'
  BY <1>1, <1>3 DEF BInv, BarInv
<1>. QED
  BY <1>2, <1>3 DEF BInv

\* Sync, Configure, Begin, ArmTicker and Finish are such steps, and so is a
\* worker's that reports nothing.
LEMMA CallersQuiet ==
  ASSUME LogTypeOK, \A r \in Runs : TickInv(r), BInv,
         \/ \E u \in Users : Enable(u) \/ Disable(u)
         \/ \E t \in Threads : Sync(t)
         \/ \E r \in Runs : Begin(r) \/ ArmTicker(r) \/ Finish(r)
         \/ \E r \in Runs, w \in Workers :
              Tick(r, w) \/ LockTicker(r, w) \/ EmitBoundary(r, w) \/ UnlockTicker(r, w)
         \/ UNCHANGED logVars
  PROVE  BInv'
<1>. USE ThreadsAre
<1>0. /\ thread \in [Threads -> ThreadType] /\ ticker \in [Runs -> TickerType]
  BY Typed
<1>i. \A r \in Runs : BarInv(r)
  BY DEF BInv
<1>a. ASSUME UNCHANGED <<bars, installs, lines>>, UNCHANGED ticker,
             NEW t \in Threads, \A s \in Threads : s # t => thread'[s] = thread[s],
             thread[t].pc \notin {"opening", "closing", "dropping"},
             thread'[t].pc \notin {"opening", "closing", "dropping", "over", "starting"},
             t \in Runs => (thread'[t].pc \in Before => thread[t].pc \in Before)
      PROVE  BInv'
  BY <1>a, <1>i, QuietKeeps DEF BarInv
<1>1. ASSUME NEW u \in Users, Enable(u) \/ Disable(u) PROVE BInv'
  <2>1. PICK setting \in AllSettings \cup {Default} : Configure(u, setting)
    BY <1>1, SettingsAssumption DEF Enable, Disable
  <2>2. /\ UNCHANGED <<bars, installs, lines>> /\ UNCHANGED ticker
        /\ u \notin Runs /\ thread[u].pc = "idle"
    BY <2>1, ThreadsAssumption DEF Configure, ticks
  <2>3. thread'[u].pc = "configuring" /\ \A s \in Threads : s # u => thread'[s] = thread[s]
    BY <1>0, <2>1 DEF Configure, ThreadType
  <2>. QED
    BY <1>a, <2>2, <2>3
<1>2. ASSUME NEW t \in Threads, Sync(t) PROVE BInv'
  <2>1. UNCHANGED <<bars, installs, lines>> /\ UNCHANGED ticker
    BY <1>2 DEF Sync, ReadLevel, SetLogLevel, ReadPresentation, SetProgress, ticks, config
  <2>2. \A s \in Threads : s # t => thread'[s] = thread[s]
    BY <1>0, <1>2 DEF Sync, ReadLevel, SetLogLevel, ReadPresentation, SetProgress, Move
  <2>3. thread[t].pc \in {"syncing", "levelling", "levelled", "arming"}
    BY <1>2 DEF Sync, ReadLevel, SetLogLevel, ReadPresentation, SetProgress
  <2>4. thread'[t].pc \in {"levelling", "levelled", "arming", "armed", "idle"}
    BY <1>0, <1>2 DEF Sync, ReadLevel, SetLogLevel, ReadPresentation, SetProgress, Move, ThreadType
  <2>. QED
    BY <1>a, <2>1, <2>2, <2>3, <2>4 DEF Before
<1>3. ASSUME NEW r \in Runs, Begin(r) PROVE BInv'
  <2>1. UNCHANGED <<bars, installs, lines>> /\ UNCHANGED ticker /\ thread[r].pc = "idle"
    BY <1>3 DEF Begin, ticks, config
  <2>2. thread'[r].pc = "syncing" /\ \A s \in Threads : s # r => thread'[s] = thread[s]
    BY <1>0, <1>3 DEF Begin, ThreadType
  <2>. QED
    BY <1>a, <2>1, <2>2 DEF Before
<1>4. ASSUME NEW r \in Runs, ArmTicker(r) PROVE BInv'
  <2> DEFINE armed == Total >= Minimum /\ (threshold \/ progress)
  <2>1. /\ UNCHANGED <<bars, installs, lines>> /\ thread[r].pc = "armed"
        /\ ticker' = [ticker EXCEPT ![r].armed = armed]
        /\ \/ armed /\ Move(r, "starting")
           \/ ~armed /\ Move(r, "running")
    BY <1>4 DEF ArmTicker, config
  <2> HIDE DEF armed
  <2>2. /\ \A s \in Threads : s # r => thread'[s] = thread[s]
        /\ \/ armed /\ thread'[r].pc = "starting"
           \/ ~armed /\ thread'[r].pc = "running"
    <3>1. CASE Move(r, "starting") /\ armed
      BY <3>1, Moved DEF ThreadStates
    <3>2. CASE Move(r, "running") /\ ~armed
      BY <3>2, Moved DEF ThreadStates
    <3>. QED
      BY <2>1, <3>1, <3>2
  <2>3. /\ ticker'[r].armed = armed
        /\ \A s \in Runs : s # r => ticker'[s] = ticker[s]
    BY <1>0, <2>1 DEF TickerType
  <2>4. bar[r].pc = "none"
    BY <1>i, <2>1 DEF BarInv, Before
  <2>. QED
    BY <1>i, <2>1, <2>2, <2>3, <2>4, QuietKeeps DEF BarInv, Before
<1>5. ASSUME NEW r \in Runs, Finish(r) PROVE BInv'
  <2>1. /\ UNCHANGED <<bars, installs, lines>> /\ UNCHANGED ticker /\ thread[r].pc = "running"
        /\ \/ ticker[r].armed /\ Move(r, "ending")
           \/ ~ticker[r].armed /\ Move(r, "over")
    BY <1>5 DEF Finish, ticks, config
  <2>2. /\ \A s \in Threads : s # r => thread'[s] = thread[s]
        /\ \/ thread'[r].pc = "ending"
           \/ thread'[r].pc = "over" /\ bar[r].pc = "none"
    BY <1>i, <2>1, Moved DEF ThreadStates, BarInv
  <2>. QED
    BY <1>i, <2>1, <2>2, QuietKeeps DEF BarInv, Before
<1>6. ASSUME NEW r \in Runs, NEW w \in Workers,
             Tick(r, w) \/ LockTicker(r, w) \/ EmitBoundary(r, w) \/ UnlockTicker(r, w)
      PROVE  BInv'
  <2>1. UNCHANGED <<config, thread, bars, lines>>
    BY <1>6 DEF Tick, LockTicker, EmitBoundary, UnlockTicker
  <2>2. \A s \in Runs : ticker'[s].armed = ticker[s].armed
    <3>1. \/ ticker' = ticker
          \/ \E n : ticker' = [ticker EXCEPT ![r].completed = n]
          \/ \E n : ticker' = [ticker EXCEPT ![r].emitted = n]
      BY <1>6 DEF Tick, LockTicker, EmitBoundary, UnlockTicker
    <3>. QED
      BY <1>0, <3>1 DEF TickerType
  <2>. QED
    BY <1>i, <2>1, <2>2, QuietKeeps DEF BarInv, config
<1>7. CASE UNCHANGED logVars
  BY <1>7, <1>i, QuietKeeps DEF BarInv, logVars, config, ticks
<1>. QED
  BY <1>1, <1>2, <1>3, <1>4, <1>5, <1>6, <1>7

\* The steps that touch bars or the settings they are drawn under.
LEMMA InstallKeeps ==
  ASSUME LogTypeOK, BInv, NEW u \in Users, InstallHandler(u)
  PROVE  BInv'
<1>. USE ThreadsAre
<1>1. /\ thread[u].pc = "configuring" /\ UNCHANGED <<held, bar, redraw, ticker, lines>>
      /\ Move(u, "dropping")
  BY DEF InstallHandler, bars, ticks
<1>2. thread'[u].pc = "dropping" /\ \A s \in Threads : s # u => thread'[s] = thread[s]
  BY <1>1, Moved DEF ThreadStates
<1>3. Dropping'
  BY <1>2 DEF Dropping
<1>4. LockInv'
  BY <1>1, <1>2 DEF BInv, LockInv
<1>5. ASSUME NEW r \in Runs PROVE BarInv(r)'
  BY <1>1, <1>2, <1>3, ThreadsAssumption DEF BInv, BarInv
<1>. QED
  BY <1>4, <1>5 DEF BInv

LEMMA DropKeeps ==
  ASSUME LogTypeOK, BInv, NEW u \in Users, DropRuns(u)
  PROVE  BInv'
<1>. USE ThreadsAre
<1>1. /\ thread[u].pc = "dropping" /\ held = {} /\ held' = {u}
      /\ UNCHANGED <<redraw, ticker, lines, installs>> /\ Move(u, "closing")
  BY DEF DropRuns, config, ticks
<1>2. thread'[u].pc = "closing" /\ \A s \in Threads : s # u => thread'[s] = thread[s]
  BY <1>1, Moved DEF ThreadStates
<1>3. \A t \in Threads : thread[t].pc \notin {"opening", "closing"}
  BY <1>1 DEF BInv, LockInv
<1>4. LockInv'
  BY <1>1, <1>2, <1>3 DEF BInv, LockInv
<1>5. ASSUME NEW r \in Runs PROVE BarInv(r)'
  <2>1. r # u /\ thread'[r] = thread[r]
    BY <1>2, ThreadsAssumption
  <2>2. bar[r] \in BarType
    BY Typed
  <2>3. /\ bar'[r].pc = IF bar[r].pc = "open" THEN "popped" ELSE bar[r].pc
        /\ bar'[r].n = bar[r].n
    BY <2>2 DEF DropRuns, BarType
  <2>. QED
    BY <1>1, <1>3, <2>1, <2>3 DEF BInv, BarInv, Live, Before
<1>. QED
  BY <1>4, <1>5 DEF BInv

LEMMA CloseKeeps ==
  ASSUME LogTypeOK, BInv, NEW t \in Threads, NEW s \in Runs, SignalClose(t, s) \/ CloseBar(t, s)
  PROVE  BInv'
<1>0. bar \in [Runs -> BarType]
  BY Typed
<1>1. /\ thread[t].pc = "closing" /\ UNCHANGED <<thread, held, redraw, ticker, lines, installs>>
      /\ bar[s].pc \in Live
  BY DEF SignalClose, CloseBar, config, ticks, Live
<1>2. \A r \in Runs : r # s => bar'[r] = bar[r]
  BY <1>0 DEF SignalClose, CloseBar
<1>3. \/ bar'[s].pc = "signalled"
      \/ bar'[s].pc = "closed" /\ redraw[s] = "off"
  BY <1>0 DEF SignalClose, CloseBar, BarType
<1>4. LockInv'
  BY <1>1, <1>2 DEF BInv, LockInv
<1>5. ASSUME NEW r \in Runs PROVE BarInv(r)'
  <2>1. Dropping' <=> Dropping
    BY <1>1 DEF Dropping
  <2>2. CASE r = s
    <3>1. bar[s].pc \notin {"none", "open", "closed"}
      BY <1>1 DEF Live
    <3>2. /\ thread[s].pc \notin Before \cup {"over"}
          /\ ticker[s].armed
      BY <3>1 DEF BInv, BarInv
    <3>3. CASE bar'[s].pc = "signalled"
      BY <1>1, <2>2, <3>2, <3>3 DEF BarInv, Live, Before
    <3>4. CASE bar'[s].pc = "closed" /\ redraw[s] = "off"
      BY <1>1, <2>2, <3>2, <3>4 DEF BarInv, Live, Before
    <3>. QED
      BY <1>3, <3>3, <3>4
  <2>3. CASE r # s
    BY <1>1, <1>2, <2>1, <2>3 DEF BInv, BarInv
  <2>. QED
    BY <2>2, <2>3
<1>. QED
  BY <1>4, <1>5 DEF BInv

LEMMA UnlockKeeps ==
  ASSUME LogTypeOK, BInv, NEW t \in Threads, Dropped(t) \/ EndedRun(t)
  PROVE  BInv'
<1>. USE ThreadsAre
<1>1. /\ thread[t].pc = "closing" /\ UNCHANGED <<bar, redraw, ticker, lines, installs>>
      /\ AllClosed
      /\ \/ t \in Users /\ Move(t, "syncing")
         \/ t \in Runs /\ Move(t, "over")
  BY DEF Dropped, EndedRun, config, ticks
<1>2. \A s \in Threads : s # t => thread'[s] = thread[s]
  BY <1>1, Moved DEF ThreadStates
<1>3. \/ t \in Users /\ thread'[t].pc = "syncing"
      \/ t \in Runs /\ thread'[t].pc = "over"
  BY <1>1, Moved DEF ThreadStates
<1>4. \A s \in Threads : s # t => thread[s].pc \notin {"opening", "closing"}
  BY <1>1 DEF BInv, LockInv
<1>5. \A r \in Runs : bar[r].pc \notin Live
  BY <1>1 DEF AllClosed, Live
<1>6. LockInv'
  BY <1>1, <1>2, <1>3, <1>4, <1>5 DEF LockInv
<1>7. Dropping => Dropping'
  BY <1>1, <1>2 DEF Dropping
<1>8. ASSUME NEW r \in Runs PROVE BarInv(r)'
  <2>1. CASE r = t
    BY <1>1, <1>3, <1>5, <1>7, <2>1, ThreadsAssumption DEF BInv, BarInv, Live, Before
  <2>2. CASE r # t
    BY <1>1, <1>2, <1>7, <2>2 DEF BInv, BarInv
  <2>. QED
    BY <2>1, <2>2
<1>. QED
  BY <1>6, <1>8 DEF BInv

LEMMA StartKeeps ==
  ASSUME LogTypeOK, \A s \in Runs : TickInv(s), BInv, NEW r \in Runs, StartRead(r) \/ StartOpen(r)
  PROVE  BInv'
<1>. USE ThreadsAre
<1>0. bar \in [Runs -> BarType] /\ redraw \in [Runs -> {"off", "waiting", "refreshing"}]
  BY Typed
<1>1. /\ thread[r].pc \in {"starting", "opening"}
      /\ UNCHANGED <<ticker, lines, installs>>
      /\ Move(r, "opening") \/ Move(r, "running")
  BY DEF StartRead, StartOpen, config, ticks
<1>2. \A s \in Threads : s # r => thread'[s] = thread[s]
  BY <1>1, Moved DEF ThreadStates
<1>3. Dropping => Dropping'
  BY <1>1, <1>2, ThreadsAssumption DEF Dropping
<1>4. /\ \A s \in Runs : s # r => bar'[s] = bar[s]
      /\ \A s \in Runs : s # r => redraw'[s] = redraw[s]
  BY <1>0 DEF StartRead, StartOpen
<1>5. ASSUME NEW s \in Runs, s # r PROVE BarInv(s)'
  BY <1>1, <1>2, <1>3, <1>4, <1>5 DEF BInv, BarInv
<1>6. bar[r].pc = "none" /\ bar[r].n = 0 /\ redraw[r] = "off" /\ ticker[r].armed /\ lines[r] = 0
  BY <1>1 DEF BInv, BarInv, TickInv, Before
<1>7. CASE StartRead(r)
  <2>1. held = {} /\ redraw' = redraw /\ thread[r].pc = "starting"
    BY <1>7 DEF StartRead
  <2>2. \A t \in Threads : thread[t].pc \notin {"opening", "closing"}
    BY <2>1 DEF BInv, LockInv
  <2>3. \A s \in Runs : bar[s].pc \notin Live
    BY <2>2 DEF BInv, LockInv
  <2>4. CASE Draws
    <3>1. held' = {r} /\ thread'[r].pc = "opening"
      BY <1>7, <2>4, Moved DEF StartRead, ThreadStates
    <3>2. bar'[r].pc = "none" /\ bar'[r].n = 0 /\ bar'[r].under = installs
      BY <1>0, <1>6, <1>7, <2>4 DEF StartRead, BarType
    <3>3. LockInv'
      BY <1>2, <1>4, <2>2, <2>3, <3>1, <3>2 DEF LockInv, Live
    <3>4. BarInv(r)'
      BY <1>1, <1>6, <2>1, <3>1, <3>2 DEF BarInv, Live
    <3>. QED
      BY <1>5, <3>3, <3>4 DEF BInv
  <2>5. CASE ~Draws
    <3>1. held' = held /\ bar' = bar /\ thread'[r].pc = "running"
      BY <1>7, <2>5, Moved DEF StartRead, ThreadStates
    <3>2. LockInv'
      BY <1>2, <2>2, <2>3, <3>1 DEF LockInv
    <3>3. BarInv(r)'
      BY <1>1, <1>6, <2>1, <3>1 DEF BarInv, Before
    <3>. QED
      BY <1>5, <3>2, <3>3 DEF BInv
  <2>. QED
    BY <2>4, <2>5
<1>8. CASE StartOpen(r)
  <2>1. held' = {} /\ thread[r].pc = "opening" /\ thread'[r].pc = "running"
    BY <1>8, Moved DEF StartOpen, ThreadStates
  <2>2. \A s \in Threads : s # r => thread[s].pc \notin {"opening", "closing"}
    BY <2>1 DEF BInv, LockInv
  <2>3. \A s \in Runs : bar[s].pc \notin Live
    BY <2>1, <2>2 DEF BInv, LockInv
  <2>4. bar'[r].pc = "open" /\ bar'[r].n = bar[r].n /\ bar'[r].under = bar[r].under
    BY <1>0, <1>8 DEF StartOpen, BarType
  <2>5. LockInv'
    BY <1>2, <1>4, <2>1, <2>2, <2>3, <2>4 DEF LockInv, Live
  <2>6. BarInv(r)'
    BY <1>1, <1>3, <1>6, <2>1, <2>4 DEF BInv, BarInv, Before, Live
  <2>. QED
    BY <1>5, <2>5, <2>6 DEF BInv
<1>. QED
  BY <1>7, <1>8

LEMMA RedrawKeeps ==
  ASSUME LogTypeOK, BInv, NEW s \in Runs, Redraw(s) \/ Redrawn(s) \/ StopRedraw(s)
  PROVE  BInv'
<1>0. redraw \in [Runs -> {"off", "waiting", "refreshing"}]
  BY Typed
<1>1. /\ UNCHANGED <<thread, held, bar, ticker, lines, installs>>
      /\ \A r \in Runs : r # s => redraw'[r] = redraw[r]
      /\ redraw[s] # "off"
  BY <1>0 DEF Redraw, Redrawn, StopRedraw, config, ticks
<1>2. LockInv' /\ (Dropping' <=> Dropping)
  BY <1>1 DEF BInv, LockInv, Dropping
<1>3. ASSUME NEW r \in Runs PROVE BarInv(r)'
  BY <1>1, <1>2, <1>3 DEF BInv, BarInv
<1>. QED
  BY <1>2, <1>3 DEF BInv

LEMMA DeliverKeeps ==
  ASSUME LogTypeOK, BInv, NEW s \in Runs, TickInv(s), NEW w \in Workers, Deliver(s, w)
  PROVE  BInv'
<1>0. /\ bar \in [Runs -> BarType] /\ lines \in [Runs -> Units] /\ ticker \in [Runs -> TickerType]
      /\ lines[s] \in Nat /\ ticker[s].emitted \in Nat
  BY Typed DEF Units, TickerType
<1>1. /\ UNCHANGED <<thread, held, redraw, ticker, installs>>
      /\ \A r \in Runs : r # s => bar'[r] = bar[r] /\ lines'[r] = lines[r]
      /\ lines'[s] = ticker[s].emitted
  BY <1>0 DEF Deliver, config
<1>2. bar'[s].pc = bar[s].pc /\ bar'[s].under = bar[s].under
  BY <1>0 DEF Deliver, BarType
<1>3. bar[s].pc # "open" => bar'[s].n = bar[s].n
  BY <1>0 DEF Deliver
<1>4. ASSUME bar[s].pc = "open" PROVE bar'[s].n = lines'[s]
  <2>1. bar'[s].n = Max2(bar[s].n, ticker[s].emitted)
    BY <1>0, <1>4 DEF Deliver, BarType
  <2>2. bar[s].n = lines[s]
    BY <1>4 DEF BInv, BarInv
  <2>3. lines[s] <= ticker[s].emitted
    BY DEF TickInv, Delivering, Deliver
  <2>. QED
    BY <1>0, <1>1, <2>1, <2>2, <2>3 DEF Max2
<1>5. LockInv' /\ (Dropping' <=> Dropping)
  BY <1>1, <1>2 DEF BInv, LockInv, Dropping
<1>6. ASSUME NEW r \in Runs PROVE BarInv(r)'
  <2>1. CASE r = s
    BY <1>1, <1>2, <1>3, <1>4, <1>5, <2>1 DEF BInv, BarInv
  <2>2. CASE r # s
    BY <1>1, <1>5, <2>2 DEF BInv, BarInv
  <2>. QED
    BY <2>1, <2>2
<1>. QED
  BY <1>5, <1>6 DEF BInv

LEMMA EndKeeps ==
  ASSUME LogTypeOK, BInv, NEW r \in Runs, EndBar(r)
  PROVE  BInv'
<1>. USE ThreadsAre
<1>0. bar \in [Runs -> BarType]
  BY Typed
<1>1. /\ thread[r].pc = "ending" /\ held = {}
      /\ UNCHANGED <<redraw, ticker, lines, installs>>
      /\ Move(r, "closing") \/ Move(r, "over")
  BY DEF EndBar, config, ticks
<1>2. \A s \in Threads : s # r => thread'[s] = thread[s]
  BY <1>1, Moved DEF ThreadStates
<1>3. Dropping => Dropping'
  BY <1>1, <1>2, ThreadsAssumption DEF Dropping
<1>4. \A s \in Runs : s # r => bar'[s] = bar[s]
  BY <1>0 DEF EndBar
<1>5. ASSUME NEW s \in Runs, s # r PROVE BarInv(s)'
  BY <1>1, <1>2, <1>3, <1>4, <1>5 DEF BInv, BarInv
<1>6. /\ \A t \in Threads : thread[t].pc \notin {"opening", "closing"}
      /\ \A s \in Runs : bar[s].pc \notin Live
  BY <1>1 DEF BInv, LockInv
<1>7. CASE bar[r].pc = "open"
  <2>1. held' = {r} /\ thread'[r].pc = "closing" /\ bar'[r].pc = "popped" /\ bar'[r].n = bar[r].n
    BY <1>0, <1>7, Moved DEF EndBar, ThreadStates, BarType
  <2>2. LockInv'
    BY <1>2, <1>6, <2>1 DEF LockInv
  <2>3. BarInv(r)'
    BY <1>1, <1>7, <2>1 DEF BInv, BarInv, Live, Before
  <2>. QED
    BY <1>5, <2>2, <2>3 DEF BInv
<1>8. CASE bar[r].pc # "open"
  <2>1. held' = held /\ bar' = bar /\ thread'[r].pc = "over"
    BY <1>8, Moved DEF EndBar, ThreadStates
  <2>2. LockInv'
    BY <1>2, <1>6, <2>1 DEF LockInv
  <2>3. bar[r].pc \in {"none", "closed"}
    BY <1>0, <1>6, <1>8 DEF BarType, Live
  <2>4. BarInv(r)'
    BY <1>1, <1>8, <2>1, <2>3 DEF BInv, BarInv, Before
  <2>. QED
    BY <1>5, <2>2, <2>4 DEF BInv
<1>. QED
  BY <1>7, <1>8

LEMMA BarStep ==
  LogTypeOK /\ (\A r \in Runs : TickInv(r)) /\ BInv /\ [LogNext]_logVars => BInv'
BY CallersQuiet, InstallKeeps, DropKeeps, CloseKeeps, UnlockKeeps, StartKeeps, RedrawKeeps,
   DeliverKeeps, EndKeeps, ThreadsAre DEF LogNext, Reconfigure, Fan, Work

LEMMA BarAlways == LogSpec => [](LogTypeOK /\ BInv)
<1>1. LogInit => BInv
  BY BarInit
<1>2. LogTypeOK /\ (\A r \in Runs : TickInv(r)) /\ BInv /\ [LogNext]_logVars => BInv'
  BY BarStep
<1>. QED
  BY <1>1, <1>2, TickAlways, PTL DEF LogSpec

\* An open bar stands where the fan-out's last line stands.
THEOREM OpenBarsStand == LogSpec => []BarStands
<1>1. BInv => BarStands
  BY DEF BInv, BarInv, BarStands
<1>. QED
  BY <1>1, BarAlways, PTL

\* No start slips a bar of an old setting past the reconfiguration that drops it.
THEOREM NoBarOfAnOldSetting == LogSpec => []BarsFollowSetting
<1>1. BInv => BarsFollowSetting
  BY DEF BInv, BarInv, BarsFollowSetting, Dropping
<1>. QED
  BY <1>1, BarAlways, PTL

\* No bar outlives its run, and none is redrawn once closed.
THEOREM BarsAreClosed == LogSpec => []BarsClosed
<1>1. BInv => BarsClosed
  BY DEF BInv, BarInv, BarsClosed, Live
<1>. QED
  BY <1>1, BarAlways, PTL

\* Whichever worker reaches a boundary first, the lines are true, and the last of
\* a complete run is its total.
THEOREM LinesAreExact == LogSpec => []LinesExact
<1>. QED
  BY LinesAreTruthful, TotalIsReported, PTL DEF LinesExact

\* No reconfiguration, closer or redrawing thread leaves a stray bar.
THEOREM BarsAreExact == LogSpec => []BarsExact
<1>. QED
  BY NoBarOfAnOldSetting, BarsAreClosed, PTL DEF BarsExact
=============================================================================
