------------------------------ MODULE Progress ------------------------------
(***************************************************************************)
(* Progress of fan-outs: the ticker their worker threads share             *)
(* (cafein-py logging.rs), the bars Python draws for it and the calls that *)
(* reconfigure both (_log.py enable_logging, disable_logging, sync).       *)
(*                                                                         *)
(* A step is what runs without releasing the GIL or a lock that another    *)
(* thread waits for.  Collectors, pyrosm reads and the text of the lines   *)
(* are left out; a line is the number of units it reports.                 *)
(***************************************************************************)
EXTENDS Integers

CONSTANTS
  Runs,        \* fan-outs, and the threads that call them
  Users,       \* threads that reconfigure logging
  Workers,     \* the worker threads of a fan-out
  Total,       \* the units of a fan-out
  Minimum,     \* fan-outs of fewer units never tick
  Lines,       \* the lines of a fan-out, 20 in the code
  Settings,    \* bound: what enable_logging is called with, out of AllSettings
  OwnInfo,     \* whether the user's own level lets INFO records through
  MaxInstalls  \* bound: the reconfigurations

AllSettings == [info : BOOLEAN, handler : {"bar", "other"}]

ASSUME ThreadsAssumption == Runs \cap Users = {}
ASSUME TotalAssumption == Total \in Nat \ {0} /\ Minimum \in Nat \ {0}
ASSUME LinesAssumption == Lines \in Nat \ {0}
ASSUME SettingsAssumption == Settings \subseteq AllSettings /\ OwnInfo \in BOOLEAN
ASSUME MaxInstallsAssumption == MaxInstalls \in Nat

VARIABLES
  level,      \* whether the loggers let INFO through
  handler,    \* the handler enable_logging installed
  installs,   \* history: the handlers installed or removed so far
  threshold,  \* THRESHOLD: whether the bridge delivers INFO
  progress,   \* PROGRESS
  thread,     \* where each calling thread is, and what it read (began: history)
  held,       \* the thread that holds _runs_lock, or none
  bar,        \* the bar of each run
  redraw,     \* the thread that redraws it
  ticker,     \* armed, completed and emitted of each run
  mutex,      \* who holds the ticker's lock, or none
  worker,     \* where each worker is
  lines       \* history: the last line of each run

config == <<level, handler, installs, threshold, progress>>
bars == <<held, bar, redraw>>
ticks == <<ticker, mutex, worker, lines>>
logVars == <<config, thread, bars, ticks>>

Threads == Runs \cup Users
Units == 0..Total
Default == [info |-> OwnInfo, handler |-> "none"]

\* _presentation: the default is bars on stderr.
Draws == handler # "other"

NoBar == [pc |-> "none", n |-> 0, under |-> 0]

Step == (Total + Lines - 1) \div Lines

Move(t, pc) == thread' = [thread EXCEPT ![t].pc = pc]

----------------------------------------------------------------------------
(* Reconfiguration.                                                        *)

\* enable_logging and disable_logging set the level, then the handler, under _lock.
Configure(u, setting) ==
  /\ thread[u].pc = "idle"
  /\ \A v \in Users : thread[v].pc # "configuring"
  /\ installs + 1 <= MaxInstalls
  /\ level' = setting.info
  /\ thread' = [thread EXCEPT ![u].pc = "configuring", ![u].setting = setting]
  /\ UNCHANGED <<handler, installs, threshold, progress, bars, ticks>>

InstallHandler(u) ==
  /\ thread[u].pc = "configuring"
  /\ handler' = thread[u].setting.handler
  /\ installs' = installs + 1
  /\ Move(u, "dropping")
  /\ UNCHANGED <<level, threshold, progress, bars, ticks>>

Enable(u) == \E setting \in Settings : Configure(u, setting)

Disable(u) == handler # "none" /\ Configure(u, Default)

\* _drop_runs: take the lock and the open bars ...
DropRuns(u) ==
  /\ thread[u].pc = "dropping"
  /\ held = {}
  /\ held' = {u}
  /\ bar' = [r \in Runs |-> IF bar[r].pc = "open" THEN [bar[r] EXCEPT !.pc = "popped"]
                                                  ELSE bar[r]]
  /\ Move(u, "closing")
  /\ UNCHANGED <<config, redraw, ticks>>

\* ... and close them one after the other.  A run's end closes its own bar
\* through the same close: it stops the redrawing, waits for it, closes.
SignalClose(t, r) ==
  /\ thread[t].pc = "closing"
  /\ bar[r].pc = "popped"
  /\ \A s \in Runs : bar[s].pc # "signalled"
  /\ bar' = [bar EXCEPT ![r].pc = "signalled"]
  /\ UNCHANGED <<config, thread, held, redraw, ticks>>

\* Mutant: the bar is closed while its thread may still redraw it.
CloseBarUnjoined(t, r) ==
  /\ thread[t].pc = "closing"
  /\ bar[r].pc = "signalled"
  /\ bar' = [bar EXCEPT ![r].pc = "closed"]
  /\ UNCHANGED <<config, thread, held, redraw, ticks>>

CloseBar(t, r) ==
  /\ thread[t].pc = "closing"
  /\ bar[r].pc = "signalled"
  /\ redraw[r] = "off"
  /\ bar' = [bar EXCEPT ![r].pc = "closed"]
  /\ UNCHANGED <<config, thread, held, redraw, ticks>>

AllClosed == \A r \in Runs : bar[r].pc \notin {"popped", "signalled"}

Dropped(u) ==
  /\ u \in Users
  /\ thread[u].pc = "closing"
  /\ AllClosed
  /\ held' = {}
  /\ Move(u, "syncing")
  /\ UNCHANGED <<config, bar, redraw, ticks>>

\* sync: the level read and stored, then the presentation read and stored, with
\* no lock.  A computer syncs before it runs, a reconfiguration after.
ReadLevel(t) ==
  /\ thread[t].pc = "syncing"
  /\ thread' = [thread EXCEPT ![t].pc = "levelling", ![t].read = level]
  /\ UNCHANGED <<config, bars, ticks>>

SetLogLevel(t) ==
  /\ thread[t].pc = "levelling"
  /\ threshold' = thread[t].read
  /\ Move(t, "levelled")
  /\ UNCHANGED <<level, handler, installs, progress, bars, ticks>>

ReadPresentation(t) ==
  /\ thread[t].pc = "levelled"
  /\ thread' = [thread EXCEPT ![t].pc = "arming", ![t].read = Draws]
  /\ UNCHANGED <<config, bars, ticks>>

SetProgress(t) ==
  /\ thread[t].pc = "arming"
  /\ progress' = thread[t].read
  /\ Move(t, IF t \in Runs THEN "armed" ELSE "idle")
  /\ UNCHANGED <<level, handler, installs, threshold, bars, ticks>>

----------------------------------------------------------------------------
(* A fan-out, from its computer's sync to the ticker's end.                *)

Reconfiguring == \E u \in Users : thread[u].pc # "idle"

Begin(r) ==
  /\ thread[r].pc = "idle"
  /\ thread' = [thread EXCEPT ![r].pc = "syncing",
                   ![r].began = IF Reconfiguring THEN {} ELSE {installs}]
  /\ UNCHANGED <<config, bars, ticks>>

\* ProgressTicker::armed_from
ArmTicker(r) ==
  LET armed == Total >= Minimum /\ (threshold \/ progress)
  IN /\ thread[r].pc = "armed"
     /\ ticker' = [ticker EXCEPT ![r].armed = armed]
     /\ Move(r, IF armed THEN "starting" ELSE "running")
     /\ UNCHANGED <<config, bars, mutex, worker, lines>>

\* _present("start"): the presentation read, and the bar opened under it, with
\* _runs_lock held.
StartRead(r) ==
  /\ thread[r].pc = "starting"
  /\ held = {}
  /\ IF Draws
       THEN /\ held' = {r}
            /\ bar' = [bar EXCEPT ![r].under = installs]
            /\ Move(r, "opening")
       ELSE /\ Move(r, "running")
            /\ UNCHANGED <<held, bar>>
  /\ UNCHANGED <<config, redraw, ticks>>

\* A bar that no terminal shows has no redrawing thread.
StartOpen(r) ==
  /\ thread[r].pc = "opening"
  /\ bar' = [bar EXCEPT ![r].pc = "open"]
  /\ \E shown \in BOOLEAN : redraw' = IF shown THEN [redraw EXCEPT ![r] = "waiting"] ELSE redraw
  /\ held' = {}
  /\ Move(r, "running")
  /\ UNCHANGED <<config, ticks>>

Redraw(r) ==
  /\ redraw[r] = "waiting"
  /\ bar[r].pc # "signalled"
  /\ redraw' = [redraw EXCEPT ![r] = "refreshing"]
  /\ UNCHANGED <<config, thread, held, bar, ticks>>

\* Mutant: the redrawing thread waits for the lock its closer holds.
RedrawnLocked(r) ==
  /\ redraw[r] = "refreshing"
  /\ held = {}
  /\ redraw' = [redraw EXCEPT ![r] = "waiting"]
  /\ UNCHANGED <<config, thread, held, bar, ticks>>

Redrawn(r) ==
  /\ redraw[r] = "refreshing"
  /\ redraw' = [redraw EXCEPT ![r] = "waiting"]
  /\ UNCHANGED <<config, thread, held, bar, ticks>>

StopRedraw(r) ==
  /\ redraw[r] = "waiting"
  /\ bar[r].pc = "signalled"
  /\ redraw' = [redraw EXCEPT ![r] = "off"]
  /\ UNCHANGED <<config, thread, held, bar, ticks>>

Max2(a, b) == IF a < b THEN b ELSE a
Min2(a, b) == IF a < b THEN a ELSE b

\* ProgressTicker::tick, one completed unit.  A disarmed ticker has no hook.
Tick(r, w) ==
  LET done == ticker[r].completed + 1
  IN /\ thread[r].pc = "running"
     /\ ticker[r].armed
     /\ worker[r][w].pc = "idle"
     /\ done <= Total
     /\ ticker' = [ticker EXCEPT ![r].completed = done]
     /\ worker' = IF done % Step = 0 \/ done = Total
                    THEN [worker EXCEPT ![r][w] = [pc |-> "waiting", done |-> done]]
                    ELSE worker
     /\ UNCHANGED <<config, thread, bars, mutex, lines>>

LockTicker(r, w) ==
  /\ worker[r][w].pc = "waiting"
  /\ mutex[r] = {}
  /\ mutex' = [mutex EXCEPT ![r] = {w}]
  /\ worker' = [worker EXCEPT ![r][w].pc = "holding"]
  /\ UNCHANGED <<config, thread, bars, ticker, lines>>

\* Mutant: the last unit does not close the run at its total.
PendingWhole(r, w) == ticker[r].emitted + Step <= worker[r][w].done

Pending(r, w) ==
  LET emitted == ticker[r].emitted
      done == worker[r][w].done
  IN /\ emitted < Min2(done, Total)
     /\ emitted + Step <= done \/ done = Total

EmitBoundary(r, w) ==
  /\ worker[r][w].pc = "holding"
  /\ Pending(r, w)
  /\ ticker' = [ticker EXCEPT ![r].emitted = Min2(@ + Step, Total)]
  /\ worker' = [worker EXCEPT ![r][w].pc = "delivering"]
  /\ UNCHANGED <<config, thread, bars, mutex, lines>>

\* deliver and _from_rust: the bar is moved under _runs_lock, then the line logged.
Deliver(r, w) ==
  /\ worker[r][w].pc = "delivering"
  /\ held = {}
  /\ bar' = IF bar[r].pc = "open" THEN [bar EXCEPT ![r].n = Max2(@, ticker[r].emitted)] ELSE bar
  /\ lines' = [lines EXCEPT ![r] = ticker[r].emitted]
  /\ worker' = [worker EXCEPT ![r][w].pc = "holding"]
  /\ UNCHANGED <<config, thread, held, redraw, ticker, mutex>>

UnlockTicker(r, w) ==
  /\ worker[r][w].pc = "holding"
  /\ ~Pending(r, w)
  /\ mutex' = [mutex EXCEPT ![r] = {}]
  /\ worker' = [worker EXCEPT ![r][w].pc = "idle"]
  /\ UNCHANGED <<config, thread, bars, ticker, lines>>

\* The fan-out joins its workers, its units done or stopped early by an error,
\* and drops its ticker.
Finish(r) ==
  /\ thread[r].pc = "running"
  /\ \A w \in Workers : worker[r][w].pc = "idle"
  /\ Move(r, IF ticker[r].armed THEN "ending" ELSE "over")
  /\ UNCHANGED <<config, bars, ticks>>

\* _present("end")
EndBar(r) ==
  /\ thread[r].pc = "ending"
  /\ held = {}
  /\ IF bar[r].pc = "open"
       THEN /\ held' = {r}
            /\ bar' = [bar EXCEPT ![r].pc = "popped"]
            /\ Move(r, "closing")
       ELSE /\ Move(r, "over")
            /\ UNCHANGED <<held, bar>>
  /\ UNCHANGED <<config, redraw, ticks>>

EndedRun(r) ==
  /\ r \in Runs
  /\ thread[r].pc = "closing"
  /\ AllClosed
  /\ held' = {}
  /\ Move(r, "over")
  /\ UNCHANGED <<config, bar, redraw, ticks>>

----------------------------------------------------------------------------

LogInit ==
  /\ level = OwnInfo
  /\ handler = "none"
  /\ installs = 0
  /\ threshold = OwnInfo
  /\ progress = TRUE
  /\ thread = [t \in Threads |-> [pc |-> "idle", read |-> FALSE, setting |-> Default,
                              began |-> {}]]
  /\ held = {}
  /\ bar = [r \in Runs |-> NoBar]
  /\ redraw = [r \in Runs |-> "off"]
  /\ ticker = [r \in Runs |-> [armed |-> FALSE, completed |-> 0, emitted |-> 0]]
  /\ mutex = [r \in Runs |-> {}]
  /\ worker = [r \in Runs |-> [w \in Workers |-> [pc |-> "idle", done |-> 0]]]
  /\ lines = [r \in Runs |-> 0]

Sync(t) ==
  \/ ReadLevel(t)
  \/ SetLogLevel(t)
  \/ ReadPresentation(t)
  \/ SetProgress(t)

Reconfigure(u) ==
  \/ InstallHandler(u)
  \/ DropRuns(u)
  \/ \E r \in Runs : SignalClose(u, r) \/ CloseBar(u, r)
  \/ Dropped(u)
  \/ Sync(u)

Fan(r) ==
  \/ Sync(r)
  \/ ArmTicker(r)
  \/ StartRead(r)
  \/ StartOpen(r)
  \/ EndBar(r)
  \/ SignalClose(r, r)
  \/ CloseBar(r, r)
  \/ EndedRun(r)

Work(r, w) ==
  \/ LockTicker(r, w)
  \/ EmitBoundary(r, w)
  \/ Deliver(r, w)
  \/ UnlockTicker(r, w)

LogNext ==
  \/ \E u \in Users : Enable(u) \/ Disable(u) \/ Reconfigure(u)
  \/ \E r \in Runs : Begin(r) \/ Fan(r) \/ Finish(r)
  \/ \E r \in Runs : Redraw(r) \/ Redrawn(r) \/ StopRedraw(r)
  \/ \E r \in Runs, w \in Workers : Tick(r, w) \/ Work(r, w)

LogSpec == LogInit /\ [][LogNext]_logVars

\* Threads keep running: locks are handed on, units finish, and a redraw of a bar
\* returns.
LogFairSpec ==
  /\ LogSpec
  /\ \A u \in Users : WF_logVars(Reconfigure(u))
  /\ \A r \in Runs : WF_logVars(Fan(r)) /\ WF_logVars(Finish(r))
  /\ \A r \in Runs : WF_logVars(Redrawn(r) \/ StopRedraw(r))
  /\ \A r \in Runs, w \in Workers : WF_logVars(Tick(r, w)) /\ WF_logVars(Work(r, w))

----------------------------------------------------------------------------
(* Properties.                                                             *)

ThreadStates ==
  {"idle", "configuring", "dropping", "closing", "syncing", "levelling", "levelled",
   "arming", "armed", "starting", "opening", "running", "ending", "over"}

\* Every variable holds values of its type.
LogTypeOK ==
  /\ level \in BOOLEAN /\ threshold \in BOOLEAN /\ progress \in BOOLEAN
  /\ handler \in {"none", "bar", "other"}
  /\ installs \in Nat
  /\ thread \in [Threads -> [pc : ThreadStates, read : BOOLEAN, began : SUBSET Nat,
                              setting : AllSettings \cup {Default}]]
  /\ held \in SUBSET Threads
  /\ bar \in [Runs -> [pc : {"none", "open", "popped", "signalled", "closed"},
                        n : Units, under : Nat]]
  /\ redraw \in [Runs -> {"off", "waiting", "refreshing"}]
  /\ ticker \in [Runs -> [armed : BOOLEAN, completed : Units, emitted : Units]]
  /\ mutex \in [Runs -> SUBSET Workers]
  /\ worker \in [Runs -> [Workers ->
                    [pc : {"idle", "waiting", "holding", "delivering"}, done : Units]]]
  /\ lines \in [Runs -> Units]

\* A line never reports a unit that is not done, in whatever order workers
\* reach their boundaries (logging.rs tick).
LinesTruthful == \A r \in Runs : lines[r] <= ticker[r].completed

\* Each line reports the boundary after the last one: "lines never regress
\* however the workers interleave", and none is skipped (logging.rs emitted).
LinesAdvance ==
  [][\A r \in Runs : lines'[r] # lines[r] => lines'[r] = Min2(lines[r] + Step, Total)]_logVars

\* A ticking fan-out that did all its units has reported its total before its end
\* event: "the last unit closes the run at its total" (logging.rs tick, drop).
RunReported ==
  \A r \in Runs :
    (ticker[r].armed /\ thread[r].pc \in {"ending", "closing", "over"}
       /\ ticker[r].completed = Total) => lines[r] = Total

\* An open bar stands where the fan-out's last line stands (_log.py _present).
BarStands == \A r \in Runs : bar[r].pc = "open" => bar[r].n = lines[r]

\* An open bar was opened under the present setting, or a reconfiguration that
\* has yet to drop it is under way: no start slips a bar of the old setting past
\* _drop_runs (_log.py _drop_runs: "a new start follows the new setting").
BarsFollowSetting ==
  \A r \in Runs :
    (bar[r].pc = "open" /\ bar[r].under # installs) => \E u \in Users : thread[u].pc = "dropping"

\* No bar outlives its run, and none is redrawn once closed (_log.py close).
BarsClosed ==
  \A r \in Runs :
    /\ thread[r].pc = "over" => bar[r].pc \in {"none", "closed"}
    /\ redraw[r] # "off" => bar[r].pc \in {"open", "popped", "signalled"}

\* Every fan-out ends: no worker, closer or redrawing thread waits for another
\* for ever (logging.rs tick; _log.py _runs_lock, close).
RunsEnd == \A r \in Runs : thread[r].pc # "idle" ~> thread[r].pc = "over"

\* Every call of enable_logging or disable_logging returns (_log.py _drop_runs).
CallsReturn == \A u \in Users : thread[u].pc # "idle" ~> thread[u].pc = "idle"

\* Whichever worker reaches a boundary first, a line reports units that are done,
\* and a complete run's total is reported before its end (logging.rs tick).
LinesExact == LinesTruthful /\ RunReported

\* An open bar is of the present setting or about to be dropped, and none
\* outlives its run (_log.py start, close, _drop_runs).
BarsExact == BarsFollowSetting /\ BarsClosed

\* Nobody waits for ever: every fan-out ends and every call returns, whoever
\* holds which lock (_log.py _runs_lock, logging.rs tick).
NoneWaits == RunsEnd /\ CallsReturn
=============================================================================
