---------------------------- MODULE ControlPlane ----------------------------
(***************************************************************************)
(* How an engine process is started, told what to do, reconfigured and     *)
(* ended: app/api/server.py and app/api/process.py on the dashboard's      *)
(* side, app/main.py (run, control), app/trading/instance_lock.py and the  *)
(* command, heartbeat and settings parts of app/trading/engine.py on the   *)
(* engine's, with the rows of app/database/repository.py between them.     *)
(*                                                                         *)
(* One trading mode.  Dashboards and engines are processes of their own:   *)
(* what one of them does between two awaits is a step, and they meet in    *)
(* the database and at the lock file only.  A process identity stands for  *)
(* its pid and is not used twice.  The clock is "fresh or stale": 45 s     *)
(* without a heartbeat may pass at any time, since any await of the engine *)
(* may be that long.  What the engine trades is LiveTrading, what a halt   *)
(* does is RiskDay.                                                        *)
(***************************************************************************)
EXTENDS Integers, Sequences

CONSTANTS
  MaxEngines,    \* bound: engine processes
  Dashboards,    \* dashboard processes, each with one request at a time
  Settings,      \* runtime settings: records [strategy, risk, markets]
  Known,         \* those this release of the engine can validate
  Default,       \* the settings of .env
  CommandNames,  \* the commands that are sent
  MaxCommands,   \* bound: commands queued
  MaxVersions,   \* bound: versions of the settings
  MaxEvents,     \* bound: commands, versions after the first and crashes
  MaxRefusals,   \* bound: marks of a command the database refuses
  Mixed          \* bound: may commands be queued and versions saved in one behaviour?

ASSUME ConstantsAssumption ==
  /\ Default \in Known /\ Known \subseteq Settings
  /\ {MaxEngines, MaxCommands, MaxVersions, MaxEvents, MaxRefusals} \subseteq Nat
  /\ Mixed \in BOOLEAN

VARIABLES
  phase,     \* how far each engine process has come
  lock,      \* the process that holds data/engine-{mode}.lock
  mem,       \* the memory of each engine
  status,    \* database: the row of engine_status
  cmds,      \* database: bot_commands, oldest first
  saved,     \* database: bot_settings, version i at place i
  halted,    \* database: the halt of the saved risk state
  request,   \* the request each dashboard works on
  crashes,   \* bound: ends of an engine that it did not see coming
  refusals   \* bound: refusals so far

engineVars == <<phase, lock, mem>>
bounds     == <<crashes, refusals>>
vars == <<engineVars, status, cmds, saved, halted, request, bounds>>

\* The pids, in the order the system gives them out; 0 is none.
Engines == 1..MaxEngines
NoOne   == 0

\* Before run() has begun, and the part of a process that is the engine.
Phases  == {"none", "launched", "locked", "starting", "running", "stopping", "stopped", "gone"}
Begun   == {"starting", "running", "stopping"}
Holding == Begun \cup {"locked", "stopped"}

Idle == <<"idle">>

\* What an engine keeps: the strategy, risk limits and markets it works
\* with, the settings it believes to have (runtime) and their version;
\* loading: the version whose warm-up it waits for; torn (history): a
\* warm-up failed after the strategy had been replaced.
Blank == [paused |-> FALSE, stop |-> FALSE, strategy |-> Default.strategy, risk |-> Default.risk,
          markets |-> Default.markets, runtime |-> Default, version |-> 0,
          restart |-> FALSE, loading |-> 0, torn |-> FALSE]

Init ==
  /\ phase = [p \in Engines |-> "none"] /\ lock = NoOne
  /\ mem = [p \in Engines |-> Blank]
  /\ status = [state |-> "NONE", pid |-> NoOne, fresh |-> FALSE]
  /\ cmds = <<>> /\ saved = <<>> /\ halted = FALSE
  /\ request = [d \in Dashboards |-> Idle]
  /\ crashes = 0 /\ refusals = 0

\* Bounds: nobody has saved settings yet, and room for one more event.
NothingSaved ==
  saved \in {<<>>, <<Default>>} /\ \A d \in Dashboards : request[d][1] # "save"
Versions == IF saved = <<>> THEN 0 ELSE Len(saved) - 1
Room == Len(cmds) + Versions + crashes < MaxEvents

-----------------------------------------------------------------------------
(* Rows of the database.                                                   *)

\* engine_is_alive
Alive == status.state \notin {"NONE", "STOPPED"} /\ status.fresh

\* write_engine_status as write_heartbeat calls it ...
Beat(p, state) == status' = [state |-> state, pid |-> p, fresh |-> TRUE]

\* ... and as kill does: the pid stays.
BeatStopped == status' = [status EXCEPT !.state = "STOPPED", !.fresh = TRUE]

\* HEARTBEAT_STALE_SECONDS pass without a write.
GoStale ==
  /\ Alive
  /\ status' = [status EXCEPT !.fresh = FALSE]
  /\ UNCHANGED <<engineVars, cmds, saved, halted, request, bounds>>

\* pending_commands
Pending == {i \in DOMAIN cmds : cmds[i].done = "no"}

\* The engine whose run has begun; what is queued now is meant for it.
Current == IF \E p \in Engines : phase[p] \in Begun
           THEN CHOOSE p \in Engines : phase[p] \in Begun ELSE NoOne

\* enqueue_command
Enqueue(name) ==
  /\ Len(cmds) < MaxCommands /\ Room /\ (Mixed \/ NothingSaved)
  /\ cmds' = Append(cmds, [name |-> name, done |-> "no", during |-> Current, by |-> {}])
  /\ UNCHANGED <<engineVars, status, saved, halted, request, bounds>>

\* api_bot_command and the shell's `control` look at the row, and queue the
\* command whatever it says.
Command(name) == Enqueue(name)
Control(name) == Enqueue(name)

-----------------------------------------------------------------------------
(* Saving settings: the next version is read, then inserted; two writers   *)
(* may have read the same.                                                 *)

\* RuntimeSettings(**data): can this release build a strategy from it?
Valid(s) == s \in Known

\* changes_vs: what differs between two settings.
Changes(a, b) == {f \in {"strategy", "risk", "markets"} : a[f] # b[f]}

\* api_settings_update; the dashboard may be of a later release.
Save(d, s) ==
  /\ request[d] = Idle /\ Len(saved) < MaxVersions /\ Room /\ (Mixed \/ cmds = <<>>)
  /\ request' = [request EXCEPT ![d] = <<"save", s, Len(saved) + 1>>]
  /\ UNCHANGED <<engineVars, status, cmds, saved, halted, bounds>>

\* save_runtime_settings: a version that exists by now is refused, and the
\* next one is tried.
Insert(d, s, v) ==
  /\ request[d] = <<"save", s, v>>
  /\ IF v \in DOMAIN saved
     THEN /\ request' = [request EXCEPT ![d] =
                           IF Len(saved) < MaxVersions THEN <<"save", s, Len(saved) + 1>> ELSE Idle]
          /\ UNCHANGED saved
     ELSE /\ saved' = Append(saved, s)
          /\ request' = [request EXCEPT ![d] = Idle]
  /\ UNCHANGED <<engineVars, status, cmds, halted, bounds>>

-----------------------------------------------------------------------------
(* Starting and killing an engine.                                         *)

NextPid(p) == phase[p] = "none" /\ \A q \in Engines : q < p => phase[q] # "none"

\* api_bot_start: refused while an engine looks alive.
Start(d) ==
  /\ request[d] = Idle /\ ~Alive
  /\ request' = [request EXCEPT ![d] = <<"start">>]
  /\ UNCHANGED <<engineVars, status, cmds, saved, halted, bounds>>

\* The STARTING heartbeat and start_engine's Popen.
Spawn(d, p) ==
  /\ request[d] = <<"start">> /\ NextPid(p)
  /\ status' = [state |-> "STARTING", pid |-> NoOne, fresh |-> TRUE]
  /\ phase' = [phase EXCEPT ![p] = "launched"]
  /\ request' = [request EXCEPT ![d] = Idle]
  /\ UNCHANGED <<lock, mem, cmds, saved, halted, bounds>>

\* `python -m app.main run` typed into a shell asks nobody.
ShellStart(p) ==
  /\ NextPid(p)
  /\ phase' = [phase EXCEPT ![p] = "launched"]
  /\ UNCHANGED <<lock, mem, status, cmds, saved, halted, request, bounds>>

\* process_cmdline and is_engine_process: is the pid an engine?
Exists(p) == phase[p] # "gone"

\* SIGTERM and the stop command: the stop event of install_stop_handlers.
AskToStop(p) == mem' = [mem EXCEPT ![p].stop = TRUE]

\* The operating system drops the lock of a process that is gone.
End(p) ==
  /\ phase' = [phase EXCEPT ![p] = "gone"]
  /\ lock' = IF lock = p THEN NoOne ELSE lock
  /\ mem' = [mem EXCEPT ![p] = Blank]

\* api_bot_kill, up to kill_engine's first signal.  Without the process only
\* the row is corrected.
Kill(d, p) ==
  /\ request[d] = Idle /\ status.pid = p /\ Exists(p)
  /\ AskToStop(p)
  /\ request' = [request EXCEPT ![d] = <<"kill", p>>]
  /\ UNCHANGED <<phase, lock, status, cmds, saved, halted, bounds>>

KillNobody(d, p) ==
  /\ request[d] = Idle /\ status.pid = p /\ ~Exists(p)
  /\ status.state # "STOPPED"
  /\ BeatStopped
  /\ UNCHANGED <<engineVars, cmds, saved, halted, request, bounds>>

\* The grace period is over: SIGKILL.
KillForce(d, p) ==
  /\ request[d] = <<"kill", p>> /\ Exists(p)
  /\ End(p)
  /\ UNCHANGED <<status, cmds, saved, halted, request, bounds>>

\* kill_engine has returned; whatever the row says by now becomes STOPPED.
KillDone(d, p) ==
  /\ request[d] = <<"kill", p>> /\ ~Exists(p)
  /\ BeatStopped
  /\ request' = [request EXCEPT ![d] = Idle]
  /\ UNCHANGED <<engineVars, cmds, saved, halted, bounds>>

-----------------------------------------------------------------------------
(* The engine process, from main() to the end.                             *)

\* The version maybe_reload_settings and load_runtime_settings read.
Latest == saved[Len(saved)]

\* load_runtime_settings: the last version, or .env as version 1; a version
\* that does not validate counts, but .env is used.
Loaded == IF saved # <<>> /\ Valid(Latest) THEN Latest ELSE Default

\* InstanceLock.acquire does not wait.
LockIsFree == lock = NoOne

\* A mutant of TakeLock: a lock file that exists is taken over.
TakeLockAnyway(p) ==
  /\ phase[p] = "launched"
  /\ phase' = [phase EXCEPT ![p] = "locked"] /\ lock' = p
  /\ saved' = IF saved = <<>> THEN <<Default>> ELSE saved
  /\ mem' = [mem EXCEPT ![p] =
               [Blank EXCEPT !.strategy = Loaded.strategy, !.risk = Loaded.risk,
                             !.markets = Loaded.markets, !.runtime = Loaded,
                             !.version = Len(saved')]]
  /\ UNCHANGED <<status, cmds, halted, request, bounds>>

\* cmd_run: acquire_engine_lock, then the settings and the components.
TakeLock(p) ==
  /\ phase[p] = "launched" /\ LockIsFree
  /\ phase' = [phase EXCEPT ![p] = "locked"] /\ lock' = p
  /\ saved' = IF saved = <<>> THEN <<Default>> ELSE saved
  /\ mem' = [mem EXCEPT ![p] =
               [Blank EXCEPT !.strategy = Loaded.strategy, !.risk = Loaded.risk,
                             !.markets = Loaded.markets, !.runtime = Loaded,
                             !.version = Len(saved')]]
  /\ UNCHANGED <<status, cmds, halted, request, bounds>>

\* The lock is taken: exit code 3, and nothing else is touched.
FindLocked(p) ==
  /\ phase[p] = "launched" /\ ~LockIsFree
  /\ End(p)
  /\ UNCHANGED <<status, cmds, saved, halted, request, bounds>>

\* A mutant of Discarded: what is in the queue stays there.
DiscardedNot(i) == cmds[i]

\* discard_pending_commands
Discarded(i) == IF i \in Pending THEN [cmds[i] EXCEPT !.done = "discarded"] ELSE cmds[i]

\* run(), up to its first long wait: stale commands go, STARTING is written.
BeginRun(p) ==
  /\ phase[p] = "locked"
  /\ phase' = [phase EXCEPT ![p] = "starting"]
  /\ cmds' = [i \in DOMAIN cmds |-> Discarded(i)]
  /\ Beat(p, "STARTING")
  /\ UNCHANGED <<lock, mem, saved, halted, request, bounds>>

\* The warm-up, the synchronisation and the risk state are done.
Started(p) ==
  /\ phase[p] = "starting"
  /\ phase' = [phase EXCEPT ![p] = "running"]
  /\ Beat(p, "RUNNING")
  /\ UNCHANGED <<lock, mem, cmds, saved, halted, request, bounds>>

\* An exception before the loop ends the process without a heartbeat, and
\* so does a crash at any time.
StartupFails(p) ==
  /\ phase[p] \in {"locked", "starting"} /\ Room
  /\ crashes' = crashes + 1
  /\ End(p)
  /\ UNCHANGED <<status, cmds, saved, halted, request, refusals>>

Crash(p) ==
  /\ phase[p] \in {"running", "stopping", "stopped"} /\ Room
  /\ crashes' = crashes + 1
  /\ End(p)
  /\ UNCHANGED <<status, cmds, saved, halted, request, refusals>>

-----------------------------------------------------------------------------
(* The main loop.  Its task is free unless a reload waits for candles.     *)

Free(p) == phase[p] = "running" /\ mem[p].loading = 0

\* A mutant of Heartbeat: only a row of its own is refreshed.
HeartbeatIfMine(p) ==
  /\ Free(p) /\ status.pid = p
  /\ Beat(p, IF mem[p].paused THEN "PAUSED" ELSE "RUNNING")
  /\ UNCHANGED <<engineVars, cmds, saved, halted, request, bounds>>

Heartbeat(p) ==
  /\ Free(p)
  /\ Beat(p, IF mem[p].paused THEN "PAUSED" ELSE "RUNNING")
  /\ UNCHANGED <<engineVars, cmds, saved, halted, request, bounds>>

\* The last of the commands in S that bears one of these names; 0 if none.
LastOf(S, names) ==
  LET those == {i \in S : cmds[i].name \in names}
  IN  IF those = {} THEN 0 ELSE CHOOSE i \in those : \A j \in those : j <= i

\* What a series of commands leaves behind, from b before it.
PausedBy(S, b) ==
  LET l == LastOf(S, {"pause", "halt", "resume"}) IN IF l = 0 THEN b ELSE cmds[l].name # "resume"
HaltedBy(S, b) ==
  LET l == LastOf(S, {"halt", "resume_risk"}) IN IF l = 0 THEN b ELSE cmds[l].name = "halt"

\* A mutant of CarryOut: what pauses goes last.
CarryOutByName(p, S, marked) ==
  /\ mem' = [mem EXCEPT ![p].paused = IF LastOf(S, {"pause", "halt"}) # 0 THEN TRUE ELSE PausedBy(S, @),
                        ![p].stop = @ \/ \E i \in S : cmds[i].name = "stop"]
  /\ halted' = HaltedBy(S, halted)
  /\ cmds' = [i \in DOMAIN cmds |->
                [cmds[i] EXCEPT !.by = IF i \in S THEN @ \cup {p} ELSE @,
                                !.done = IF i \in marked THEN "yes" ELSE @]]

\* poll_commands carries out S, oldest first, and marks `marked`.  A reload
\* leaves no trace: the settings may be read again in any round.
CarryOut(p, S, marked) ==
  /\ mem' = [mem EXCEPT ![p].paused = PausedBy(S, @),
                        ![p].stop = @ \/ \E i \in S : cmds[i].name = "stop"]
  /\ halted' = HaltedBy(S, halted)
  /\ cmds' = [i \in DOMAIN cmds |->
                [cmds[i] EXCEPT !.by = IF i \in S THEN @ \cup {p} ELSE @,
                                !.done = IF i \in marked THEN "yes" ELSE @]]

\* A mutant of Poll: a paused engine does not look.
PollUnlessPaused(p) ==
  /\ Free(p) /\ Pending # {} /\ ~mem[p].paused
  /\ CarryOut(p, Pending, Pending)
  /\ Beat(p, IF mem'[p].paused THEN "PAUSED" ELSE "RUNNING")
  /\ UNCHANGED <<phase, lock, saved, request, bounds>>

Poll(p) ==
  /\ Free(p) /\ Pending # {}
  /\ CarryOut(p, Pending, Pending)
  /\ Beat(p, IF mem'[p].paused THEN "PAUSED" ELSE "RUNNING")
  /\ UNCHANGED <<phase, lock, saved, request, bounds>>

\* The database refuses the mark of command i: what precedes it is marked,
\* it is carried out, and the next round finds it again.
PollFails(p, i) ==
  /\ Free(p) /\ i \in Pending /\ refusals < MaxRefusals
  /\ CarryOut(p, {j \in Pending : j <= i}, {j \in Pending : j < i})
  /\ refusals' = refusals + 1
  /\ UNCHANGED <<phase, lock, status, saved, request, crashes>>

-----------------------------------------------------------------------------
(* maybe_reload_settings                                                   *)

\* Everything behind the warm-up: only what differs from the settings the
\* engine believes to have is touched.
Adopt(m, new, v) ==
  [m EXCEPT !.risk = IF "risk" \in Changes(m.runtime, new) THEN new.risk ELSE @,
            !.restart = @ \/ "markets" \in Changes(m.runtime, new),
            !.torn = @ /\ "strategy" \notin Changes(m.runtime, new),
            !.runtime = new, !.version = v, !.loading = 0]

Newer(p) == Free(p) /\ Len(saved) > mem[p].version

\* A version that does not validate is passed over.
ReloadInvalid(p) ==
  /\ Newer(p) /\ ~Valid(Latest)
  /\ mem' = [mem EXCEPT ![p].version = Len(saved)]
  /\ UNCHANGED <<phase, lock, status, cmds, saved, halted, request, bounds>>

\* A mutant of Reload: the limits stay what they were.
ReloadStrategyOnly(p) ==
  /\ Newer(p) /\ Valid(Latest)
  /\ LET new == Latest
         s   == IF "strategy" \in Changes(mem[p].runtime, new) THEN new.strategy ELSE mem[p].strategy
     IN  mem' = [mem EXCEPT ![p] =
                   [Adopt(mem[p], new, Len(saved)) EXCEPT !.strategy = s, !.risk = mem[p].risk]]
  /\ Beat(p, IF mem[p].paused THEN "PAUSED" ELSE "RUNNING")
  /\ UNCHANGED <<phase, lock, cmds, saved, halted, request, bounds>>

\* The candles at hand are enough for the new strategy, or it is the old one.
Reload(p) ==
  /\ Newer(p) /\ Valid(Latest)
  /\ LET new == Latest
         s   == IF "strategy" \in Changes(mem[p].runtime, new) THEN new.strategy ELSE mem[p].strategy
     IN  mem' = [mem EXCEPT ![p] = [Adopt(mem[p], new, Len(saved)) EXCEPT !.strategy = s]]
  /\ Beat(p, IF mem[p].paused THEN "PAUSED" ELSE "RUNNING")
  /\ UNCHANGED <<phase, lock, cmds, saved, halted, request, bounds>>

\* The new strategy needs more candles: it is in place, the rest waits.
ReloadWaits(p) ==
  /\ Newer(p) /\ Valid(Latest)
  /\ "strategy" \in Changes(mem[p].runtime, Latest)
  /\ mem' = [mem EXCEPT ![p].strategy = Latest.strategy, ![p].loading = Len(saved)]
  /\ UNCHANGED <<phase, lock, status, cmds, saved, halted, request, bounds>>

ReloadWarmed(p) ==
  /\ phase[p] = "running" /\ mem[p].loading # 0
  /\ mem' = [mem EXCEPT ![p] = Adopt(@, saved[@.loading], @.loading)]
  /\ Beat(p, IF mem[p].paused THEN "PAUSED" ELSE "RUNNING")
  /\ UNCHANGED <<phase, lock, cmds, saved, halted, request, bounds>>

\* warmup raises and _guarded swallows it: the new strategy stays.
ReloadFails(p) ==
  /\ phase[p] = "running" /\ mem[p].loading # 0
  /\ mem' = [mem EXCEPT ![p].loading = 0, ![p].torn = TRUE]
  /\ UNCHANGED <<phase, lock, status, cmds, saved, halted, request, bounds>>

-----------------------------------------------------------------------------
(* The end.                                                                *)

LeaveLoop(p) ==
  /\ Free(p) /\ mem[p].stop
  /\ phase' = [phase EXCEPT ![p] = "stopping"]
  /\ UNCHANGED <<lock, mem, status, cmds, saved, halted, request, bounds>>

\* The end of run(): the last notifications are out, STOPPED is written.
WriteStopped(p) ==
  /\ phase[p] = "stopping"
  /\ phase' = [phase EXCEPT ![p] = "stopped"]
  /\ Beat(p, "STOPPED")
  /\ UNCHANGED <<lock, mem, cmds, saved, halted, request, bounds>>

\* cmd_run's finally
Release(p) ==
  /\ phase[p] = "stopped"
  /\ End(p)
  /\ UNCHANGED <<status, cmds, saved, halted, request, bounds>>

Dashboard(d) ==
  \/ \E s \in Settings : Save(d, s)
  \/ \E s \in Settings, v \in 1..MaxVersions : Insert(d, s, v)
  \/ Start(d)
  \/ \E p \in Engines : Spawn(d, p) \/ Kill(d, p) \/ KillNobody(d, p) \/ KillForce(d, p) \/ KillDone(d, p)

Engine(p) ==
  \/ ShellStart(p) \/ TakeLock(p) \/ FindLocked(p) \/ BeginRun(p) \/ Started(p)
  \/ StartupFails(p) \/ Crash(p)
  \/ Heartbeat(p) \/ Poll(p) \/ (\E i \in DOMAIN cmds : PollFails(p, i))
  \/ ReloadInvalid(p) \/ Reload(p) \/ ReloadWaits(p) \/ ReloadWarmed(p) \/ ReloadFails(p)
  \/ LeaveLoop(p) \/ WriteStopped(p) \/ Release(p)

Next ==
  \/ GoStale
  \/ \E name \in CommandNames : Command(name) \/ Control(name)
  \/ \E d \in Dashboards : Dashboard(d)
  \/ \E p \in Engines : Engine(p)

\* What a process does next where there is only one thing to do.
Proceed(p) ==
  \/ TakeLock(p) \/ FindLocked(p) \/ BeginRun(p) \/ Started(p)
  \/ ReloadWarmed(p) \/ ReloadFails(p) \/ WriteStopped(p) \/ Release(p)

\* A process that runs goes on: a wait ends in an answer or an exception,
\* and the loop comes round to each of its steps, also when every round ends
\* in a reload that fails (hence SF).  Nobody has to send, save, start, kill
\* or leave anything, and neither a crash nor a refusal has to happen.
Fairness ==
  /\ \A p \in Engines : WF_vars(Proceed(p))
  /\ SF_vars(\E p \in Engines : Heartbeat(p))
  /\ SF_vars(\E p \in Engines : Poll(p))

Spec == Init /\ [][Next]_vars /\ Fairness

-----------------------------------------------------------------------------
(* Properties.                                                             *)

Memories == [paused : BOOLEAN, stop : BOOLEAN, restart : BOOLEAN, torn : BOOLEAN,
             strategy : {s.strategy : s \in Settings}, risk : {s.risk : s \in Settings},
             markets : {s.markets : s \in Settings}, runtime : Known,
             version : Nat, loading : Nat]
Rows == [state : {"NONE", "STARTING", "RUNNING", "PAUSED", "STOPPED"},
         pid : Engines \cup {NoOne}, fresh : BOOLEAN]
Entries == [name : CommandNames, done : {"no", "yes", "discarded"},
            during : Engines \cup {NoOne}, by : SUBSET Engines]

TypeOK ==
  /\ phase \in [Engines -> Phases] /\ lock \in Engines \cup {NoOne}
  /\ mem \in [Engines -> Memories] /\ status \in Rows
  /\ cmds \in Seq(Entries) /\ saved \in Seq(Settings)
  /\ halted \in BOOLEAN /\ crashes \in Nat /\ refusals \in Nat

\* Two engines of a mode never trade at once, whoever starts, kills or
\* crashes them in whatever order (instance_lock.py, HIGH-7).
OneEngine ==
  \A p, q \in Engines : phase[p] \in Begun /\ phase[q] \in Begun => p = q

\* A command is carried out by the engine it was queued for or by none: one
\* that was queued while no engine ran, or for an engine that is gone, is
\* never applied to a later run; and a second process that is started
\* meanwhile does not discard the commands of the first (engine.py:1021).
OwnCommands ==
  \A i \in DOMAIN cmds :
     /\ cmds[i].by \subseteq {cmds[i].during} \ {NoOne}
     /\ cmds[i].done = "discarded" /\ cmds[i].during # NoOne => phase[cmds[i].during] = "gone"

\* An engine is paused, and the account is halted, exactly as the commands
\* carried out say when they are read in the order they were given, also
\* when the database failed in the middle of a poll and some were repeated.
EffectsInOrder ==
  /\ \A p \in Engines : phase[p] \in Begun =>
        mem[p].paused = PausedBy({i \in DOMAIN cmds : p \in cmds[i].by}, FALSE)
  /\ halted = HaltedBy({i \in DOMAIN cmds : cmds[i].by # {}}, FALSE)

\* The strategy and the limits in force are those of one saved version as a
\* whole, and a difference in the markets is announced, unless the warm-up
\* of a reload failed and no later version has changed the strategy since.
SettingsInForce ==
  \A p \in Engines : LET m == mem[p] IN
     phase[p] \in Begun /\ m.loading = 0 =>
        /\ ~m.torn => m.strategy = m.runtime.strategy
        /\ m.risk = m.runtime.risk
        /\ m.version \in DOMAIN saved /\ (saved[m.version] \in Known => m.runtime = saved[m.version])
        /\ m.runtime.markets # m.markets => m.restart

\* Command i waits for an engine that is there.
Awaited(i) ==
  i \in Pending /\ \E p \in Engines : cmds[i].during = p /\ phase[p] \in {"starting", "running"}

\* A command queued for a running engine is carried out and marked in the
\* end, unless the engine ends first, although a refused mark repeats it.
CommandAnswered == \A i \in 1..MaxCommands : Awaited(i) ~> ~Awaited(i)

AnyRuns == \E p \in Engines : phase[p] = "running"

\* A row that a late kill, a second start or a stale heartbeat has made
\* wrong is put right by the running engine, if it goes on running.
StatusHeals ==
  AnyRuns ~> ((\E p \in Engines : phase[p] = "running" /\ Alive /\ status.pid = p) \/ ~AnyRuns)

=============================================================================
