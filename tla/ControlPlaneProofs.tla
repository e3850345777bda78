-------------------------- MODULE ControlPlaneProofs --------------------------
(***************************************************************************)
(* One engine at a time, commands for the engine they were meant for and   *)
(* in their order, and settings of one version: for any number of          *)
(* processes, dashboards, commands and versions.  The inductive invariant  *)
(* ties each phase of a process to the lock, each command to the engine    *)
(* that was there when it was queued, and what an engine works with to the *)
(* version it believes to have.                                            *)
(***************************************************************************)
EXTENDS ControlPlane, WellFoundedInduction, TLAPS

\* The lock file is held by whoever has come past it and is not gone.
LockInv == \A p \in Engines : phase[p] \in Holding => lock = p

\* What the assumptions on the constants say of the sets built from them.
LEMMA Constants ==
  /\ Default \in Known /\ Default \in Settings /\ Known \subseteq Settings
  /\ MaxEngines \in Nat /\ 0 \notin Engines /\ Engines \subseteq Nat
  BY ConstantsAssumption DEF Engines

\* A process begins with a memory.
LEMMA BlankIsMemory == Blank \in Memories
  BY Constants DEF Blank, Memories

\* The settings a starting process loads are some that it knows.
LEMMA LoadedIsKnown == TypeOK => Loaded \in Known /\ Loaded \in Settings
  BY Constants DEF Loaded, Valid

\* The version a reload looks at is one of those saved.
LEMMA LatestIsSaved ==
  ASSUME TypeOK, saved # <<>>
  PROVE  Latest \in Settings /\ Len(saved) \in DOMAIN saved /\ Latest = saved[Len(saved)]
  BY DEF TypeOK, Latest

-----------------------------------------------------------------------------
(* What the groups of actions do to the processes and their memory.        *)

\* The end of a process frees its lock and leaves the others alone.
LEMMA EndEffect ==
  ASSUME TypeOK, NEW p \in Engines, End(p)
  PROVE  /\ phase' \in [Engines -> Phases] /\ mem' \in [Engines -> Memories]
         /\ lock' \in Engines \cup {NoOne}
         /\ phase'[p] = "gone"
         /\ \A q \in Engines \ {p} : phase'[q] = phase[q] /\ mem'[q] = mem[q]
         /\ lock' = IF lock = p THEN NoOne ELSE lock
  BY BlankIsMemory DEF TypeOK, End, Phases, Begun

\* Taking over a version changes neither the strategy object nor the pause
\* nor the markets (maybe_reload_settings, after the warm-up).
LEMMA AdoptEffect ==
  ASSUME NEW m \in Memories, NEW new \in Known, NEW v \in Nat
  PROVE  /\ Adopt(m, new, v) \in Memories
         /\ Adopt(m, new, v).strategy = m.strategy
         /\ Adopt(m, new, v).paused = m.paused
         /\ Adopt(m, new, v).markets = m.markets
         /\ Adopt(m, new, v).runtime = new
         /\ Adopt(m, new, v).version = v /\ Adopt(m, new, v).loading = 0
         /\ m.risk = m.runtime.risk => Adopt(m, new, v).risk = new.risk
         /\ (m.runtime.markets # m.markets => m.restart) =>
              (new.markets # m.markets => Adopt(m, new, v).restart)
         /\ "strategy" \notin Changes(m.runtime, new) =>
              new.strategy = m.runtime.strategy /\ Adopt(m, new, v).torn = m.torn
<1>1. new \in Settings /\ new.risk \in {s.risk : s \in Settings}
  BY Constants
<1>2. "risk" \notin Changes(m.runtime, new) => m.runtime.risk = new.risk
  BY DEF Changes
<1>3. "markets" \notin Changes(m.runtime, new) => m.runtime.markets = new.markets
  BY DEF Changes
<1>4. "strategy" \notin Changes(m.runtime, new) => m.runtime.strategy = new.strategy
  BY DEF Changes
<1> QED
  BY <1>1, <1>2, <1>3, <1>4 DEF Adopt, Memories

\* Paused or not, halted or not.
LEMMA Verdicts ==
  ASSUME NEW S, NEW b \in BOOLEAN
  PROVE  PausedBy(S, b) \in BOOLEAN /\ HaltedBy(S, b) \in BOOLEAN
  BY Zenon DEF PausedBy, HaltedBy

\* Carrying out commands changes the pause and the halt, never what the
\* settings are.
LEMMA CarryOutEffect ==
  ASSUME TypeOK, NEW p \in Engines, NEW S, NEW marked, CarryOut(p, S, marked)
  PROVE  /\ mem' \in [Engines -> Memories] /\ halted' \in BOOLEAN
         /\ cmds' \in Seq(Entries) /\ DOMAIN cmds' = DOMAIN cmds
         /\ \A q \in Engines \ {p} : mem'[q] = mem[q]
         /\ \A q \in Engines : /\ mem'[q].strategy = mem[q].strategy /\ mem'[q].risk = mem[q].risk
                               /\ mem'[q].markets = mem[q].markets
                               /\ mem'[q].runtime = mem[q].runtime
                               /\ mem'[q].version = mem[q].version
                               /\ mem'[q].restart = mem[q].restart
                               /\ mem'[q].torn = mem[q].torn /\ mem'[q].loading = mem[q].loading
         /\ mem'[p].paused = PausedBy(S, mem[p].paused)
         /\ halted' = HaltedBy(S, halted)
         /\ \A i \in DOMAIN cmds :
              /\ cmds'[i].name = cmds[i].name /\ cmds'[i].during = cmds[i].during
              /\ cmds'[i].by = IF i \in S THEN cmds[i].by \cup {p} ELSE cmds[i].by
              /\ cmds'[i].done = IF i \in marked THEN "yes" ELSE cmds[i].done
<1>1. mem[p] \in Memories /\ mem[p].paused \in BOOLEAN /\ halted \in BOOLEAN
  BY DEF TypeOK, Memories
<1>2. PausedBy(S, mem[p].paused) \in BOOLEAN /\ HaltedBy(S, halted) \in BOOLEAN
  BY <1>1, Verdicts
<1>3. (mem[p].stop \/ \E i \in S : cmds[i].name = "stop") \in BOOLEAN
  OBVIOUS
<1>4. mem' = [mem EXCEPT ![p] = [mem[p] EXCEPT
                !.paused = PausedBy(S, mem[p].paused),
                !.stop = mem[p].stop \/ \E i \in S : cmds[i].name = "stop"]]
  BY DEF CarryOut, TypeOK
<1> DEFINE paused == PausedBy(S, mem[p].paused)
           stop == mem[p].stop \/ \E i \in S : cmds[i].name = "stop"
           new == [mem[p] EXCEPT !.paused = paused, !.stop = stop]
<1>5. paused \in BOOLEAN /\ stop \in BOOLEAN /\ mem' = [mem EXCEPT ![p] = new]
  BY <1>2, <1>3, <1>4
<1>6. paused = PausedBy(S, mem[p].paused)
  OBVIOUS
<1> HIDE DEF paused, stop
<1>7. /\ new \in Memories /\ new.strategy = mem[p].strategy /\ new.risk = mem[p].risk
      /\ new.markets = mem[p].markets /\ new.runtime = mem[p].runtime
      /\ new.version = mem[p].version /\ new.restart = mem[p].restart
      /\ new.torn = mem[p].torn /\ new.loading = mem[p].loading /\ new.paused = paused
  BY <1>1, <1>5 DEF Memories
<1> HIDE DEF new
<1>8. mem' \in [Engines -> Memories] /\ mem'[p] = new /\ \A q \in Engines \ {p} : mem'[q] = mem[q]
  BY <1>5, <1>7 DEF TypeOK
<1> DEFINE entry(i) == [cmds[i] EXCEPT !.by = IF i \in S THEN @ \cup {p} ELSE @,
                                       !.done = IF i \in marked THEN "yes" ELSE @]
<1>9. cmds' = [i \in DOMAIN cmds |-> entry(i)]
  BY DEF CarryOut
<1>10. ASSUME NEW i \in DOMAIN cmds
       PROVE  /\ entry(i) \in Entries
              /\ entry(i).name = cmds[i].name /\ entry(i).during = cmds[i].during
              /\ entry(i).by = IF i \in S THEN cmds[i].by \cup {p} ELSE cmds[i].by
              /\ entry(i).done = IF i \in marked THEN "yes" ELSE cmds[i].done
  <2>1. cmds[i] \in Entries
    BY DEF TypeOK
  <2> QED
    BY <2>1 DEF Entries
<1> HIDE DEF entry
<1>11. DOMAIN cmds = 1..Len(cmds) /\ Len(cmds) \in Nat
  BY DEF TypeOK
<1>12. cmds' \in Seq(Entries)
  <2> DEFINE n == Len(cmds)
  <2>1. \A i \in 1..n : entry(i) \in Entries
    BY <1>10, <1>11
  <2>2. cmds' = [i \in 1..n |-> entry(i)] /\ n \in Nat
    BY <1>9, <1>11
  <2> HIDE DEF n
  <2>3. [i \in 1..n |-> entry(i)] \in Seq(Entries)
    BY <2>1, <2>2
  <2> QED
    BY <2>2, <2>3
<1>13. halted' = HaltedBy(S, halted)
  BY DEF CarryOut
<1>14. \A q \in Engines : /\ mem'[q].strategy = mem[q].strategy /\ mem'[q].risk = mem[q].risk
                          /\ mem'[q].markets = mem[q].markets
                          /\ mem'[q].runtime = mem[q].runtime
                          /\ mem'[q].version = mem[q].version
                          /\ mem'[q].restart = mem[q].restart
                          /\ mem'[q].torn = mem[q].torn /\ mem'[q].loading = mem[q].loading
  BY <1>7, <1>8
<1> QED
  BY <1>2, <1>6, <1>7, <1>8, <1>9, <1>10, <1>12, <1>13, <1>14

-----------------------------------------------------------------------------
(* Types.                                                                  *)

\* Nothing has started yet.
LEMMA TypesInitially == Init => TypeOK
<1> SUFFICES ASSUME Init PROVE TypeOK
  OBVIOUS
<1>1. cmds \in Seq(Entries) /\ saved \in Seq(Settings)
  BY DEF Init
<1>2. mem \in [Engines -> Memories]
  BY BlankIsMemory DEF Init
<1> QED
  BY <1>1, <1>2 DEF Init, TypeOK, Phases, Begun, Rows, NoOne

\* A heartbeat writes a row of the status table.
LEMMA BeatIsRow ==
  ASSUME NEW p \in Engines, NEW state,
         Beat(p, state), state \in {"STARTING", "RUNNING", "PAUSED", "STOPPED"}
  PROVE  status' \in Rows
  BY DEF Beat, Rows

\* A memory whose task takes over a version.
LEMMA ReloadEffect ==
  ASSUME TypeOK, NEW p \in Engines, Newer(p), Valid(Latest)
  PROVE  /\ Latest \in Known /\ Latest \in Settings /\ Len(saved) \in DOMAIN saved
         /\ Latest = saved[Len(saved)] /\ Len(saved) \in Nat \ {0}
         /\ mem[p] \in Memories /\ mem[p].loading = 0 /\ phase[p] = "running"
<1>1. mem[p] \in Memories /\ mem[p].version \in Nat
  BY DEF TypeOK, Memories
<1>2. Len(saved) \in Nat /\ Len(saved) > mem[p].version
  BY DEF TypeOK, Newer
<1>3. saved # <<>>
  BY <1>1, <1>2
<1>4. Latest \in Known /\ phase[p] = "running" /\ mem[p].loading = 0
  BY DEF Valid, Newer, Free
<1> QED
  BY <1>1, <1>2, <1>3, <1>4, LatestIsSaved, Constants

\* What Reload and ReloadWarmed leave behind.
LEMMA AdoptedMemory ==
  ASSUME NEW m \in Memories, NEW new \in Known, NEW v \in Nat,
         NEW s \in {t.strategy : t \in Settings}
  PROVE  LET a == [Adopt(m, new, v) EXCEPT !.strategy = s]
         IN  /\ a \in Memories /\ a.strategy = s
             /\ a.risk = Adopt(m, new, v).risk /\ a.markets = Adopt(m, new, v).markets
             /\ a.runtime = Adopt(m, new, v).runtime /\ a.version = Adopt(m, new, v).version
             /\ a.restart = Adopt(m, new, v).restart /\ a.torn = Adopt(m, new, v).torn
             /\ a.loading = 0 /\ a.paused = m.paused
<1> DEFINE b == Adopt(m, new, v)
<1>1. b \in Memories /\ b.loading = 0 /\ b.paused = m.paused
  BY AdoptEffect
<1> HIDE DEF b
<1>2. LET a == [b EXCEPT !.strategy = s]
      IN  /\ a \in Memories /\ a.strategy = s
          /\ a.risk = b.risk /\ a.markets = b.markets
          /\ a.runtime = b.runtime /\ a.version = b.version
          /\ a.restart = b.restart /\ a.torn = b.torn
          /\ a.loading = 0 /\ a.paused = m.paused
  BY <1>1 DEF Memories
<1> QED
  BY <1>2 DEF b

\* The strategy a reload chooses is that of some settings.
LEMMA NextStrategy ==
  ASSUME NEW m \in Memories, NEW new \in Settings
  PROVE  (IF "strategy" \in Changes(m.runtime, new) THEN new.strategy ELSE m.strategy)
           \in {t.strategy : t \in Settings}
  BY DEF Memories

-----------------------------------------------------------------------------
(* Settings.  Between the replacement of the strategy and the end of its   *)
(* warm-up the strategy is that of the version that is being loaded.       *)

Consistent(m, versions) ==
  /\ m.loading = 0 /\ ~m.torn => m.strategy = m.runtime.strategy
  /\ m.loading # 0 => /\ m.loading \in DOMAIN versions /\ versions[m.loading] \in Known
                      /\ m.strategy = versions[m.loading].strategy
  /\ m.risk = m.runtime.risk
  /\ m.version \in DOMAIN versions
  /\ versions[m.version] \in Known => m.runtime = versions[m.version]
  /\ m.runtime.markets # m.markets => m.restart

SettingsInv == \A p \in Engines : phase[p] \in Begun \cup {"locked"} => Consistent(mem[p], saved)

\* A memory changed at p alone, consistently.
ChangedAt(p) ==
  /\ mem' \in [Engines -> Memories]
  /\ \A q \in Engines \ {p} : mem'[q] = mem[q]
  /\ mem'[p].paused = mem[p].paused
  /\ Consistent(mem'[p], saved)

\* A reload without a change of strategy leaves one version in force.
LEMMA ReloadChanges ==
  ASSUME TypeOK, NEW p \in Engines, Reload(p), Consistent(mem[p], saved)
  PROVE  ChangedAt(p)
<1> DEFINE m == mem[p]
           new == Latest
           v == Len(saved)
           s == IF "strategy" \in Changes(m.runtime, new) THEN new.strategy ELSE m.strategy
           a == [Adopt(m, new, v) EXCEPT !.strategy = s]
<1>1. /\ new \in Known /\ new \in Settings /\ v \in DOMAIN saved /\ new = saved[v]
      /\ v \in Nat /\ m \in Memories /\ m.loading = 0
  BY ReloadEffect DEF Reload
<1>2. mem' = [mem EXCEPT ![p] = a]
  BY DEF Reload
<1>3. Consistent(m, saved)
  OBVIOUS
<1>4. s \in {t.strategy : t \in Settings}
  BY <1>1, NextStrategy
<1>5. "strategy" \in Changes(m.runtime, new) => s = new.strategy
  OBVIOUS
<1>6. "strategy" \notin Changes(m.runtime, new) => s = m.strategy
  OBVIOUS
<1> HIDE DEF m, new, v, s
<1>7. /\ a \in Memories /\ a.strategy = s /\ a.loading = 0 /\ a.paused = m.paused
      /\ a.risk = Adopt(m, new, v).risk /\ a.markets = Adopt(m, new, v).markets
      /\ a.runtime = Adopt(m, new, v).runtime /\ a.version = Adopt(m, new, v).version
      /\ a.restart = Adopt(m, new, v).restart /\ a.torn = Adopt(m, new, v).torn
  BY <1>1, <1>4, AdoptedMemory
<1> HIDE DEF a
<1>8. /\ a.runtime = new /\ a.version = v /\ a.markets = m.markets
      /\ a.risk = new.risk /\ (new.markets # m.markets => a.restart)
      /\ "strategy" \notin Changes(m.runtime, new) =>
              new.strategy = m.runtime.strategy /\ a.torn = m.torn
  BY <1>1, <1>3, <1>7, AdoptEffect DEF Consistent
<1>9. ~a.torn => a.strategy = new.strategy
  BY <1>1, <1>3, <1>5, <1>6, <1>7, <1>8 DEF Consistent
<1>10. Consistent(a, saved)
  BY <1>1, <1>7, <1>8, <1>9 DEF Consistent
<1>11. /\ mem' \in [Engines -> Memories] /\ mem'[p] = a
       /\ \A q \in Engines \ {p} : mem'[q] = mem[q]
  BY <1>2, <1>7 DEF TypeOK
<1> QED
  BY <1>7, <1>10, <1>11 DEF ChangedAt, m

\* A warm-up that succeeds leaves one version in force.
LEMMA WarmedChanges ==
  ASSUME TypeOK, NEW p \in Engines, ReloadWarmed(p), Consistent(mem[p], saved)
  PROVE  ChangedAt(p)
<1> DEFINE m == mem[p]
           v == m.loading
           new == saved[v]
           a == Adopt(m, new, v)
<1>1. /\ m \in Memories /\ v \in Nat /\ v # 0 /\ Consistent(m, saved)
  BY DEF TypeOK, Memories, ReloadWarmed
<1>2. /\ v \in DOMAIN saved /\ new \in Known /\ m.strategy = new.strategy
  BY <1>1 DEF Consistent
<1>3. mem' = [mem EXCEPT ![p] = a]
  BY DEF ReloadWarmed
<1> HIDE DEF m
<1>4. new = saved[v]
  OBVIOUS
<1> HIDE DEF v, new
<1>5. /\ a \in Memories /\ a.strategy = m.strategy /\ a.paused = m.paused
      /\ a.markets = m.markets /\ a.runtime = new /\ a.version = v /\ a.loading = 0
      /\ a.risk = new.risk /\ (new.markets # m.markets => a.restart)
  BY <1>1, <1>2, AdoptEffect DEF Consistent
<1> HIDE DEF a
<1>6. Consistent(a, saved)
  BY <1>2, <1>4, <1>5 DEF Consistent
<1>7. /\ mem' \in [Engines -> Memories] /\ mem'[p] = a
      /\ \A q \in Engines \ {p} : mem'[q] = mem[q]
  BY <1>3, <1>5 DEF TypeOK
<1> QED
  BY <1>5, <1>6, <1>7 DEF ChangedAt, m

\* While the new strategy warms up, the rest waits for it.
LEMMA WaitsChanges ==
  ASSUME TypeOK, NEW p \in Engines, ReloadWaits(p), Consistent(mem[p], saved)
  PROVE  ChangedAt(p)
<1> DEFINE m == mem[p]
           new == Latest
           v == Len(saved)
           a == [m EXCEPT !.strategy = new.strategy, !.loading = v]
<1>1. /\ new \in Known /\ new \in Settings /\ v \in DOMAIN saved /\ new = saved[v]
      /\ v \in Nat \ {0} /\ m \in Memories
  BY ReloadEffect DEF ReloadWaits
<1>2. mem' = [mem EXCEPT ![p] = a]
  BY DEF ReloadWaits, TypeOK
<1>3. Consistent(m, saved)
  OBVIOUS
<1> HIDE DEF m, new, v
<1>4. /\ a \in Memories /\ a.strategy = new.strategy /\ a.loading = v
      /\ a.paused = m.paused /\ a.risk = m.risk /\ a.markets = m.markets
      /\ a.runtime = m.runtime /\ a.version = m.version /\ a.restart = m.restart
  BY <1>1 DEF Memories
<1> HIDE DEF a
<1>5. Consistent(a, saved)
  BY <1>1, <1>3, <1>4 DEF Consistent
<1>6. /\ mem' \in [Engines -> Memories] /\ mem'[p] = a
      /\ \A q \in Engines \ {p} : mem'[q] = mem[q]
  BY <1>2, <1>4 DEF TypeOK
<1> QED
  BY <1>4, <1>5, <1>6 DEF ChangedAt, m

\* A warm-up that fails is remembered as such.
LEMMA FailsChanges ==
  ASSUME TypeOK, NEW p \in Engines, ReloadFails(p), Consistent(mem[p], saved)
  PROVE  ChangedAt(p)
<1> DEFINE m == mem[p]
           a == [m EXCEPT !.loading = 0, !.torn = TRUE]
<1>1. m \in Memories /\ mem' = [mem EXCEPT ![p] = a] /\ Consistent(m, saved)
  BY DEF ReloadFails, TypeOK
<1> HIDE DEF m
<1>2. /\ a \in Memories /\ a.loading = 0 /\ a.torn = TRUE /\ a.paused = m.paused
      /\ a.risk = m.risk /\ a.markets = m.markets /\ a.runtime = m.runtime
      /\ a.version = m.version /\ a.restart = m.restart
  BY <1>1 DEF Memories
<1> HIDE DEF a
<1>3. Consistent(a, saved)
  BY <1>1, <1>2 DEF Consistent
<1>4. /\ mem' \in [Engines -> Memories] /\ mem'[p] = a
      /\ \A q \in Engines \ {p} : mem'[q] = mem[q]
  BY <1>1, <1>2 DEF TypeOK
<1> QED
  BY <1>2, <1>3, <1>4 DEF ChangedAt, m

\* A version that does not validate is passed over as a whole.
LEMMA InvalidChanges ==
  ASSUME TypeOK, NEW p \in Engines, ReloadInvalid(p), Consistent(mem[p], saved)
  PROVE  ChangedAt(p)
<1> DEFINE m == mem[p]
           v == Len(saved)
           a == [m EXCEPT !.version = v]
<1>1. m \in Memories /\ mem' = [mem EXCEPT ![p] = a] /\ Consistent(m, saved)
  BY DEF ReloadInvalid, TypeOK
<1>2. v \in Nat /\ v > m.version /\ m.version \in Nat
  BY <1>1 DEF ReloadInvalid, Newer, TypeOK, Memories
<1>3. v \in DOMAIN saved /\ Latest = saved[v] /\ Latest \notin Known
  BY <1>2, LatestIsSaved DEF ReloadInvalid, Valid
<1> HIDE DEF m, v
<1>4. /\ a \in Memories /\ a.loading = m.loading /\ a.torn = m.torn /\ a.paused = m.paused
      /\ a.strategy = m.strategy
      /\ a.risk = m.risk /\ a.markets = m.markets /\ a.runtime = m.runtime
      /\ a.version = v /\ a.restart = m.restart
  BY <1>1, <1>2 DEF Memories
<1> HIDE DEF a
<1>5. Consistent(a, saved)
  BY <1>1, <1>3, <1>4 DEF Consistent
<1>6. /\ mem' \in [Engines -> Memories] /\ mem'[p] = a
      /\ \A q \in Engines \ {p} : mem'[q] = mem[q]
  BY <1>1, <1>4 DEF TypeOK
<1> QED
  BY <1>4, <1>5, <1>6 DEF ChangedAt, m

-----------------------------------------------------------------------------
(* One engine: types, the lock and the settings in one invariant.          *)

EngineInv == TypeOK /\ LockInv /\ SettingsInv

\* A version more does not disturb what an earlier one says.
LEMMA GrownVersions ==
  ASSUME NEW m \in Memories, NEW s \in Seq(Settings), NEW t \in Seq(Settings),
         DOMAIN s \subseteq DOMAIN t, \A v \in DOMAIN s : t[v] = s[v], Consistent(m, s)
  PROVE  Consistent(m, t)
  BY DEF Consistent

\* No engine has begun.
LEMMA EngineInitially == Init => EngineInv
<1>1. Init => TypeOK
  BY TypesInitially
<1>2. Init => LockInv /\ SettingsInv
  BY DEF Init, LockInv, SettingsInv, Begun, Holding
<1> QED
  BY <1>1, <1>2 DEF EngineInv

\* A step of the database, of a dashboard or of a heartbeat.
LEMMA OutsideStep ==
  ASSUME EngineInv, UNCHANGED engineVars,
         status' \in Rows, cmds' \in Seq(Entries), saved' \in Seq(Settings),
         DOMAIN saved \subseteq DOMAIN saved', \A v \in DOMAIN saved : saved'[v] = saved[v],
         halted' \in BOOLEAN, UNCHANGED bounds
  PROVE  EngineInv'
<1>1. TypeOK'
  BY DEF EngineInv, TypeOK, engineVars, bounds
<1>2. LockInv'
  BY DEF EngineInv, LockInv, engineVars
<1>3. ASSUME NEW p \in Engines, phase'[p] \in Begun \cup {"locked"}
      PROVE  Consistent(mem'[p], saved')
  <2>1. mem[p] \in Memories /\ Consistent(mem[p], saved) /\ mem' = mem
    BY <1>3 DEF EngineInv, TypeOK, SettingsInv, engineVars
  <2> QED
    BY <2>1, GrownVersions DEF EngineInv, TypeOK
<1> QED
  BY <1>1, <1>2, <1>3 DEF EngineInv, SettingsInv

\* A step of one engine that changes its memory only.
LEMMA MemoryStep ==
  ASSUME EngineInv, NEW p \in Engines, UNCHANGED <<phase, lock, saved>>,
         mem' \in [Engines -> Memories], \A q \in Engines \ {p} : mem'[q] = mem[q],
         Consistent(mem[p], saved) => Consistent(mem'[p], saved),
         status' \in Rows, cmds' \in Seq(Entries),
         halted' \in BOOLEAN, crashes' \in Nat, refusals' \in Nat
  PROVE  EngineInv'
<1>1. TypeOK' /\ LockInv'
  BY DEF EngineInv, TypeOK, LockInv
<1>2. ASSUME NEW q \in Engines, phase'[q] \in Begun \cup {"locked"}
      PROVE  Consistent(mem'[q], saved')
  BY <1>2 DEF EngineInv, SettingsInv
<1> QED
  BY <1>1, <1>2 DEF EngineInv, SettingsInv

\* A process takes the next phase; a phase beyond the lock needs the lock.
LEMMA PhaseStep ==
  ASSUME EngineInv, NEW p \in Engines, NEW new \in Phases,
         phase' = [phase EXCEPT ![p] = new], UNCHANGED <<lock, mem, saved>>,
         new \in Holding => phase[p] \in Holding,
         new \in Begun \cup {"locked"} => phase[p] \in Begun \cup {"locked"},
         status' \in Rows, cmds' \in Seq(Entries), UNCHANGED <<halted, bounds>>
  PROVE  EngineInv'
<1>1. TypeOK'
  BY DEF EngineInv, TypeOK, bounds
<1>2. LockInv'
  BY DEF EngineInv, LockInv, TypeOK
<1>3. SettingsInv'
  BY DEF EngineInv, SettingsInv, TypeOK
<1> QED
  BY <1>1, <1>2, <1>3 DEF EngineInv

\* A process ends.
LEMMA EndStep ==
  ASSUME EngineInv, NEW p \in Engines, End(p), UNCHANGED <<status, cmds, saved, halted, refusals>>,
         crashes' \in Nat
  PROVE  EngineInv'
<1>1. /\ phase' \in [Engines -> Phases] /\ mem' \in [Engines -> Memories]
      /\ lock' \in Engines \cup {NoOne} /\ phase'[p] = "gone"
      /\ \A q \in Engines \ {p} : phase'[q] = phase[q] /\ mem'[q] = mem[q]
      /\ lock' = IF lock = p THEN NoOne ELSE lock
  BY EndEffect DEF EngineInv
<1>2. TypeOK'
  BY <1>1 DEF EngineInv, TypeOK
<1>3. LockInv'
  BY <1>1 DEF EngineInv, LockInv, Holding, Begun
<1>4. SettingsInv'
  BY <1>1 DEF EngineInv, SettingsInv, Begun
<1> QED
  BY <1>2, <1>3, <1>4 DEF EngineInv

\* The lock is taken only while it is free, and one version is loaded.
LEMMA TakeLockStep ==
  ASSUME EngineInv, NEW p \in Engines, TakeLock(p)
  PROVE  EngineInv' /\ ~mem'[p].paused
<1> DEFINE v == Len(saved')
           a == [Blank EXCEPT !.strategy = Loaded.strategy, !.risk = Loaded.risk,
                              !.markets = Loaded.markets, !.runtime = Loaded, !.version = v]
           l == Loaded
<1>0. TypeOK /\ l \in Known /\ l \in Settings
  BY LoadedIsKnown DEF EngineInv
<1>1. saved' = IF saved = <<>> THEN <<Default>> ELSE saved
  BY DEF TakeLock
<1>2. saved' \in Seq(Settings) /\ v \in Nat /\ v \in DOMAIN saved'
  BY <1>0, <1>1, Constants DEF TypeOK
<1>3. saved'[v] \in Known => l = saved'[v]
  <2>1. CASE saved = <<>>
    BY <2>1, <1>1 DEF Loaded
  <2>2. CASE saved # <<>>
    BY <2>2, <1>1 DEF Loaded, Latest, Valid
  <2> QED
    BY <2>1, <2>2
<1>4. DOMAIN saved \subseteq DOMAIN saved' /\ \A i \in DOMAIN saved : saved'[i] = saved[i]
  BY <1>1
<1>5. phase' = [phase EXCEPT ![p] = "locked"] /\ lock' = p /\ mem' = [mem EXCEPT ![p] = a]
  BY DEF TakeLock
<1> HIDE DEF v, l
<1>6. /\ a \in Memories /\ a.strategy = l.strategy /\ a.risk = l.risk /\ a.markets = l.markets
      /\ a.runtime = l /\ a.version = v /\ a.loading = 0 /\ a.paused = FALSE
  BY <1>0, <1>2, BlankIsMemory DEF Memories, Blank, l
<1> HIDE DEF a
<1>7. Consistent(a, saved')
  BY <1>2, <1>3, <1>6 DEF Consistent
<1>8. TypeOK'
  BY <1>0, <1>2, <1>5, <1>6 DEF TypeOK, TakeLock, bounds, Phases, Begun
<1>9. \A q \in Engines \ {p} : phase[q] \notin Holding
  BY Constants DEF EngineInv, LockInv, TakeLock, LockIsFree, NoOne
<1>10. LockInv'
  BY <1>0, <1>5, <1>9 DEF LockInv, TypeOK
<1>11. SettingsInv'
  BY <1>0, <1>5, <1>6, <1>7, <1>9 DEF SettingsInv, Holding, TypeOK
<1> QED
  BY <1>0, <1>5, <1>6, <1>8, <1>10, <1>11 DEF EngineInv, TypeOK

\* Kill only asks: SIGTERM sets the stop event.
LEMMA KillChanges ==
  ASSUME TypeOK, NEW p \in Engines, AskToStop(p), Consistent(mem[p], saved)
  PROVE  ChangedAt(p)
<1> DEFINE m == mem[p]
           a == [m EXCEPT !.stop = TRUE]
<1>1. m \in Memories /\ mem' = [mem EXCEPT ![p] = a] /\ Consistent(m, saved)
  BY DEF AskToStop, TypeOK
<1> HIDE DEF m
<1>2. /\ a \in Memories /\ a.strategy = m.strategy /\ a.loading = m.loading /\ a.torn = m.torn
      /\ a.paused = m.paused /\ a.risk = m.risk /\ a.markets = m.markets
      /\ a.runtime = m.runtime /\ a.version = m.version /\ a.restart = m.restart
  BY <1>1 DEF Memories
<1> HIDE DEF a
<1>3. Consistent(a, saved)
  BY <1>1, <1>2 DEF Consistent
<1>4. /\ mem' \in [Engines -> Memories] /\ mem'[p] = a
      /\ \A q \in Engines \ {p} : mem'[q] = mem[q]
  BY <1>1, <1>2 DEF TypeOK
<1> QED
  BY <1>2, <1>3, <1>4 DEF ChangedAt, m

\* A signal to stop leaves the pause alone.
LEMMA AskToStopTypes ==
  ASSUME TypeOK, NEW p \in Engines, AskToStop(p)
  PROVE  /\ mem' \in [Engines -> Memories]
         /\ \A q \in Engines \ {p} : mem'[q] = mem[q]
         /\ mem'[p].paused = mem[p].paused
<1> DEFINE m == mem[p]
           a == [m EXCEPT !.stop = TRUE]
<1>1. m \in Memories /\ mem' = [mem EXCEPT ![p] = a]
  BY DEF AskToStop, TypeOK
<1> HIDE DEF m
<1>2. a \in Memories /\ a.paused = m.paused
  BY <1>1 DEF Memories
<1> HIDE DEF a
<1>3. /\ mem' \in [Engines -> Memories] /\ mem'[p] = a
      /\ \A q \in Engines \ {p} : mem'[q] = mem[q]
  BY <1>1, <1>2 DEF TypeOK
<1> QED
  BY <1>2, <1>3 DEF m

\* What is queued is an entry of the queue.
LEMMA CommandEntry ==
  ASSUME TypeOK, NEW name \in CommandNames
  PROVE  [name |-> name, done |-> "no", during |-> Current, by |-> {}] \in Entries
<1>1. Current \in Engines \cup {NoOne}
  BY DEF Current
<1> QED
  BY <1>1 DEF Entries

\* What dashboards write to the database concerns no engine's memory.
LEMMA DatabaseStep ==
  ASSUME EngineInv,
         \/ GoStale
         \/ \E name \in CommandNames : Command(name) \/ Control(name)
         \/ \E d \in Dashboards : \/ \E s \in Settings : Save(d, s)
                                  \/ \E s \in Settings, v \in 1..MaxVersions : Insert(d, s, v)
                                  \/ Start(d)
                                  \/ \E p \in Engines : KillNobody(d, p) \/ KillDone(d, p)
         \/ UNCHANGED vars
  PROVE  EngineInv'
<1>0. /\ status \in Rows /\ cmds \in Seq(Entries) /\ saved \in Seq(Settings)
      /\ halted \in BOOLEAN
  BY DEF EngineInv, TypeOK
<1>1. CASE GoStale
  <2>1. status' \in Rows
    BY <1>0, <1>1 DEF GoStale, Rows
  <2> QED
    BY <1>0, <1>1, <2>1, OutsideStep DEF GoStale
<1>2. ASSUME NEW name \in CommandNames, Enqueue(name) PROVE EngineInv'
  <2>1. cmds' \in Seq(Entries)
    BY <1>0, <1>2, CommandEntry DEF Enqueue, EngineInv
  <2> QED
    BY <1>0, <1>2, <2>1, OutsideStep DEF Enqueue
<1>3. ASSUME NEW d \in Dashboards, NEW s \in Settings,
             Save(d, s) \/ \E v \in 1..MaxVersions : Insert(d, s, v)
      PROVE  EngineInv'
  <2>1. saved' \in {saved, Append(saved, s)} /\ UNCHANGED <<engineVars, status, cmds, halted, bounds>>
    BY <1>3 DEF Save, Insert
  <2>2. /\ saved' \in Seq(Settings) /\ DOMAIN saved \subseteq DOMAIN saved'
        /\ \A v \in DOMAIN saved : saved'[v] = saved[v]
    <3>1. CASE saved' = saved
      BY <1>0, <3>1
    <3>2. CASE saved' = Append(saved, s)
      BY <1>0, <3>2
    <3> QED
      BY <2>1, <3>1, <3>2
  <2> QED
    BY <1>0, <2>1, <2>2, OutsideStep
<1>4. ASSUME NEW d \in Dashboards, Start(d) \/ \E p \in Engines : KillNobody(d, p) \/ KillDone(d, p)
      PROVE  EngineInv'
  <2>1. UNCHANGED <<engineVars, cmds, saved, halted, bounds>> /\ (UNCHANGED status \/ BeatStopped)
    BY <1>4 DEF Start, KillNobody, KillDone
  <2>2. status' \in Rows
    BY <1>0, <2>1 DEF BeatStopped, Rows
  <2> QED
    BY <1>0, <2>1, <2>2, OutsideStep
<1>5. CASE UNCHANGED vars
  BY <1>0, <1>5, OutsideStep DEF vars
<1> QED
  BY <1>1, <1>2, <1>3, <1>4, <1>5 DEF Command, Control

\* Starting, running and leaving keep the holders of the lock.
LEMMA ProcessStep ==
  ASSUME EngineInv, NEW p \in Engines,
         \/ ShellStart(p) \/ (\E d \in Dashboards : Spawn(d, p)) \/ BeginRun(p) \/ Started(p)
         \/ LeaveLoop(p) \/ WriteStopped(p)
  PROVE  EngineInv'
<1>0. /\ status \in Rows /\ cmds \in Seq(Entries) /\ halted \in BOOLEAN
  BY DEF EngineInv, TypeOK
<1>1. CASE ShellStart(p) \/ \E d \in Dashboards : Spawn(d, p)
  <2>1. /\ phase' = [phase EXCEPT ![p] = "launched"] /\ UNCHANGED <<lock, mem, saved>>
        /\ UNCHANGED <<cmds, halted, bounds>>
    BY <1>1 DEF ShellStart, Spawn
  <2>2. status' \in Rows
    <3>1. [state |-> "STARTING", pid |-> NoOne, fresh |-> TRUE] \in Rows
      BY DEF Rows
    <3>2. status' = status \/ status' = [state |-> "STARTING", pid |-> NoOne, fresh |-> TRUE]
      BY <1>1 DEF ShellStart, Spawn
    <3> QED
      BY <1>0, <3>1, <3>2
  <2>3. "launched" \in Phases /\ "launched" \notin Holding /\ "launched" \notin Begun
    BY DEF Phases, Holding, Begun
  <2> QED
    BY <1>0, <2>1, <2>2, <2>3, PhaseStep
<1>2. CASE BeginRun(p)
  <2>1. cmds' \in Seq(Entries)
    <3> DEFINE n == Len(cmds)
               entry(i) == Discarded(i)
    <3>1. ASSUME NEW i \in 1..n PROVE entry(i) \in Entries
      <4>1. cmds[i] \in Entries
        BY <1>0
      <4>2. [cmds[i] EXCEPT !.done = "discarded"] \in Entries
        BY <4>1 DEF Entries
      <4> QED
        BY <4>1, <4>2 DEF Discarded
    <3>2. cmds' = [i \in 1..n |-> entry(i)] /\ n \in Nat
      BY <1>0, <1>2 DEF BeginRun
    <3> HIDE DEF n, entry
    <3>3. [i \in 1..n |-> entry(i)] \in Seq(Entries)
      BY <3>1, <3>2
    <3> QED
      BY <3>2, <3>3
  <2>2. status' \in Rows
    BY <1>2, BeatIsRow DEF BeginRun
  <2>3. "starting" \in Phases /\ phase[p] \in Holding /\ phase[p] \in Begun \cup {"locked"}
    BY <1>2 DEF BeginRun, Phases, Holding, Begun
  <2> QED
    BY <1>0, <1>2, <2>1, <2>2, <2>3, PhaseStep DEF BeginRun
<1>3. CASE Started(p)
  <2>1. status' \in Rows
    BY <1>3, BeatIsRow DEF Started
  <2>2. "running" \in Phases /\ phase[p] \in Holding /\ phase[p] \in Begun
    BY <1>3 DEF Started, Phases, Holding, Begun
  <2> QED
    BY <1>0, <1>3, <2>1, <2>2, PhaseStep DEF Started
<1>4. CASE LeaveLoop(p)
  <2>1. "stopping" \in Phases /\ phase[p] \in Holding /\ phase[p] \in Begun
    BY <1>4 DEF LeaveLoop, Free, Phases, Holding, Begun
  <2> QED
    BY <1>0, <1>4, <2>1, PhaseStep DEF LeaveLoop
<1>5. CASE WriteStopped(p)
  <2>1. status' \in Rows
    BY <1>5, BeatIsRow DEF WriteStopped
  <2>2. "stopped" \in Phases /\ phase[p] \in Holding /\ "stopped" \notin Begun \cup {"locked"}
    BY <1>5 DEF WriteStopped, Phases, Holding, Begun
  <2> QED
    BY <1>0, <1>5, <2>1, <2>2, PhaseStep DEF WriteStopped
<1> QED
  BY <1>1, <1>2, <1>3, <1>4, <1>5

\* An engine that ends holds nothing any more.
LEMMA EndingStep ==
  ASSUME EngineInv, NEW p \in Engines,
         \/ FindLocked(p) \/ StartupFails(p) \/ Crash(p) \/ Release(p)
         \/ \E d \in Dashboards : KillForce(d, p)
  PROVE  EngineInv' /\ End(p) /\ UNCHANGED <<cmds, halted>>
<1>1. crashes \in Nat
  BY DEF EngineInv, TypeOK
<1>2. End(p) /\ UNCHANGED <<status, cmds, saved, halted, refusals>> /\ crashes' \in {crashes, crashes + 1}
  BY DEF FindLocked, StartupFails, Crash, Release, KillForce, bounds
<1> QED
  BY <1>1, <1>2, EndStep

\* The steps of the loop that reload settings, and the stop event.
LEMMA ReloadStep ==
  ASSUME EngineInv, NEW p \in Engines,
         \/ ReloadInvalid(p) \/ Reload(p) \/ ReloadWaits(p) \/ ReloadWarmed(p) \/ ReloadFails(p)
         \/ \E d \in Dashboards : Kill(d, p)
  PROVE  /\ EngineInv'
         /\ UNCHANGED <<phase, lock, cmds, halted>>
         /\ \A q \in Engines : mem'[q].paused = mem[q].paused
<1>0. TypeOK /\ mem[p] \in Memories
  BY DEF EngineInv, TypeOK
<1>1. UNCHANGED <<phase, lock, cmds, saved, halted, bounds>>
  BY DEF ReloadInvalid, Reload, ReloadWaits, ReloadWarmed, ReloadFails, Kill
<1>2. status' \in Rows
  <2>1. status' = status \/ \E state \in {"PAUSED", "RUNNING"} : Beat(p, state)
    BY DEF ReloadInvalid, Reload, ReloadWaits, ReloadWarmed, ReloadFails, Kill
  <2> QED
    BY <1>0, <2>1, BeatIsRow DEF TypeOK
<1>3. /\ mem' \in [Engines -> Memories]
      /\ \A q \in Engines \ {p} : mem'[q] = mem[q]
      /\ mem'[p].paused = mem[p].paused
      /\ Consistent(mem[p], saved) => Consistent(mem'[p], saved)
  <2>1. CASE \E d \in Dashboards : Kill(d, p)
    <3>1. AskToStop(p)
      BY <2>1 DEF Kill
    <3> QED
      BY <1>0, <3>1, AskToStopTypes, KillChanges DEF ChangedAt
  <2>2. CASE ~\E d \in Dashboards : Kill(d, p)
    <3>1. phase[p] = "running"
      BY <2>2 DEF ReloadInvalid, Reload, ReloadWaits, ReloadWarmed, ReloadFails, Newer, Free
    <3>2. Consistent(mem[p], saved)
      BY <3>1 DEF EngineInv, SettingsInv, Begun
    <3>3. ChangedAt(p)
      BY <1>0, <2>2, <3>2, ReloadChanges, WarmedChanges, WaitsChanges, FailsChanges, InvalidChanges
    <3> QED
      BY <3>3 DEF ChangedAt
  <2> QED
    BY <2>1, <2>2
<1>4. EngineInv'
  BY <1>0, <1>1, <1>2, <1>3, MemoryStep DEF TypeOK, bounds
<1> QED
  BY <1>1, <1>3, <1>4

\* Polling commands keeps lock and settings.
LEMMA PollStep ==
  ASSUME EngineInv, NEW p \in Engines, Poll(p) \/ \E i \in DOMAIN cmds : PollFails(p, i)
  PROVE  EngineInv'
<1>0. TypeOK /\ refusals \in Nat /\ crashes \in Nat /\ status \in Rows
  BY DEF EngineInv, TypeOK
<1>1. PICK S, marked : CarryOut(p, S, marked)
  BY DEF Poll, PollFails
<1>2. /\ mem' \in [Engines -> Memories] /\ halted' \in BOOLEAN /\ cmds' \in Seq(Entries)
      /\ \A q \in Engines \ {p} : mem'[q] = mem[q]
      /\ mem'[p].strategy = mem[p].strategy /\ mem'[p].risk = mem[p].risk
      /\ mem'[p].markets = mem[p].markets /\ mem'[p].runtime = mem[p].runtime
      /\ mem'[p].version = mem[p].version /\ mem'[p].restart = mem[p].restart
      /\ mem'[p].torn = mem[p].torn /\ mem'[p].loading = mem[p].loading
  BY <1>0, <1>1, CarryOutEffect
<1>3. Consistent(mem[p], saved) => Consistent(mem'[p], saved)
  BY <1>2 DEF Consistent
<1>4. UNCHANGED <<phase, lock, saved, crashes>> /\ refusals' \in {refusals, refusals + 1}
  BY DEF Poll, PollFails, bounds
<1>5. status' = status \/ \E state \in {"PAUSED", "RUNNING"} : Beat(p, state)
  BY DEF Poll, PollFails
<1>6. status' \in Rows
  BY <1>0, <1>5, BeatIsRow
<1> QED
  BY <1>0, <1>2, <1>3, <1>4, <1>6, MemoryStep

\* A heartbeat keeps lock and settings.
LEMMA HeartbeatStep ==
  ASSUME EngineInv, NEW p \in Engines, Heartbeat(p)
  PROVE  EngineInv'
<1>1. \E state \in {"PAUSED", "RUNNING"} : Beat(p, state)
  BY DEF Heartbeat
<1>2. status' \in Rows
  BY <1>1, BeatIsRow
<1> QED
  BY <1>2, OutsideStep DEF Heartbeat, EngineInv, TypeOK

\* Every step keeps the invariant of the engines.
LEMMA EngineStep == EngineInv /\ [Next]_vars => EngineInv'
  BY DatabaseStep, ProcessStep, EndingStep, ReloadStep, PollStep, HeartbeatStep, TakeLockStep
     DEF Next, Dashboard, Engine

\* Two engines of a mode never trade at once (instance_lock.py, cmd_run).
THEOREM EnginesExclusive == Spec => []OneEngine
<1>1. EngineInv => OneEngine
  BY DEF EngineInv, LockInv, OneEngine, Holding
<1> QED
  BY EngineInitially, EngineStep, <1>1, PTL DEF Spec

\* The variables keep their types.
THEOREM Typing == Spec => []TypeOK
<1>1. EngineInv => TypeOK
  BY DEF EngineInv
<1> QED
  BY EngineInitially, EngineStep, <1>1, PTL DEF Spec

\* An engine works with the settings of one saved version as a whole, whatever
\* is saved, refused or interrupted, until a reload fails in its warm-up
\* (maybe_reload_settings).
THEOREM OneVersionInForce == Spec => []SettingsInForce
<1>1. EngineInv => SettingsInForce
  BY DEF EngineInv, SettingsInv, SettingsInForce, Consistent
<1> QED
  BY EngineInitially, EngineStep, <1>1, PTL DEF Spec

-----------------------------------------------------------------------------
(* Commands.  While an engine is there, what waits was queued for it; when *)
(* one begins, whoever was there before it is gone, for it has the lock.   *)

CommandInv ==
  \A i \in DOMAIN cmds :
    /\ cmds[i].by \subseteq {cmds[i].during} \ {NoOne}
    /\ cmds[i].during # NoOne => phase[cmds[i].during] \in Begun \cup {"stopped", "gone"}
    /\ cmds[i].done = "discarded" /\ cmds[i].during # NoOne => phase[cmds[i].during] = "gone"
    /\ cmds[i].done = "no" => \A p \in Engines : phase[p] \in Begun => cmds[i].during = p

\* Commands are settled from the front; of those that wait only the first
\* may have been carried out already.
OrderInv ==
  /\ \A i, j \in DOMAIN cmds : cmds[i].done = "no" /\ cmds[j].done # "no" => j < i
  /\ \A i, j \in DOMAIN cmds : cmds[i].done = "no" /\ cmds[j].done = "no" /\ cmds[i].by # {} => i <= j

QueueInv == EngineInv /\ CommandInv /\ OrderInv

\* The fields of an entry of the queue.
LEMMA Entry ==
  ASSUME TypeOK, NEW i \in DOMAIN cmds
  PROVE  /\ cmds[i] \in Entries /\ i \in Nat /\ i # 0
         /\ cmds[i].during \in Engines \cup {NoOne} /\ cmds[i].by \subseteq Engines
         /\ cmds[i].done \in {"no", "yes", "discarded"}
<1>1. cmds[i] \in Entries /\ i \in Nat /\ i # 0
  BY DEF TypeOK
<1> QED
  BY <1>1 DEF Entries

\* The engine whose run has begun is the only one.
LEMMA CurrentIs ==
  ASSUME EngineInv
  PROVE  /\ Current \in Engines \cup {NoOne}
         /\ \A p \in Engines : phase[p] \in Begun => Current = p
         /\ Current # NoOne => phase[Current] \in Begun
<1>1. \A p, q \in Engines : phase[p] \in Begun /\ phase[q] \in Begun => p = q
  BY DEF EngineInv, LockInv, Holding
<1>2. CASE \E p \in Engines : phase[p] \in Begun
  BY <1>1, <1>2 DEF Current
<1>3. CASE ~\E p \in Engines : phase[p] \in Begun
  BY <1>3 DEF Current
<1> QED
  BY <1>2, <1>3

\* Phases that a process takes on its way leave the commands their engine.
LEMMA PhasesKeepCommands ==
  ASSUME QueueInv, UNCHANGED cmds,
         NEW p \in Engines, \A q \in Engines \ {p} : phase'[q] = phase[q],
         phase[p] \in Begun \cup {"stopped", "gone"} => phase'[p] \in Begun \cup {"stopped", "gone"},
         phase[p] = "gone" => phase'[p] = "gone",
         phase'[p] \in Begun => phase[p] \in Begun
  PROVE  CommandInv' /\ OrderInv'
<1>1. ASSUME NEW i \in DOMAIN cmds
      PROVE  /\ cmds[i].by \subseteq {cmds[i].during} \ {NoOne}
             /\ cmds[i].during # NoOne => phase'[cmds[i].during] \in Begun \cup {"stopped", "gone"}
             /\ cmds[i].done = "discarded" /\ cmds[i].during # NoOne
                  => phase'[cmds[i].during] = "gone"
             /\ cmds[i].done = "no"
                  => \A q \in Engines : phase'[q] \in Begun => cmds[i].during = q
  <2>1. cmds[i].during \in Engines \cup {NoOne}
    BY Entry DEF QueueInv, EngineInv
  <2>2. /\ cmds[i].by \subseteq {cmds[i].during} \ {NoOne}
        /\ cmds[i].during # NoOne => phase[cmds[i].during] \in Begun \cup {"stopped", "gone"}
        /\ cmds[i].done = "discarded" /\ cmds[i].during # NoOne
             => phase[cmds[i].during] = "gone"
        /\ cmds[i].done = "no"
             => \A q \in Engines : phase[q] \in Begun => cmds[i].during = q
    BY DEF QueueInv, CommandInv
  <2> QED
    BY <2>1, <2>2
<1>2. CommandInv'
  BY <1>1 DEF CommandInv
<1>3. OrderInv'
  BY DEF QueueInv, OrderInv
<1> QED
  BY <1>2, <1>3

\* A new command stands behind the others, marked for the engine there is.
LEMMA EnqueueKeeps ==
  ASSUME QueueInv, NEW name \in CommandNames, Enqueue(name)
  PROVE  CommandInv' /\ OrderInv'
<1> DEFINE new == [name |-> name, done |-> "no", during |-> Current, by |-> {}]
           n == Len(cmds)
<1>0. TypeOK /\ n \in Nat /\ DOMAIN cmds = 1..n
  BY DEF QueueInv, EngineInv, TypeOK
<1>1. /\ Current \in Engines \cup {NoOne}
      /\ \A p \in Engines : phase[p] \in Begun => Current = p
      /\ Current # NoOne => phase[Current] \in Begun
  BY CurrentIs DEF QueueInv
<1>2. cmds' = Append(cmds, new) /\ phase' = phase
  BY DEF Enqueue, engineVars
<1>3. new.done = "no" /\ new.during = Current /\ new.by = {}
  OBVIOUS
<1> HIDE DEF new, n
<1>4. DOMAIN cmds' = 1..n+1 /\ cmds'[n+1] = new /\ \A i \in 1..n : cmds'[i] = cmds[i]
  BY <1>0, <1>2 DEF n, TypeOK
<1>5. \A i \in 1..n :
       /\ cmds[i].by \subseteq {cmds[i].during} \ {NoOne}
       /\ cmds[i].during # NoOne => phase[cmds[i].during] \in Begun \cup {"stopped", "gone"}
       /\ cmds[i].done = "discarded" /\ cmds[i].during # NoOne => phase[cmds[i].during] = "gone"
       /\ cmds[i].done = "no" => \A p \in Engines : phase[p] \in Begun => cmds[i].during = p
  BY <1>0 DEF QueueInv, CommandInv
<1>6. CommandInv'
  <2> SUFFICES ASSUME NEW i \in 1..n+1
               PROVE  /\ cmds'[i].by \subseteq {cmds'[i].during} \ {NoOne}
                      /\ cmds'[i].during # NoOne
                           => phase[cmds'[i].during] \in Begun \cup {"stopped", "gone"}
                      /\ cmds'[i].done = "discarded" /\ cmds'[i].during # NoOne
                           => phase[cmds'[i].during] = "gone"
                      /\ cmds'[i].done = "no"
                           => \A p \in Engines : phase[p] \in Begun => cmds'[i].during = p
    BY <1>2, <1>4 DEF CommandInv
  <2>1. CASE i = n + 1
    BY <1>1, <1>3, <1>4, <2>1
  <2>2. CASE i \in 1..n
    BY <1>4, <1>5, <2>2
  <2> QED
    BY <1>0, <2>1, <2>2
<1>7. OrderInv'
  BY <1>0, <1>3, <1>4 DEF OrderInv, QueueInv
<1> QED
  BY <1>6, <1>7

\* A second process that begins only finds commands of engines that are gone.
LEMMA BeginRunKeeps ==
  ASSUME QueueInv, NEW p \in Engines, BeginRun(p)
  PROVE  CommandInv' /\ OrderInv'
<1>0. TypeOK /\ LockInv /\ phase[p] = "locked"
  BY DEF QueueInv, EngineInv, BeginRun
<1>1. /\ \A q \in Engines \ {p} : phase[q] \notin Holding /\ phase'[q] = phase[q]
      /\ phase'[p] = "starting"
  BY <1>0 DEF BeginRun, LockInv, TypeOK, Holding
<1>2. DOMAIN cmds' = DOMAIN cmds
  BY DEF BeginRun
<1>3. ASSUME NEW i \in DOMAIN cmds
      PROVE  /\ cmds'[i].by = cmds[i].by /\ cmds'[i].during = cmds[i].during
             /\ cmds'[i].done = IF cmds[i].done = "no" THEN "discarded" ELSE cmds[i].done
             /\ cmds'[i].done # "no"
  <2>1. cmds'[i] = IF cmds[i].done = "no" THEN [cmds[i] EXCEPT !.done = "discarded"] ELSE cmds[i]
    BY DEF BeginRun, Discarded, Pending
  <2>2. cmds[i] \in Entries
    BY <1>0, Entry
  <2> QED
    BY <2>1, <2>2 DEF Entries
<1>4. ASSUME NEW i \in DOMAIN cmds
      PROVE  /\ cmds'[i].by \subseteq {cmds'[i].during} \ {NoOne}
             /\ cmds'[i].during # NoOne => phase'[cmds'[i].during] = "gone"
  <2>1. cmds[i].during \in Engines \cup {NoOne}
    BY <1>0, Entry
  <2>2. /\ cmds[i].by \subseteq {cmds[i].during} \ {NoOne}
        /\ cmds[i].during # NoOne => phase[cmds[i].during] \in Begun \cup {"stopped", "gone"}
    BY DEF QueueInv, CommandInv
  <2>3. cmds[i].during # NoOne => cmds[i].during # p
    BY <1>0, <2>2 DEF Begun
  <2> QED
    BY <1>1, <1>3, <2>1, <2>2, <2>3 DEF Holding
<1>5. CommandInv'
  BY <1>2, <1>3, <1>4 DEF CommandInv
<1>6. OrderInv'
  BY <1>2, <1>3 DEF OrderInv
<1> QED
  BY <1>5, <1>6

\* What a poll has carried out and what it has marked.
LEMMA PollCarries ==
  ASSUME QueueInv, NEW p \in Engines, Poll(p) \/ \E i \in DOMAIN cmds : PollFails(p, i)
  PROVE  \E S \in SUBSET DOMAIN cmds, marked \in SUBSET DOMAIN cmds :
           /\ CarryOut(p, S, marked) /\ phase' = phase /\ phase[p] = "running"
           /\ marked \subseteq S /\ \A i \in S : cmds[i].done = "no"
           /\ \A i \in S, j \in DOMAIN cmds : cmds[j].done = "no" /\ j <= i => j \in S
           /\ \A i \in S \ marked, j \in DOMAIN cmds : cmds[j].done = "no" /\ j \notin marked => i <= j
           /\ \A i \in marked, j \in DOMAIN cmds : cmds[j].done = "no" /\ j \notin marked => i < j
<1>0. \A i \in DOMAIN cmds : i \in Nat
  BY Entry DEF QueueInv, EngineInv
<1>1. CASE Poll(p)
  <2> DEFINE S == {j \in DOMAIN cmds : cmds[j].done = "no"}
  <2>1. CarryOut(p, S, S) /\ phase' = phase /\ phase[p] = "running"
    BY <1>1 DEF Poll, Free, Pending
  <2> QED
    BY <1>0, <2>1
<1>2. ASSUME NEW i \in DOMAIN cmds, PollFails(p, i)
      PROVE  \E S \in SUBSET DOMAIN cmds, marked \in SUBSET DOMAIN cmds :
           /\ CarryOut(p, S, marked) /\ phase' = phase /\ phase[p] = "running"
           /\ marked \subseteq S /\ \A i_1 \in S : cmds[i_1].done = "no"
           /\ \A i_1 \in S, j \in DOMAIN cmds : cmds[j].done = "no" /\ j <= i_1 => j \in S
           /\ \A i_1 \in S \ marked, j \in DOMAIN cmds :
                cmds[j].done = "no" /\ j \notin marked => i_1 <= j
           /\ \A i_1 \in marked, j \in DOMAIN cmds :
                cmds[j].done = "no" /\ j \notin marked => i_1 < j
  <2> DEFINE S == {j \in DOMAIN cmds : cmds[j].done = "no" /\ j <= i}
             marked == {j \in DOMAIN cmds : cmds[j].done = "no" /\ j < i}
  <2>1. {j \in Pending : j <= i} = S /\ {j \in Pending : j < i} = marked
    BY DEF Pending
  <2>2. CarryOut(p, S, marked) /\ phase' = phase /\ phase[p] = "running"
    BY <1>2, <2>1 DEF PollFails, Free
  <2> QED
    BY <1>0, <2>2
<1> QED
  BY <1>1, <1>2

\* What carrying out some commands and marking some of them does to the queue.
LEMMA CarryOutEntries ==
  ASSUME TypeOK, NEW p \in Engines, NEW S, NEW marked, CarryOut(p, S, marked)
  PROVE  /\ DOMAIN cmds' = DOMAIN cmds
         /\ \A i \in DOMAIN cmds :
              /\ cmds'[i].name = cmds[i].name /\ cmds'[i].during = cmds[i].during
              /\ cmds'[i].by = IF i \in S THEN cmds[i].by \cup {p} ELSE cmds[i].by
              /\ cmds'[i].done = IF i \in marked THEN "yes" ELSE cmds[i].done
<1>1. DOMAIN cmds' = DOMAIN cmds
  BY DEF CarryOut
<1>2. ASSUME NEW i \in DOMAIN cmds
      PROVE  /\ cmds'[i].name = cmds[i].name /\ cmds'[i].during = cmds[i].during
             /\ cmds'[i].by = IF i \in S THEN cmds[i].by \cup {p} ELSE cmds[i].by
             /\ cmds'[i].done = IF i \in marked THEN "yes" ELSE cmds[i].done
  <2>1. cmds[i] \in Entries
    BY Entry
  <2>2. cmds'[i] = [cmds[i] EXCEPT !.by = IF i \in S THEN @ \cup {p} ELSE @,
                                   !.done = IF i \in marked THEN "yes" ELSE @]
    BY DEF CarryOut
  <2> QED
    BY <2>1, <2>2 DEF Entries
<1> QED
  BY <1>1, <1>2

\* A poll carries out a first part of the pending commands, those of its own
\* run, whether a mark is refused or not.
LEMMA PollKeeps ==
  ASSUME QueueInv, NEW p \in Engines, Poll(p) \/ \E i \in DOMAIN cmds : PollFails(p, i)
  PROVE  CommandInv' /\ OrderInv'
<1>0. TypeOK
  BY DEF QueueInv, EngineInv
<1>1. PICK S \in SUBSET DOMAIN cmds, marked \in SUBSET DOMAIN cmds :
           /\ CarryOut(p, S, marked) /\ phase' = phase /\ phase[p] = "running"
           /\ marked \subseteq S /\ \A i \in S : cmds[i].done = "no"
           /\ \A i \in S, j \in DOMAIN cmds : cmds[j].done = "no" /\ j <= i => j \in S
           /\ \A i \in S \ marked, j \in DOMAIN cmds : cmds[j].done = "no" /\ j \notin marked => i <= j
           /\ \A i \in marked, j \in DOMAIN cmds : cmds[j].done = "no" /\ j \notin marked => i < j
  BY PollCarries
<1>2. /\ DOMAIN cmds' = DOMAIN cmds
      /\ \A i \in DOMAIN cmds :
           /\ cmds'[i].during = cmds[i].during
           /\ cmds'[i].by = IF i \in S THEN cmds[i].by \cup {p} ELSE cmds[i].by
           /\ cmds'[i].done = IF i \in marked THEN "yes" ELSE cmds[i].done
  <2>1. CarryOut(p, S, marked)
    BY <1>1
  <2> QED
    BY <1>0, <2>1, CarryOutEntries
<1>3. ASSUME NEW i \in S PROVE cmds[i].during = p /\ p # NoOne
  <2>1. cmds[i].done = "no" /\ phase[p] \in Begun
    BY <1>1 DEF Begun
  <2>2. \A q \in Engines : phase[q] \in Begun => cmds[i].during = q
    BY <2>1 DEF QueueInv, CommandInv
  <2> QED
    BY <2>1, <2>2, Constants DEF NoOne
<1>4. CommandInv'
  <2> SUFFICES ASSUME NEW i \in DOMAIN cmds
               PROVE  /\ cmds'[i].by \subseteq {cmds'[i].during} \ {NoOne}
                      /\ cmds'[i].during # NoOne
                           => phase'[cmds'[i].during] \in Begun \cup {"stopped", "gone"}
                      /\ cmds'[i].done = "discarded" /\ cmds'[i].during # NoOne
                           => phase'[cmds'[i].during] = "gone"
                      /\ cmds'[i].done = "no"
                           => \A q \in Engines : phase'[q] \in Begun => cmds'[i].during = q
    BY <1>2 DEF CommandInv
  <2>1. /\ cmds[i].by \subseteq {cmds[i].during} \ {NoOne}
        /\ cmds[i].during # NoOne => phase[cmds[i].during] \in Begun \cup {"stopped", "gone"}
        /\ cmds[i].done = "discarded" /\ cmds[i].during # NoOne => phase[cmds[i].during] = "gone"
        /\ cmds[i].done = "no" => \A q \in Engines : phase[q] \in Begun => cmds[i].during = q
    BY DEF QueueInv, CommandInv
  <2>2. /\ phase' = phase /\ cmds'[i].during = cmds[i].during
        /\ cmds'[i].by = IF i \in S THEN cmds[i].by \cup {p} ELSE cmds[i].by
        /\ cmds'[i].done = IF i \in marked THEN "yes" ELSE cmds[i].done
    BY <1>1, <1>2
  <2> QED
    BY <1>3, <2>1, <2>2
<1>5. \A i \in DOMAIN cmds : i \in Nat
  BY <1>0, Entry
<1>6. OrderInv'
  <2>1. ASSUME NEW i \in DOMAIN cmds, NEW j \in DOMAIN cmds,
               cmds'[i].done = "no", cmds'[j].done # "no"
        PROVE  j < i
    BY <1>1, <1>2, <2>1 DEF QueueInv, OrderInv
  <2>2. ASSUME NEW i \in DOMAIN cmds, NEW j \in DOMAIN cmds,
               cmds'[i].done = "no", cmds'[j].done = "no", cmds'[i].by # {}
        PROVE  i <= j
    <3>1. i \notin marked /\ j \notin marked /\ cmds[i].done = "no" /\ cmds[j].done = "no"
      BY <1>2, <2>2
    <3>2. CASE i \in S
      BY <1>1, <3>1, <3>2
    <3>3. CASE i \notin S
      BY <1>2, <2>2, <3>1, <3>3 DEF QueueInv, OrderInv
    <3> QED
      BY <3>2, <3>3
  <2> QED
    BY <1>2, <2>1, <2>2 DEF OrderInv
<1> QED
  BY <1>4, <1>6

\* A process on its way: no command is touched, and none of the engines that
\* commands name is forgotten.
LEMMA ProcessKeeps ==
  ASSUME QueueInv, NEW p \in Engines,
         \/ ShellStart(p) \/ TakeLock(p) \/ Started(p) \/ LeaveLoop(p) \/ WriteStopped(p)
         \/ FindLocked(p) \/ StartupFails(p) \/ Crash(p) \/ Release(p)
         \/ \E d \in Dashboards : Spawn(d, p) \/ KillForce(d, p)
  PROVE  CommandInv' /\ OrderInv'
<1>0. phase \in [Engines -> Phases]
  BY DEF QueueInv, EngineInv, TypeOK
<1>1. UNCHANGED cmds /\ \A q \in Engines \ {p} : phase'[q] = phase[q]
  BY <1>0 DEF ShellStart, TakeLock, Started, LeaveLoop, WriteStopped, FindLocked, StartupFails,
              Crash, Release, Spawn, KillForce, End
<1>2. \/ phase[p] = "none" /\ phase'[p] = "launched"
      \/ phase[p] = "launched" /\ phase'[p] = "locked"
      \/ phase[p] \in Begun /\ phase'[p] \in {"running", "stopping", "stopped"}
      \/ phase'[p] = "gone"
  BY <1>0 DEF ShellStart, TakeLock, Started, LeaveLoop, WriteStopped, FindLocked, StartupFails,
              Crash, Release, Spawn, KillForce, End, NextPid, Free, Begun
<1>3. /\ phase[p] \in Begun \cup {"stopped", "gone"} => phase'[p] \in Begun \cup {"stopped", "gone"}
      /\ phase[p] = "gone" => phase'[p] = "gone"
      /\ phase'[p] \in Begun => phase[p] \in Begun
  BY <1>2 DEF Begun
<1> QED
  BY <1>1, <1>3, PhasesKeepCommands

\* Steps that leave phases and queue alone.
LEMMA QueueStands ==
  ASSUME QueueInv, UNCHANGED <<phase, cmds>>
  PROVE  CommandInv' /\ OrderInv'
  BY DEF QueueInv, CommandInv, OrderInv

\* The queue is empty.
LEMMA QueueInitially == Init => QueueInv
<1> SUFFICES ASSUME Init PROVE QueueInv
  OBVIOUS
<1>1. DOMAIN cmds = {}
  BY DEF Init
<1> QED
  BY <1>1, EngineInitially DEF QueueInv, CommandInv, OrderInv

\* Apart from the steps above nobody touches the phases or the commands.
LEMMA QueueStep == QueueInv /\ [Next]_vars => QueueInv'
<1> SUFFICES ASSUME QueueInv, [Next]_vars PROVE CommandInv' /\ OrderInv'
  BY EngineStep DEF QueueInv
<1>1. CASE UNCHANGED vars
  BY <1>1, QueueStands DEF vars, engineVars
<1>2. CASE GoStale
  BY <1>2, QueueStands DEF GoStale, engineVars
<1>3. ASSUME NEW name \in CommandNames, Command(name) \/ Control(name)
      PROVE  CommandInv' /\ OrderInv'
  BY <1>3, EnqueueKeeps DEF Command, Control
<1>4. ASSUME NEW d \in Dashboards, Dashboard(d)
      PROVE  CommandInv' /\ OrderInv'
  <2>1. CASE \E s \in Settings : Save(d, s) \/ \E v \in 1..MaxVersions : Insert(d, s, v)
    BY <2>1, QueueStands DEF Save, Insert, engineVars
  <2>2. CASE Start(d)
    BY <2>2, QueueStands DEF Start, engineVars
  <2>3. ASSUME NEW p \in Engines, Spawn(d, p) \/ KillForce(d, p)
        PROVE  CommandInv' /\ OrderInv'
    BY <2>3, ProcessKeeps
  <2>4. ASSUME NEW p \in Engines, Kill(d, p) \/ KillNobody(d, p) \/ KillDone(d, p)
        PROVE  CommandInv' /\ OrderInv'
    BY <2>4, QueueStands DEF Kill, KillNobody, KillDone, engineVars
  <2> QED
    BY <1>4, <2>1, <2>2, <2>3, <2>4 DEF Dashboard
<1>5. ASSUME NEW p \in Engines, Engine(p)
      PROVE  CommandInv' /\ OrderInv'
  <2>1. CASE BeginRun(p)
    BY <2>1, BeginRunKeeps
  <2>2. CASE Poll(p) \/ \E i \in DOMAIN cmds : PollFails(p, i)
    BY <2>2, PollKeeps
  <2>3. CASE \/ Heartbeat(p) \/ ReloadInvalid(p) \/ Reload(p) \/ ReloadWaits(p)
             \/ ReloadWarmed(p) \/ ReloadFails(p)
    BY <2>3, QueueStands DEF Heartbeat, ReloadInvalid, Reload, ReloadWaits, ReloadWarmed, ReloadFails,
                             engineVars
  <2> QED
    BY <1>5, <2>1, <2>2, <2>3, ProcessKeeps DEF Engine
<1> QED
  BY <1>1, <1>2, <1>3, <1>4, <1>5 DEF Next

\* A command is carried out by the engine it was queued for or by none, and
\* is thrown away only when that engine is gone (discard_pending_commands).
THEOREM CommandsReachTheirEngine == Spec => []OwnCommands
<1>1. QueueInv => OwnCommands
  BY DEF QueueInv, CommandInv, OwnCommands
<1> QED
  BY QueueInitially, QueueStep, <1>1, PTL DEF Spec

-----------------------------------------------------------------------------
(* The order of the commands.  What a series of commands leaves behind is  *)
(* the last of them; a series that comes after another takes its place,    *)
(* also where the two share a command that was repeated.                   *)

\* LastOf, PausedBy and HaltedBy of any queue c.
LastIn(c, S, names) ==
  LET those == {i \in S : c[i].name \in names}
  IN  IF those = {} THEN 0 ELSE CHOOSE i \in those : \A j \in those : j <= i
Verdict(c, S, names, off, b) ==
  LET l == LastIn(c, S, names) IN IF l = 0 THEN b ELSE c[l].name # off

Pausing == {"pause", "halt", "resume"}
Halting == {"halt", "resume_risk"}

\* PausedBy as a verdict of the last command about the pause.
LEMMA PausedIs ==
  ASSUME NEW S, NEW b
  PROVE  PausedBy(S, b) = Verdict(cmds, S, Pausing, "resume", b)
  BY DEF PausedBy, LastOf, Verdict, LastIn, Pausing

\* A set of positions that is not empty has a last one.
LEMMA GreatestExists ==
  ASSUME NEW n \in Nat, NEW T \in SUBSET (1..n), T # {}
  PROVE  \E m \in T : \A j \in T : j <= m
<1> DEFINE above == {k \in Nat : \A j \in T : j <= k}
<1>1. above \subseteq Nat /\ above # {}
  <2>1. n \in above
    OBVIOUS
  <2> QED
    BY <2>1
<1> HIDE DEF above
<1>2. PICK k \in above : \A l \in above : ~(<<l, k>> \in OpToRel(<, Nat))
  BY <1>1, WFMin, NatLessThanWellFounded, Zenon
<1>3. k \in Nat /\ \A j \in T : j <= k
  BY <1>2 DEF above
<1>4. \A l \in above : ~(l < k)
  BY <1>1, <1>2 DEF OpToRel
<1>5. k \in T
  <2> SUFFICES ASSUME k \notin T PROVE FALSE
    OBVIOUS
  <2>1. PICK t \in T : TRUE
    OBVIOUS
  <2>2. \A j \in T : j \in Nat /\ 1 <= j /\ j <= k /\ j # k
    BY <1>3
  <2>3. k - 1 \in Nat /\ \A j \in T : j <= k - 1
    BY <1>3, <2>1, <2>2
  <2>4. k - 1 \in above
    BY <2>3 DEF above
  <2> QED
    BY <1>3, <1>4, <2>4
<1> QED
  BY <1>3, <1>5

\* LastIn is the last position with one of the names, or 0 without any.
LEMMA LastIsGreatest ==
  ASSUME NEW n \in Nat, NEW S \in SUBSET (1..n), NEW c, NEW names
  PROVE  /\ LastIn(c, S, names) = 0 => \A i \in S : c[i].name \notin names
         /\ LastIn(c, S, names) # 0 =>
              /\ LastIn(c, S, names) \in S /\ c[LastIn(c, S, names)].name \in names
              /\ \A i \in S : c[i].name \in names => i <= LastIn(c, S, names)
<1> DEFINE those == {i \in S : c[i].name \in names}
<1>1. CASE those = {}
  <2>1. LastIn(c, S, names) = 0
    BY <1>1 DEF LastIn
  <2> QED
    BY <1>1, <2>1
<1>2. CASE those # {}
  <2>1. \E m \in those : \A j \in those : j <= m
    BY <1>2, GreatestExists
  <2>2. LastIn(c, S, names) = CHOOSE i \in those : \A j \in those : j <= i
    BY <1>2 DEF LastIn
  <2> HIDE DEF those
  <2>3. LastIn(c, S, names) \in those /\ \A j \in those : j <= LastIn(c, S, names)
    BY <2>1, <2>2
  <2> QED
    BY <2>3 DEF those
<1> QED
  BY <1>1, <1>2

\* Nothing is the last of nothing.
LEMMA LastOfNone ==
  ASSUME NEW c, NEW names
  PROVE  LastIn(c, {}, names) = 0
  BY DEF LastIn

\* Only the names of the commands matter.
LEMMA LastOfNames ==
  ASSUME NEW n \in Nat, NEW S \in SUBSET (1..n), NEW names,
         \A i \in S : cmds[i].name = cmds'[i].name
  PROVE  LastIn(cmds, S, names) = LastIn(cmds', S, names)
<1>1. {i \in S : cmds[i].name \in names} = {i \in S : cmds'[i].name \in names}
  OBVIOUS
<1> DEFINE greatest(T) == IF T = {} THEN 0 ELSE CHOOSE i \in T : \A j \in T : j <= i
<1>2. /\ LastIn(cmds, S, names) = greatest({i \in S : cmds[i].name \in names})
      /\ LastIn(cmds', S, names) = greatest({i \in S : cmds'[i].name \in names})
  BY DEF LastIn
<1> HIDE DEF greatest
<1> QED
  BY <1>1, <1>2

\* S comes after A: then S counts, and where S is silent, A.
LEMMA LastOfLater ==
  ASSUME NEW n \in Nat, NEW A \in SUBSET (1..n), NEW S \in SUBSET (1..n),
         NEW c, NEW names,
         \A i \in A \ S, j \in S : i < j
  PROVE  LastIn(c, A \cup S, names) =
           IF LastIn(c, S, names) = 0 THEN LastIn(c, A, names) ELSE LastIn(c, S, names)
<1> DEFINE l == LastIn(c, S, names)
           k == LastIn(c, A, names)
           u == LastIn(c, A \cup S, names)
<1>1. /\ l = 0 => \A i \in S : c[i].name \notin names
      /\ l # 0 => l \in S /\ c[l].name \in names /\ \A i \in S : c[i].name \in names => i <= l
  BY LastIsGreatest
<1>2. /\ k = 0 => \A i \in A : c[i].name \notin names
      /\ k # 0 => k \in A /\ c[k].name \in names /\ \A i \in A : c[i].name \in names => i <= k
  BY LastIsGreatest
<1>3. /\ u = 0 => \A i \in A \cup S : c[i].name \notin names
      /\ u # 0 => /\ u \in A \cup S /\ c[u].name \in names
                  /\ \A i \in A \cup S : c[i].name \in names => i <= u
  <2>1. A \cup S \in SUBSET (1..n)
    OBVIOUS
  <2> QED
    BY <2>1, LastIsGreatest
<1> HIDE DEF l, k, u
<1> SUFFICES u = IF l = 0 THEN k ELSE l
  BY DEF l, k, u
<1>0. \A i \in A \cup S : i \in Nat /\ i # 0
  OBVIOUS
<1>5. CASE l # 0
  <2>1. l \in A \cup S /\ u # 0
    BY <1>1, <1>3, <1>5
  <2>2. l <= u /\ u <= l
    <3>1. /\ u \in A \cup S /\ u \in Nat /\ l \in S /\ l \in Nat
          /\ c[u].name \in names /\ c[l].name \in names /\ l <= u
      BY <1>0, <1>1, <1>3, <1>5, <2>1
    <3>2. CASE u \in S
      BY <1>1, <1>5, <3>1, <3>2
    <3>3. CASE u \notin S
      <4>1. u \in A \ S
        BY <3>1, <3>3
      <4>2. u < l
        BY <3>1, <4>1
      <4> QED
        BY <3>1, <4>2
    <3> QED
      BY <3>2, <3>3
  <2>3. u = l
    <3>1. u \in Nat /\ l \in Nat
      BY <1>0, <1>1, <1>3, <1>5, <2>1
    <3> QED
      BY <2>2, <3>1
  <2> QED
    BY <1>5, <2>3
<1>6. CASE l = 0
  <2>1. \A i \in A \cup S : c[i].name \in names => i \in A
    BY <1>1, <1>6
  <2>2. u = 0 <=> k = 0
    BY <1>2, <1>3, <2>1
  <2>3. k # 0 => u = k
    <3> SUFFICES ASSUME k # 0 PROVE u = k
      OBVIOUS
    <3>1. k \in A /\ u \in A /\ u <= k /\ k <= u
      BY <1>2, <1>3, <2>1, <2>2
    <3> QED
      BY <3>1
  <2> QED
    BY <1>6, <2>2, <2>3
<1> QED
  BY <1>5, <1>6

\* HaltedBy as a verdict of the last command about the halt.
LEMMA HaltedIs ==
  ASSUME NEW n \in Nat, NEW S \in SUBSET (1..n), NEW b
  PROVE  HaltedBy(S, b) = Verdict(cmds, S, Halting, "resume_risk", b)
<1> DEFINE l == LastIn(cmds, S, Halting)
<1>1. HaltedBy(S, b) = IF l = 0 THEN b ELSE cmds[l].name = "halt"
  BY DEF HaltedBy, LastOf, LastIn, Halting
<1>2. Verdict(cmds, S, Halting, "resume_risk", b) = IF l = 0 THEN b ELSE cmds[l].name # "resume_risk"
  BY DEF Verdict
<1>3. l # 0 => cmds[l].name \in Halting
  BY LastIsGreatest
<1> HIDE DEF l
<1>4. l # 0 => (cmds[l].name = "halt" <=> cmds[l].name # "resume_risk")
  BY <1>3 DEF Halting
<1> QED
  BY <1>1, <1>2, <1>4

CarriedBy(p) == {i \in DOMAIN cmds : p \in cmds[i].by}
Carried == {i \in DOMAIN cmds : cmds[i].by # {}}

\* EffectsInOrder, and the process that is about to begin has not been told
\* anything.
EffectsInv ==
  /\ \A p \in Engines : phase[p] \in Begun \cup {"locked"} =>
        mem[p].paused = Verdict(cmds, CarriedBy(p), Pausing, "resume", FALSE)
  /\ halted = Verdict(cmds, Carried, Halting, "resume_risk", FALSE)

\* The commands carried out are positions of the queue.
LEMMA Positions ==
  ASSUME TypeOK
  PROVE  /\ \E n \in Nat : DOMAIN cmds = 1..n
         /\ \A p \in Engines : CarriedBy(p) \subseteq Carried
         /\ Carried \subseteq DOMAIN cmds
<1>1. Len(cmds) \in Nat /\ DOMAIN cmds = 1..Len(cmds)
  BY DEF TypeOK
<1> QED
  BY <1>1 DEF CarriedBy, Carried

\* What an engine carried out last about the pause stands while names do.
LEMMA LastCarriedStands ==
  ASSUME NEW n \in Nat, NEW q \in Engines, CarriedBy(q) \in SUBSET (1..n),
         \A i \in CarriedBy(q) : cmds[i].name = cmds'[i].name
  PROVE  LastIn(cmds, CarriedBy(q), Pausing) = LastIn(cmds', CarriedBy(q), Pausing)
  BY LastOfNames

\* What was carried out last about the halt stands while names do.
LEMMA LastOfAllStands ==
  ASSUME NEW n \in Nat, Carried \in SUBSET (1..n),
         \A i \in Carried : cmds[i].name = cmds'[i].name
  PROVE  LastIn(cmds, Carried, Halting) = LastIn(cmds', Carried, Halting)
  BY LastOfNames

\* A step that carries out nothing.
LEMMA EffectsStand ==
  ASSUME TypeOK, EffectsInv, halted' = halted,
         DOMAIN cmds \subseteq DOMAIN cmds',
         \A i \in DOMAIN cmds : cmds'[i].name = cmds[i].name /\ cmds'[i].by = cmds[i].by,
         \A i \in DOMAIN cmds' \ DOMAIN cmds : cmds'[i].by = {},
         \A q \in Engines : phase'[q] \in Begun \cup {"locked"} =>
            \/ phase[q] \in Begun \cup {"locked"} /\ mem'[q].paused = mem[q].paused
            \/ CarriedBy(q) = {} /\ mem'[q].paused = FALSE
  PROVE  EffectsInv'
<1>1. PICK n \in Nat : DOMAIN cmds = 1..n
  BY Positions
<1>2. Carried \in SUBSET (1..n) /\ Carried' = Carried
  BY <1>1 DEF Carried
<1>3. ASSUME NEW q \in Engines PROVE CarriedBy(q) \in SUBSET (1..n) /\ CarriedBy(q)' = CarriedBy(q)
  BY <1>1 DEF CarriedBy
<1>4. halted' = Verdict(cmds', Carried', Halting, "resume_risk", FALSE)
  <2>1. \A i \in Carried : cmds[i].name = cmds'[i].name
    BY <1>1, <1>2
  <2>2. Verdict(cmds, Carried, Halting, "resume_risk", FALSE) =
          Verdict(cmds', Carried, Halting, "resume_risk", FALSE)
    <3>1. LastIn(cmds, Carried, Halting) = LastIn(cmds', Carried, Halting)
      BY <1>2, <2>1, LastOfAllStands
    <3>2. LastIn(cmds, Carried, Halting) # 0 =>
            cmds[LastIn(cmds, Carried, Halting)].name = cmds'[LastIn(cmds, Carried, Halting)].name
      BY <1>2, <2>1, LastIsGreatest
    <3> QED
      BY <3>1, <3>2 DEF Verdict
  <2> QED
    BY <1>2, <2>2 DEF EffectsInv
<1>5. ASSUME NEW q \in Engines, phase'[q] \in Begun \cup {"locked"}
      PROVE  mem'[q].paused = Verdict(cmds', CarriedBy(q)', Pausing, "resume", FALSE)
  <2>0. CarriedBy(q) \in SUBSET (1..n)
    BY <1>3
  <2>1. \A i \in CarriedBy(q) : cmds[i].name = cmds'[i].name
    BY <1>1, <1>3
  <2>2. Verdict(cmds, CarriedBy(q), Pausing, "resume", FALSE) =
          Verdict(cmds', CarriedBy(q), Pausing, "resume", FALSE)
    <3>1. LastIn(cmds, CarriedBy(q), Pausing) = LastIn(cmds', CarriedBy(q), Pausing)
      BY <2>0, <2>1, LastCarriedStands
    <3>2. LastIn(cmds, CarriedBy(q), Pausing) # 0 =>
            cmds[LastIn(cmds, CarriedBy(q), Pausing)].name = cmds'[LastIn(cmds, CarriedBy(q), Pausing)].name
      BY <1>3, <2>1, LastIsGreatest
    <3> QED
      BY <3>1, <3>2 DEF Verdict
  <2>3. CarriedBy(q) = {} => Verdict(cmds, CarriedBy(q), Pausing, "resume", FALSE) = FALSE
    BY LastOfNone DEF Verdict
  <2> QED
    BY <1>3, <1>5, <2>2, <2>3 DEF EffectsInv
<1> QED
  BY <1>4, <1>5 DEF EffectsInv

\* An engine that has not begun has carried out nothing.
LEMMA NotBegunCarriesNothing ==
  ASSUME QueueInv, NEW p \in Engines, phase[p] \notin Begun \cup {"stopped", "gone"}
  PROVE  CarriedBy(p) = {}
<1> SUFFICES ASSUME NEW i \in DOMAIN cmds, p \in cmds[i].by PROVE FALSE
  BY DEF CarriedBy
<1>1. cmds[i].during = p /\ p # NoOne
  BY DEF QueueInv, CommandInv
<1> QED
  BY <1>1 DEF QueueInv, CommandInv

\* What a poll carries out comes after all that has been carried out.
LEMMA PollIsLater ==
  ASSUME QueueInv, NEW S \in SUBSET DOMAIN cmds,
         \A i \in S : cmds[i].done = "no",
         \A i \in S, j \in DOMAIN cmds : cmds[j].done = "no" /\ j <= i => j \in S
  PROVE  \A i \in Carried \ S, j \in S : i < j
<1> SUFFICES ASSUME NEW i \in Carried \ S, NEW j \in S PROVE i < j
  OBVIOUS
<1>1. i \in DOMAIN cmds /\ cmds[i].by # {} /\ j \in DOMAIN cmds /\ cmds[j].done = "no"
  BY DEF Carried
<1>2. CASE cmds[i].done = "no"
  BY <1>1, <1>2 DEF QueueInv, OrderInv
<1>3. CASE cmds[i].done # "no"
  BY <1>1, <1>3 DEF QueueInv, OrderInv
<1> QED
  BY <1>2, <1>3

\* After a poll, also one that repeats commands behind a refused mark, the last
\* command decides.
LEMMA PollEffects ==
  ASSUME QueueInv, EffectsInv, NEW p \in Engines,
         Poll(p) \/ \E i \in DOMAIN cmds : PollFails(p, i)
  PROVE  EffectsInv'
<1>0. TypeOK
  BY DEF QueueInv, EngineInv
<1>1. PICK S \in SUBSET DOMAIN cmds, marked \in SUBSET DOMAIN cmds :
           /\ CarryOut(p, S, marked) /\ phase' = phase /\ phase[p] = "running"
           /\ marked \subseteq S /\ \A i \in S : cmds[i].done = "no"
           /\ \A i \in S, j \in DOMAIN cmds : cmds[j].done = "no" /\ j <= i => j \in S
           /\ \A i \in S \ marked, j \in DOMAIN cmds : cmds[j].done = "no" /\ j \notin marked => i <= j
           /\ \A i \in marked, j \in DOMAIN cmds : cmds[j].done = "no" /\ j \notin marked => i < j
  BY PollCarries
<1>2. PICK n \in Nat : DOMAIN cmds = 1..n
  BY <1>0, Positions
<1>3. \A i \in Carried \ S, j \in S : i < j
  BY <1>1, PollIsLater
<1>4. /\ \A q \in Engines \ {p} : mem'[q] = mem[q]
      /\ mem'[p].paused = PausedBy(S, mem[p].paused)
      /\ halted' = HaltedBy(S, halted)
  <2>1. CarryOut(p, S, marked)
    BY <1>1
  <2> QED
    BY <1>0, <2>1, CarryOutEffect
<1>5. /\ DOMAIN cmds' = DOMAIN cmds
      /\ \A i \in DOMAIN cmds :
            /\ cmds'[i].name = cmds[i].name
            /\ cmds'[i].by = IF i \in S THEN cmds[i].by \cup {p} ELSE cmds[i].by
  <2>1. CarryOut(p, S, marked)
    BY <1>1
  <2> QED
    BY <1>0, <2>1, CarryOutEntries
<1>6. /\ Carried' = Carried \cup S /\ CarriedBy(p)' = CarriedBy(p) \cup S
      /\ \A q \in Engines \ {p} : CarriedBy(q)' = CarriedBy(q)
  <2>1. \A i \in DOMAIN cmds : cmds'[i].by # {} <=> cmds[i].by # {} \/ i \in S
    BY <1>5
  <2>2. \A i \in DOMAIN cmds : p \in cmds'[i].by <=> p \in cmds[i].by \/ i \in S
    BY <1>5
  <2>3. \A i \in DOMAIN cmds : \A q \in Engines \ {p} : q \in cmds'[i].by <=> q \in cmds[i].by
    BY <1>5
  <2>4. Carried' = Carried \cup S
    BY <1>5, <2>1 DEF Carried
  <2>5. CarriedBy(p)' = CarriedBy(p) \cup S
    BY <1>5, <2>2 DEF CarriedBy
  <2>6. \A q \in Engines \ {p} : CarriedBy(q)' = CarriedBy(q)
    BY <1>5, <2>3 DEF CarriedBy
  <2> QED
    BY <2>4, <2>5, <2>6
<1>7. /\ Carried \in SUBSET (1..n) /\ S \in SUBSET (1..n)
      /\ \A q \in Engines : CarriedBy(q) \in SUBSET (1..n)
  BY <1>2 DEF Carried, CarriedBy
<1>8. halted' = Verdict(cmds', Carried', Halting, "resume_risk", FALSE)
  <2>1. halted' = Verdict(cmds, S, Halting, "resume_risk", halted)
    BY <1>4, <1>7, HaltedIs
  <2>2. halted' = Verdict(cmds, Carried \cup S, Halting, "resume_risk", FALSE)
    <3>1. LastIn(cmds, Carried \cup S, Halting) =
            IF LastIn(cmds, S, Halting) = 0 THEN LastIn(cmds, Carried, Halting)
                                            ELSE LastIn(cmds, S, Halting)
      BY <1>3, <1>7, LastOfLater
    <3> QED
      BY <2>1, <3>1 DEF EffectsInv, Verdict
  <2>3. /\ Carried \cup S \in SUBSET (1..n)
        /\ \A i \in Carried \cup S : cmds[i].name = cmds'[i].name
    BY <1>2, <1>5, <1>7
  <2>4. Verdict(cmds, Carried \cup S, Halting, "resume_risk", FALSE) =
          Verdict(cmds', Carried \cup S, Halting, "resume_risk", FALSE)
    <3>1. LastIn(cmds, Carried \cup S, Halting) = LastIn(cmds', Carried \cup S, Halting)
      BY <2>3, LastOfNames
    <3>2. LastIn(cmds, Carried \cup S, Halting) # 0 =>
            cmds[LastIn(cmds, Carried \cup S, Halting)].name = cmds'[LastIn(cmds, Carried \cup S, Halting)].name
      BY <2>3, LastIsGreatest
    <3> QED
      BY <3>1, <3>2 DEF Verdict
  <2> QED
    BY <1>6, <2>2, <2>4
<1>9. mem'[p].paused = Verdict(cmds', CarriedBy(p)', Pausing, "resume", FALSE)
  <2>1. mem[p].paused = Verdict(cmds, CarriedBy(p), Pausing, "resume", FALSE)
    BY <1>1 DEF EffectsInv, Begun
  <2>2. mem'[p].paused = Verdict(cmds, S, Pausing, "resume", mem[p].paused)
    BY <1>4, PausedIs
  <2>3. \A i \in CarriedBy(p) \ S, j \in S : i < j
    BY <1>0, <1>3, Positions
  <2>4. mem'[p].paused = Verdict(cmds, CarriedBy(p) \cup S, Pausing, "resume", FALSE)
    <3>1. LastIn(cmds, CarriedBy(p) \cup S, Pausing) =
            IF LastIn(cmds, S, Pausing) = 0 THEN LastIn(cmds, CarriedBy(p), Pausing)
                                            ELSE LastIn(cmds, S, Pausing)
      BY <1>7, <2>3, LastOfLater
    <3>2. CASE LastIn(cmds, S, Pausing) = 0
      BY <2>1, <2>2, <3>1, <3>2 DEF Verdict
    <3>3. CASE LastIn(cmds, S, Pausing) # 0
      BY <2>2, <3>1, <3>3 DEF Verdict
    <3> QED
      BY <3>2, <3>3
  <2>5. /\ CarriedBy(p) \cup S \in SUBSET (1..n)
        /\ \A i \in CarriedBy(p) \cup S : cmds[i].name = cmds'[i].name
    BY <1>2, <1>5, <1>7
  <2>6. Verdict(cmds, CarriedBy(p) \cup S, Pausing, "resume", FALSE) =
          Verdict(cmds', CarriedBy(p) \cup S, Pausing, "resume", FALSE)
    <3>1. LastIn(cmds, CarriedBy(p) \cup S, Pausing) = LastIn(cmds', CarriedBy(p) \cup S, Pausing)
      BY <2>5, LastOfNames
    <3>2. LastIn(cmds, CarriedBy(p) \cup S, Pausing) # 0 =>
            cmds[LastIn(cmds, CarriedBy(p) \cup S, Pausing)].name = cmds'[LastIn(cmds, CarriedBy(p) \cup S, Pausing)].name
      BY <2>5, LastIsGreatest
    <3> QED
      BY <3>1, <3>2 DEF Verdict
  <2> QED
    BY <1>6, <2>4, <2>6
<1>10. ASSUME NEW q \in Engines \ {p}, phase'[q] \in Begun \cup {"locked"}
       PROVE  mem'[q].paused = Verdict(cmds', CarriedBy(q)', Pausing, "resume", FALSE)
  <2>0. CarriedBy(q) \in SUBSET (1..n)
    BY <1>7
  <2>1. mem'[q].paused = Verdict(cmds, CarriedBy(q), Pausing, "resume", FALSE)
    BY <1>1, <1>4, <1>10 DEF EffectsInv
  <2>2. \A i \in CarriedBy(q) : cmds[i].name = cmds'[i].name
    BY <1>2, <1>5, <1>7
  <2>3. Verdict(cmds, CarriedBy(q), Pausing, "resume", FALSE) =
          Verdict(cmds', CarriedBy(q), Pausing, "resume", FALSE)
    <3>1. LastIn(cmds, CarriedBy(q), Pausing) = LastIn(cmds', CarriedBy(q), Pausing)
      BY <2>0, <2>2, LastCarriedStands
    <3>2. LastIn(cmds, CarriedBy(q), Pausing) # 0 =>
            cmds[LastIn(cmds, CarriedBy(q), Pausing)].name = cmds'[LastIn(cmds, CarriedBy(q), Pausing)].name
      BY <1>7, <2>2, LastIsGreatest
    <3> QED
      BY <3>1, <3>2 DEF Verdict
  <2> QED
    BY <1>6, <2>1, <2>3
<1> QED
  BY <1>8, <1>9, <1>10 DEF EffectsInv

\* Nothing is carried out.
LEMMA EffectsInitially == Init => EffectsInv
<1> SUFFICES ASSUME Init PROVE EffectsInv
  OBVIOUS
<1>1. \A p \in Engines : phase[p] \notin Begun \cup {"locked"}
  BY DEF Init, Begun
<1>2. Carried = {} /\ halted = FALSE
  BY DEF Init, Carried
<1>3. LastIn(cmds, Carried, Halting) = 0
  BY <1>2, LastOfNone
<1> QED
  BY <1>1, <1>2, <1>3 DEF EffectsInv, Verdict

\* Steps that leave the queue, the halt and what engines have been told.
LEMMA EffectsUntouched ==
  ASSUME TypeOK, EffectsInv, UNCHANGED <<cmds, halted>>,
         \A q \in Engines : phase'[q] \in Begun \cup {"locked"} =>
            phase[q] \in Begun \cup {"locked"} /\ mem'[q].paused = mem[q].paused
  PROVE  EffectsInv'
<1>1. /\ DOMAIN cmds \subseteq DOMAIN cmds' /\ DOMAIN cmds' \ DOMAIN cmds = {}
      /\ \A i \in DOMAIN cmds : cmds'[i].name = cmds[i].name /\ cmds'[i].by = cmds[i].by
  OBVIOUS
<1> QED
  BY <1>1, EffectsStand

\* A queued command has no effect yet.
LEMMA EnqueueEffects ==
  ASSUME QueueInv, EffectsInv, NEW name \in CommandNames, Enqueue(name)
  PROVE  EffectsInv'
<1> DEFINE new == [name |-> name, done |-> "no", during |-> Current, by |-> {}]
           n == Len(cmds)
<1>0. TypeOK /\ n \in Nat /\ DOMAIN cmds = 1..n
  BY DEF QueueInv, EngineInv, TypeOK
<1>1. cmds' = Append(cmds, new) /\ phase' = phase /\ mem' = mem /\ halted' = halted /\ new.by = {}
  BY DEF Enqueue, engineVars
<1> HIDE DEF new, n
<1>2. DOMAIN cmds' = 1..n+1 /\ cmds'[n+1] = new /\ \A i \in 1..n : cmds'[i] = cmds[i]
  BY <1>0, <1>1 DEF n, TypeOK
<1>3. /\ DOMAIN cmds \subseteq DOMAIN cmds'
      /\ \A i \in DOMAIN cmds : cmds'[i].name = cmds[i].name /\ cmds'[i].by = cmds[i].by
      /\ \A i \in DOMAIN cmds' \ DOMAIN cmds : cmds'[i].by = {}
  BY <1>0, <1>1, <1>2
<1> QED
  BY <1>0, <1>1, <1>3, EffectsStand

\* An engine begins unpaused, with nothing carried out.
LEMMA BeginRunEffects ==
  ASSUME QueueInv, EffectsInv, NEW p \in Engines, BeginRun(p)
  PROVE  EffectsInv'
<1>0. TypeOK /\ phase[p] = "locked" /\ mem' = mem /\ halted' = halted
  BY DEF QueueInv, EngineInv, BeginRun
<1>1. DOMAIN cmds' = DOMAIN cmds
  BY DEF BeginRun
<1>2. ASSUME NEW i \in DOMAIN cmds
      PROVE  cmds'[i].name = cmds[i].name /\ cmds'[i].by = cmds[i].by
  <2>1. cmds'[i] = IF cmds[i].done = "no" THEN [cmds[i] EXCEPT !.done = "discarded"] ELSE cmds[i]
    BY DEF BeginRun, Discarded, Pending
  <2>2. cmds[i] \in Entries
    BY <1>0, Entry
  <2> QED
    BY <2>1, <2>2 DEF Entries
<1>3. \A q \in Engines : phase'[q] \in Begun \cup {"locked"} => phase[q] \in Begun \cup {"locked"}
  BY <1>0 DEF BeginRun, TypeOK
<1>4. /\ DOMAIN cmds \subseteq DOMAIN cmds' /\ DOMAIN cmds' \ DOMAIN cmds = {}
      /\ \A i \in DOMAIN cmds : cmds'[i].name = cmds[i].name /\ cmds'[i].by = cmds[i].by
  BY <1>1, <1>2
<1> QED
  BY <1>0, <1>3, <1>4, EffectsStand

\* The engine that has taken the lock has not been told anything.
LEMMA TakeLockEffects ==
  ASSUME QueueInv, EffectsInv, NEW p \in Engines, TakeLock(p)
  PROVE  EffectsInv'
<1>0. TypeOK /\ UNCHANGED <<cmds, halted>>
  BY DEF QueueInv, EngineInv, TakeLock
<1>1. /\ \A q \in Engines \ {p} : phase'[q] = phase[q] /\ mem'[q] = mem[q]
      /\ phase[p] = "launched"
  BY <1>0 DEF TakeLock, TypeOK
<1>2. CarriedBy(p) = {}
  BY <1>1, NotBegunCarriesNothing DEF Begun
<1>3. mem'[p].paused = FALSE
  <2>1. TypeOK' /\ ~mem'[p].paused
    BY TakeLockStep DEF QueueInv, EngineInv
  <2>2. mem'[p].paused \in BOOLEAN
    BY <2>1 DEF TypeOK, Memories
  <2> QED
    BY <2>1, <2>2
<1>4. /\ DOMAIN cmds \subseteq DOMAIN cmds' /\ DOMAIN cmds' \ DOMAIN cmds = {}
      /\ \A i \in DOMAIN cmds : cmds'[i].name = cmds[i].name /\ cmds'[i].by = cmds[i].by
  BY <1>0
<1>5. \A q \in Engines : phase'[q] \in Begun \cup {"locked"} =>
         \/ phase[q] \in Begun \cup {"locked"} /\ mem'[q].paused = mem[q].paused
         \/ CarriedBy(q) = {} /\ mem'[q].paused = FALSE
  BY <1>1, <1>2, <1>3
<1> QED
  BY <1>0, <1>4, <1>5, EffectsStand

\* A process on its way or at its end.
LEMMA ProcessEffects ==
  ASSUME QueueInv, EffectsInv, NEW p \in Engines,
         \/ ShellStart(p) \/ Started(p) \/ LeaveLoop(p) \/ WriteStopped(p)
         \/ FindLocked(p) \/ StartupFails(p) \/ Crash(p) \/ Release(p)
         \/ \E d \in Dashboards : Spawn(d, p) \/ KillForce(d, p)
  PROVE  EffectsInv'
<1>0. TypeOK /\ phase \in [Engines -> Phases] /\ mem \in [Engines -> Memories]
  BY DEF QueueInv, EngineInv, TypeOK
<1>1. UNCHANGED <<cmds, halted>>
  BY DEF ShellStart, Started, LeaveLoop, WriteStopped, FindLocked, StartupFails,
         Crash, Release, Spawn, KillForce
<1>2. \A q \in Engines \ {p} : phase'[q] = phase[q] /\ mem'[q] = mem[q]
  BY <1>0 DEF ShellStart, Started, LeaveLoop, WriteStopped, FindLocked, StartupFails,
              Crash, Release, Spawn, KillForce, End
<1>3. phase'[p] \in Begun \cup {"locked"} =>
         phase[p] \in Begun \cup {"locked"} /\ mem'[p] = mem[p]
  BY <1>0 DEF ShellStart, Started, LeaveLoop, WriteStopped, FindLocked, StartupFails,
              Crash, Release, Spawn, KillForce, End, Free, Begun
<1> QED
  BY <1>0, <1>1, <1>2, <1>3, EffectsUntouched

\* Every step keeps pause and halt what the last command says.
LEMMA EffectsStep == QueueInv /\ EffectsInv /\ [Next]_vars => EffectsInv'
<1> SUFFICES ASSUME QueueInv, EffectsInv, [Next]_vars PROVE EffectsInv'
  OBVIOUS
<1>0. TypeOK /\ EngineInv
  BY DEF QueueInv, EngineInv
<1>1. ASSUME UNCHANGED <<phase, mem, cmds, halted>> PROVE EffectsInv'
  BY <1>0, <1>1, EffectsUntouched
<1>2. CASE UNCHANGED vars
  BY <1>1, <1>2 DEF vars, engineVars
<1>3. CASE GoStale
  BY <1>1, <1>3 DEF GoStale, engineVars
<1>4. ASSUME NEW name \in CommandNames, Command(name) \/ Control(name)
      PROVE  EffectsInv'
  BY <1>4, EnqueueEffects DEF Command, Control
<1>5. ASSUME NEW p \in Engines,
             \/ ReloadInvalid(p) \/ Reload(p) \/ ReloadWaits(p) \/ ReloadWarmed(p) \/ ReloadFails(p)
             \/ \E d \in Dashboards : Kill(d, p)
      PROVE  EffectsInv'
  <2>1. UNCHANGED <<phase, cmds, halted>> /\ \A q \in Engines : mem'[q].paused = mem[q].paused
    BY <1>0, <1>5, ReloadStep
  <2> QED
    BY <1>0, <2>1, EffectsUntouched
<1>6. ASSUME NEW d \in Dashboards, Dashboard(d)
      PROVE  EffectsInv'
  <2>1. CASE \E s \in Settings : Save(d, s) \/ \E v \in 1..MaxVersions : Insert(d, s, v)
    BY <1>1, <2>1 DEF Save, Insert, engineVars
  <2>2. CASE Start(d)
    BY <1>1, <2>2 DEF Start, engineVars
  <2>3. ASSUME NEW p \in Engines, Spawn(d, p) \/ KillForce(d, p)
        PROVE  EffectsInv'
    BY <2>3, ProcessEffects
  <2>4. ASSUME NEW p \in Engines, KillNobody(d, p) \/ KillDone(d, p)
        PROVE  EffectsInv'
    BY <1>1, <2>4 DEF KillNobody, KillDone, engineVars
  <2> QED
    BY <1>5, <1>6, <2>1, <2>2, <2>3, <2>4 DEF Dashboard
<1>7. ASSUME NEW p \in Engines, Engine(p)
      PROVE  EffectsInv'
  <2>1. CASE BeginRun(p)
    BY <2>1, BeginRunEffects
  <2>2. CASE TakeLock(p)
    BY <2>2, TakeLockEffects
  <2>3. CASE Poll(p) \/ \E i \in DOMAIN cmds : PollFails(p, i)
    BY <2>3, PollEffects
  <2>4. CASE Heartbeat(p)
    BY <1>1, <2>4 DEF Heartbeat, engineVars
  <2> QED
    BY <1>5, <1>7, <2>1, <2>2, <2>3, <2>4, ProcessEffects DEF Engine
<1> QED
  BY <1>2, <1>3, <1>4, <1>6, <1>7 DEF Next

\* A pause or a halt in force is the one the last command says that was
\* carried out, whatever was repeated after a refused mark (poll_commands).
THEOREM EffectsFollowCommands == Spec => []EffectsInOrder
<1>1. QueueInv /\ EffectsInv => EffectsInOrder
  <2> SUFFICES ASSUME QueueInv, EffectsInv PROVE EffectsInOrder
    OBVIOUS
  <2>1. PICK n \in Nat : DOMAIN cmds = 1..n
    BY Positions DEF QueueInv, EngineInv
  <2>2. halted = HaltedBy(Carried, FALSE)
    <3>1. Carried \in SUBSET (1..n)
      BY <2>1 DEF Carried
    <3> QED
      BY <3>1, HaltedIs DEF EffectsInv
  <2>3. \A p \in Engines : phase[p] \in Begun => mem[p].paused = PausedBy(CarriedBy(p), FALSE)
    BY PausedIs DEF EffectsInv
  <2> QED
    BY <2>2, <2>3 DEF EffectsInOrder, Carried, CarriedBy
<1> QED
  BY QueueInitially, QueueStep, EffectsInitially, EffectsStep, <1>1, PTL DEF Spec

=============================================================================
