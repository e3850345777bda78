---------------------------- MODULE DashboardJobs ----------------------------
(* The background jobs of the dashboard: backtests (app/api/backtests.py) and *)
(* yearly searches (app/api/optimizer.py).  Every job is a task that waits    *)
(* for its runner's gate, loads candle frames page by page through the shared *)
(* limiter of ExchangeClient or from files (app/backtest/loader.py), computes *)
(* in a thread and leaves a record; requests of the web page submit, cancel   *)
(* and delete jobs meanwhile, and the process may be restarted.               *)
EXTENDS ExchangeClient

CONSTANTS
  Backtests, Searches,   \* the jobs a page may submit, each once (fresh ids)
  Keys,                  \* (market, interval, start, end): what names a file
  Wants,                 \* per job: the frames it loads, in order
  Verified,              \* per search: how many of them belong to the next year
  Held,                  \* per key: the candles the exchange has of its market
  First, Last,           \* per key: the range from start up to, not with, end
  PageSize,              \* MAX_CANDLE_COUNT
  MaxRequests,           \* max_requests of get_candles_range
  MaxJobs, KeepJobs,     \* MAX_JOBS in memory, KEEP_JOBS in the database
  MaxSubmits,            \* bound: jobs submitted in a behaviour
  MaxAsks,               \* bound: requests to cancel or delete
  MaxRestarts            \* bound: restarts of the dashboard

Jobs == Backtests \cup Searches

ASSUME JobsAssumption ==
  /\ Callers = Jobs
  /\ Backtests \cap Searches = {}
  /\ Wants \in [Jobs -> Seq(Keys)]
  /\ Verified \in [Searches -> Nat]
  /\ Held \in [Keys -> SUBSET Nat]
  /\ First \in [Keys -> Nat] /\ Last \in [Keys -> Nat]
  /\ {PageSize, MaxRequests, MaxJobs, KeepJobs} \subseteq Nat \ {0}

VARIABLES
  job,       \* per job: status and progress of the object, and where its task is
  memory,    \* the ids in the runners' jobs dicts
  order,     \* history: the ids in the order of created_at
  gate,      \* per runner: the Semaphore(1): its holder and the waiters
  asked,     \* requests of the page that wait for a cancelled task
  threads,   \* jobs whose computation runs in a thread (to_thread)
  page,      \* per job: get_candles_range: `to`, what is collected, requests left
  files,     \* per key: the candles in the cache file; {} when there is none
  rows,      \* per backtest: the status in the database, or None
  found,     \* searches whose result is in data/optimize
  deleted,   \* history: backtests that were deleted
  asks, restarts   \* bounded counters

jobVars == <<job, memory, order, gate, asked, threads, page, files, rows, found,
             deleted, asks, restarts>>
vars == <<clientVars, jobVars>>

None == "none"
Live == {"queued", "running"}
Over == {"done", "error", "cancelled"}

(* The runner of a job owns one gate.                                         *)
Runner(j) == IF j \in Backtests THEN "backtest" ELSE "optimize"

Blank == [status |-> None, progress |-> 0, kept |-> 0, phase |-> "candles", at |-> "nowhere"]
FirstPage(k) == [to |-> Last[k], got |-> {}, left |-> MaxRequests]
NoPage == [to |-> 0, got |-> {}, left |-> 0]

Init ==
  /\ ClientInit
  /\ job = [j \in Jobs |-> Blank]
  /\ memory = {} /\ order = <<>> /\ threads = {} /\ deleted = {}
  /\ gate = [r \in {"backtest", "optimize"} |-> <<>>]
  /\ asked = [j \in Jobs |-> {}]
  /\ page = [j \in Jobs |-> NoPage]
  /\ files = [k \in Keys |-> {}]
  /\ rows = [b \in Backtests |-> None]
  /\ found \in SUBSET Searches
  /\ asks = 0 /\ restarts = 0

Frame(j) == Wants[j][job[j].progress + 1]

(* _persist: the row is written again, whatever became of it.                 *)
Saved(j, status) == IF j \in Backtests THEN [rows EXCEPT ![j] = status] ELSE rows

-----------------------------------------------------------------------------
(* Requests of the page *)

(* _trim / _new_job: the oldest finished jobs of the runner make room.        *)
Trimmed(r) ==
  LET mine == {j \in memory : Runner(j) = r}
      over == {i \in DOMAIN order : order[i] \in mine /\ job[order[i]].status \in Over}
  IN {order[i] : i \in {o \in over :
        Cardinality({k \in over : k < o}) + MaxJobs <= Cardinality(mine)}}

(* trim_backtest_jobs: only the rows of the latest KeepJobs jobs stay.        *)
Newer(b) == {i \in DOMAIN order : i > CHOOSE k \in DOMAIN order : order[k] = b}
KeptRows(stored, latest) ==
  [b \in Backtests |->
     IF stored[b] # None /\ b # latest
        /\ Cardinality({i \in Newer(b) : order[i] \in Backtests /\ stored[order[i]] # None}) + 1 >= KeepJobs
     THEN None ELSE stored[b]]

Submit(j) ==
  /\ Len(order) < MaxSubmits
  /\ \A i \in DOMAIN order : order[i] # j
  /\ order' = Append(order, j)
  /\ memory' = (memory \ Trimmed(Runner(j))) \cup {j}
  /\ job' = [job EXCEPT ![j] = [Blank EXCEPT !.status = "queued", !.at = "gate"]]
  /\ rows' = KeptRows(Saved(j, "queued"), j)
  /\ gate' = [gate EXCEPT ![Runner(j)] = Append(@, j)]
  /\ UNCHANGED <<clientVars, asked, threads, page, files, found, deleted, asks, restarts>>

TaskDone(j) == job[j].at \in {"ended", "never began"}

(* cancel, and the cancel that delete begins with: the task gets its          *)
(* CancelledError, whatever it waits for; the request waits for the task.  To *)
(* cancel a job that is over changes nothing.                                 *)
AskCancel(j, what) ==
  /\ j \in memory
  /\ \/ what = "cancel" /\ job[j].status \in Live
     \/ what = "delete" /\ j \in Backtests
  /\ what \notin asked[j]
  /\ asks < MaxAsks /\ asks' = asks + 1
  /\ asked' = [asked EXCEPT ![j] = @ \cup {what}]
  /\ job' = IF TaskDone(j) THEN job
            ELSE [job EXCEPT ![j].at = IF @ \in {"gate", "unwinding early"}
                                       THEN "unwinding early" ELSE "unwinding"]
  /\ UNCHANGED <<clientVars, memory, order, gate, threads, page, files, rows, found,
                 deleted, restarts>>

(* The rest of cancel, once the task is over.                                 *)
AfterCancel(j) ==
  IF j \in Searches \/ job[j].status \in Live
  THEN [job EXCEPT ![j].status = "cancelled"] ELSE job

CancelReturns(j) ==
  /\ "cancel" \in asked[j] /\ TaskDone(j)
  /\ asked' = [asked EXCEPT ![j] = @ \ {"cancel"}]
  /\ job' = AfterCancel(j)
  /\ UNCHANGED <<clientVars, memory, order, gate, threads, page, files, rows, found,
                 deleted, asks, restarts>>

\* A mutant of DeleteReturns: the task is cancelled but not waited for.
DeleteAtOnce(j) ==
  /\ "delete" \in asked[j]
  /\ asked' = [asked EXCEPT ![j] = @ \ {"delete"}]
  /\ memory' = memory \ {j}
  /\ rows' = [rows EXCEPT ![j] = None]
  /\ deleted' = deleted \cup {j}
  /\ UNCHANGED <<clientVars, job, order, gate, threads, page, files, found, asks, restarts>>

DeleteReturns(j) ==
  /\ "delete" \in asked[j] /\ TaskDone(j)
  /\ asked' = [asked EXCEPT ![j] = @ \ {"delete"}]
  /\ job' = AfterCancel(j)
  /\ memory' = memory \ {j}
  /\ rows' = [rows EXCEPT ![j] = None]
  /\ deleted' = deleted \cup {j}
  /\ UNCHANGED <<clientVars, order, gate, threads, page, files, found, asks, restarts>>

(* delete of a job that only the database still knows.                        *)
DeleteRow(b) ==
  /\ b \notin memory /\ rows[b] # None
  /\ asks < MaxAsks /\ asks' = asks + 1
  /\ rows' = [rows EXCEPT ![b] = None]
  /\ deleted' = deleted \cup {b}
  /\ UNCHANGED <<clientVars, job, memory, order, gate, asked, threads, page, files, found, restarts>>

-----------------------------------------------------------------------------
(* A job's task *)

Released(j) == [gate EXCEPT ![Runner(j)] = SelectSeq(@, LAMBDA other : other # j)]

(* The end of a job that has had the gate: status, finished_at, the record,   *)
(* and the gate.                                                              *)
Finish(j, status) ==
  /\ job' = [job EXCEPT ![j].status = status, ![j].at = "ended"]
  /\ rows' = Saved(j, status)
  /\ gate' = Released(j)
  /\ page' = [page EXCEPT ![j] = NoPage]

(* The gate is acquired: a search whose result is on disk is done at once.    *)
Enter(j) ==
  /\ job[j].at = "gate" /\ Head(gate[Runner(j)]) = j
  /\ IF j \in found THEN Finish(j, "done")
     ELSE /\ job' = [job EXCEPT ![j].status = "running", ![j].at = "load"]
          /\ rows' = Saved(j, "running")
          /\ UNCHANGED <<gate, page>>
  /\ UNCHANGED <<clientVars, memory, order, asked, threads, files, found, deleted, asks, restarts>>

(* A search looks at its frames between two phases.                           *)
ToLoad(j) ==
  /\ job[j].at = "load" /\ job[j].progress < Len(Wants[j])
  /\ j \in Searches => job[j].phase = "verify" \/ job[j].progress < Len(Wants[j]) - Verified[j]

(* load_candles: the file if there is one, else the first page is asked for.  *)
LoadFile(j) ==
  /\ ToLoad(j) /\ files[Frame(j)] # {}
  /\ job' = [job EXCEPT ![j].at = "loaded"]
  /\ UNCHANGED <<clientVars, memory, order, gate, asked, threads, page, files, rows, found,
                 deleted, asks, restarts>>

LoadPages(j) ==
  /\ ToLoad(j) /\ files[Frame(j)] = {}
  /\ job' = [job EXCEPT ![j].at = "paging"]
  /\ page' = [page EXCEPT ![j] = FirstPage(Frame(j))]
  /\ Ask(j)
  /\ UNCHANGED <<memory, order, gate, asked, threads, files, rows, found, deleted, asks, restarts>>

(* GET /v1/candles: the PageSize latest candles before `to`.                  *)
Batch(k, to) ==
  LET before == {n \in Held[k] : n < to}
  IN {n \in before : Cardinality({m \in before : m > n}) < PageSize}

Oldest(batch) == CHOOSE n \in batch : \A o \in batch : n <= o
InRange(k, candles) == {n \in candles : First[k] <= n /\ n <= Last[k]}

(* One turn of get_candles_range: the batch is collected; the range is        *)
(* complete, or `to` moves to the oldest candle and the next page is asked    *)
(* for, while max_requests lasts.                                             *)
Collected(j) == page[j].got \cup InRange(Frame(j), Batch(Frame(j), page[j].to))

LastPage(j) ==
  LET batch == Batch(Frame(j), page[j].to)
  IN \/ Cardinality(batch) < PageSize
     \/ \E n \in batch : n <= First[Frame(j)]
     \/ page[j].left = 1

\* A mutant of NextTo: `to` taken for inclusive.
NextToBefore(j) == Oldest(Batch(Frame(j), page[j].to)) - 1

NextTo(j) == Oldest(Batch(Frame(j), page[j].to))

NextPage(j) ==
  /\ job[j].at = "paging" /\ call[j].step = "answered" /\ ~LastPage(j)
  /\ page' = [page EXCEPT ![j] = [to |-> NextTo(j), got |-> Collected(j), left |-> @.left - 1]]
  /\ Ask(j)
  /\ UNCHANGED <<job, memory, order, gate, asked, threads, files, rows, found, deleted, asks, restarts>>

SaveFile(j) ==
  /\ job[j].at = "paging" /\ call[j].step = "answered" /\ LastPage(j)
  /\ Collected(j) # {}
  /\ files' = [files EXCEPT ![Frame(j)] = Collected(j)]
  /\ page' = [page EXCEPT ![j] = NoPage]
  /\ job' = [job EXCEPT ![j].at = "loaded"]
  /\ Conclude(j, "idle")
  /\ UNCHANGED <<line, events, blocked, quiet, recent, forgotten, troubles, memory, order, gate, asked,
                 threads, rows, found, deleted, asks, restarts>>

(* The frame is counted, had or not; a backtest writes its record again.      *)
CountFrame(j, kept) ==
  /\ job' = [job EXCEPT ![j].progress = @ + 1, ![j].kept = @ + kept, ![j].at = "load"]
  /\ rows' = Saved(j, "running")

(* No candles in the range, or the client gave up: the frame is an error of   *)
(* the backtest, or its market is left out of the search.                     *)
LoadFails(j) ==
  /\ job[j].at = "paging"
  /\ \/ call[j].step = "failed"
     \/ call[j].step = "answered" /\ LastPage(j) /\ Collected(j) = {}
  /\ page' = [page EXCEPT ![j] = NoPage]
  /\ CountFrame(j, 0)
  /\ Conclude(j, "idle")
  /\ UNCHANGED <<line, events, blocked, quiet, recent, forgotten, troubles, memory, order, gate, asked,
                 threads, files, found, deleted, asks, restarts>>

(* A search keeps its frames until those of the phase are there.              *)
KeepFrame(j) ==
  /\ j \in Searches /\ job[j].at = "loaded"
  /\ CountFrame(j, 1)
  /\ UNCHANGED <<clientVars, memory, order, gate, asked, threads, page, files, found, deleted, asks, restarts>>

(* A backtest computes on every frame, a search at the end of a phase.        *)
PhaseOver(j) ==
  /\ job[j].at = "load"
  /\ job[j].progress = Len(Wants[j]) - (IF job[j].phase = "candles" THEN Verified[j] ELSE 0)

StartThread(j) ==
  /\ \/ j \in Backtests /\ job[j].at = "loaded"
     \/ j \in Searches /\ PhaseOver(j) /\ job[j].kept > 0
  /\ job' = [job EXCEPT ![j].at = "thread"]
  /\ threads' = threads \cup {j}
  /\ UNCHANGED <<clientVars, memory, order, gate, asked, page, files, rows, found, deleted, asks, restarts>>

(* The computation ends; nobody waits for that of a cancelled job.            *)
ThreadEnds(j) ==
  /\ j \in threads
  /\ threads' = threads \ {j}
  /\ \/ job[j].at # "thread" /\ UNCHANGED <<job, rows>>
     \/ job[j].at = "thread" /\ j \in Backtests /\ CountFrame(j, 1)
     \/ /\ job[j].at = "thread" /\ j \in Searches
        /\ job' = [job EXCEPT ![j].phase = "verify", ![j].kept = 0, ![j].at = "load"]
        /\ UNCHANGED rows
  /\ UNCHANGED <<clientVars, memory, order, gate, asked, page, files, found, deleted, asks, restarts>>

(* The computation of a search raises.                                        *)
ThreadRaises(j) ==
  /\ j \in threads /\ j \in Searches /\ job[j].at = "thread"
  /\ threads' = threads \ {j}
  /\ Finish(j, "error")
  /\ UNCHANGED <<clientVars, memory, order, asked, files, found, deleted, asks, restarts>>

(* Everything is done: a search writes its result, a new file that replaces   *)
(* the old one in one step.                                                   *)
Done(j) ==
  /\ \/ j \in Backtests /\ job[j].at = "load" /\ job[j].progress = Len(Wants[j])
     \/ j \in Searches /\ PhaseOver(j) /\ job[j].phase = "verify" /\ job[j].kept = 0
  /\ Finish(j, "done")
  /\ found' = IF j \in Searches THEN found \cup {j} ELSE found
  /\ UNCHANGED <<clientVars, memory, order, asked, threads, files, deleted, asks, restarts>>

(* No market of the search has candles.                                       *)
NothingLoaded(j) ==
  /\ j \in Searches /\ PhaseOver(j) /\ job[j].phase = "candles" /\ job[j].kept = 0
  /\ Finish(j, "error")
  /\ UNCHANGED <<clientVars, memory, order, asked, threads, files, found, deleted, asks, restarts>>

(* The CancelledError reaches the task: from an await of its work, the record *)
(* says cancelled; while it waited for the gate, nothing is written.          *)
Unwind(j) ==
  /\ job[j].at = "unwinding"
  /\ Finish(j, "cancelled")
  /\ Abandon(j)
  /\ UNCHANGED <<memory, order, asked, threads, files, found, deleted, asks, restarts>>

UnwindEarly(j) ==
  /\ job[j].at = "unwinding early"
  /\ job' = [job EXCEPT ![j].at = "never began"]
  /\ gate' = Released(j)
  /\ UNCHANGED <<clientVars, memory, order, asked, threads, page, files, rows, found, deleted, asks, restarts>>

(* The process of the dashboard ends at any moment; files and rows stay, and  *)
(* so does what the exchange has asked for and counted.                       *)
Restart ==
  /\ restarts < MaxRestarts
  /\ restarts' = restarts + 1
  /\ Forget
  /\ job' = [j \in Jobs |-> Blank]
  /\ memory' = {} /\ threads' = {}
  /\ gate' = [r \in DOMAIN gate |-> <<>>]
  /\ asked' = [j \in Jobs |-> {}]
  /\ page' = [j \in Jobs |-> NoPage]
  /\ UNCHANGED <<order, files, rows, found, deleted, asks>>

-----------------------------------------------------------------------------
ClientStep(j) ==
  /\ Look(j) \/ Answer(j) \/ TryAgain(j)
  /\ job[j].at = "paging"
  /\ UNCHANGED jobVars

TaskStep(j) ==
  \/ Enter(j) \/ LoadFile(j) \/ LoadPages(j) \/ NextPage(j) \/ SaveFile(j) \/ LoadFails(j)
  \/ KeepFrame(j) \/ StartThread(j) \/ Done(j) \/ NothingLoaded(j) \/ Unwind(j) \/ UnwindEarly(j)
  \/ ClientStep(j)

RequestEnds(j) == CancelReturns(j) \/ DeleteReturns(j)

TimePasses == Tick /\ UNCHANGED jobVars

Next ==
  \/ \E j \in Jobs : TaskStep(j) \/ ThreadEnds(j) \/ ThreadRaises(j) \/ RequestEnds(j)
  \/ \E j \in Jobs : Submit(j)
  \/ \E j \in Jobs, what \in {"cancel", "delete"} : AskCancel(j, what)
  \/ \E b \in Backtests : DeleteRow(b)
  \/ TimePasses
  \/ Restart

Spec == Init /\ [][Next]_vars

(* The event loop does not stop while a task, a thread or a request is ready, *)
(* timers run, and a request is answered or times out (every job has finitely *)
(* many steps, so that no job need be singled out).                           *)
Fairness ==
  /\ WF_vars(\E j \in Jobs : TaskStep(j))
  /\ WF_vars(\E j \in Jobs : ThreadEnds(j))
  /\ WF_vars(\E j \in Jobs : RequestEnds(j))
  /\ WF_vars(TimePasses)

FairSpec == Spec /\ Fairness

-----------------------------------------------------------------------------
(* The variables keep their types; a gate and the limiter's lock are lines    *)
(* without repetition, and only a job that has the gate works.                *)
TypeOK ==
  /\ ClientTypeOK
  /\ job \in [Jobs -> [status : Live \cup Over \cup {None}, progress : Nat, kept : Nat,
                       phase : {"candles", "verify"},
                       at : {"nowhere", "gate", "load", "paging", "loaded", "thread", "ended",
                             "unwinding", "unwinding early", "never began"}]]
  /\ memory \subseteq Jobs /\ threads \subseteq Jobs /\ found \subseteq Searches
  /\ deleted \subseteq Backtests
  /\ \A j \in Jobs : job[j].at \in {"load", "paging", "loaded", "thread"}
                    => gate[Runner(j)] # <<>> /\ Head(gate[Runner(j)]) = j

(* What the database says of a backtest (list_jobs, get_dict after a trim or  *)
(* a restart): a deleted job stays deleted, though its task was at work when  *)
(* the request came (backtests.py:341-362); and once a job that has had the   *)
(* gate is over, its row says how, unless the row is gone (437-439).  A job   *)
(* cancelled while it waits for the gate is left out: its row stays `queued`. *)
RecordsTrue ==
  \A b \in Backtests :
    /\ b \in deleted => rows[b] = None
    /\ job[b].at = "ended" => rows[b] \in {job[b].status, None}
    /\ job[b].at = "ended" => job[b].status \in Over

(* A candle file, which every later job takes for the whole range, holds all  *)
(* candles the exchange has from start up to end, and none twice or from      *)
(* elsewhere (get_candles_range 263-280, load_candles 74-86).                 *)
FramesComplete ==
  \A k \in Keys : files[k] # {} =>
    files[k] = {n \in Held[k] : First[k] <= n /\ n < Last[k]}

(* Every submitted job ends, and with it the work of the runners: no lock of  *)
(* the limiter and no gate is left behind by a job that was cancelled,        *)
(* deleted or failed on the way (backtests.py:288, 388-390;                   *)
(* rate_limiter.py:177).                                                      *)
JobEnds ==
  (\E j \in Jobs : job[j].status \in Live) ~> (\A j \in Jobs : job[j].status \notin Live)
=============================================================================
