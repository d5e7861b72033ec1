----------------------------- MODULE Scheduler -----------------------------
(***************************************************************************)
(* The in-process scheduler (electron/scheduler.ts) over the local task    *)
(* store (electron/tasks.ts), the agent executor (electron/agents/         *)
(* execute.ts, interactive.ts) and the schedules of remote tasks           *)
(* (electron/schedule-overlay.ts), with the clients of the task API.       *)
(*                                                                         *)
(* The clock is abstracted to what a stored fire time says: there is none  *)
(* ("never"), it lies ahead ("later"), it has come ("due"); "ahead" keeps  *)
(* the due tasks soonest first.  Of the run history only the rows whose    *)
(* status is queued or running are kept: no step reads the others.         *)
(***************************************************************************)
EXTENDS Naturals, FiniteSets

CONSTANTS
    Tasks,         \* local task ids
    Remote,        \* (source, task) keys of the overlay
    Interactive,   \* tasks whose flags ask for an interactive run
    Homeless,      \* tasks without a folder
    MaxAttempts,   \* MAX_ATTEMPTS
    MaxConcurrent, \* MAX_CONCURRENT
    Rows,          \* ids of run rows; those of finished runs are used again
    NoTask, NoRow, \* no such task, no such row
    MaxCalls,      \* bound: calls of the task API and the overlay's
    MaxFaults,     \* bound: process deaths and interactive launches that throw
    MaxSessions    \* bound: open interactive sessions

ASSUME SchedulerAssumption ==
    /\ Tasks \intersect Remote = {}
    /\ Interactive \subseteq Tasks /\ Homeless \subseteq Tasks
    /\ MaxAttempts \in Nat \ {0} /\ MaxConcurrent \in Nat \ {0}
    /\ MaxCalls \in Nat /\ MaxFaults \in Nat /\ MaxSessions \in Nat
    /\ NoRow \notin Rows

Fire == {"never", "later", "due"}
Task == [auto : BOOLEAN, cron : {"none", "valid", "invalid"},
         status : {"pending", "done", "cancelled"}]

ASSUME NoTaskAssumption == NoTask \notin Task

RunRow == [task : Tasks, status : {"queued", "running"}]

ASSUME NoRowAssumption == NoRow \notin RunRow

VARIABLES
    task,      \* the tasks table
    next,      \* its next_run_at column
    ahead,     \* pairs of due tasks: the first has the earlier fire time
    deleted,   \* tasks that were deleted; ids are never used again
    rows,      \* the live rows of task_runs
    ov,        \* next_run_at of the remote_schedule rows, "never" for no row
    up,        \* the app runs
    timer,     \* the one Timeout is armed, for the soonest fire
    inFlight,  \* the Set inFlight
    procs,     \* the dispatches and runs that sit at an await
    oprocs,    \* the overlay dispatches that sit at an await
    retries,   \* pending setTimeout callbacks of the retry branch
    sessions,  \* interactive sessions whose claude process lives
    dropped,   \* history: tasks whose schedule a client took away
    lost,      \* history: tasks a process death caught in a dispatch or retry
    calls, faults

storeVars == <<task, next, deleted, rows>>
memVars == <<timer, inFlight, procs, oprocs, retries, sessions>>
countVars == <<calls, faults>>
vars == <<storeVars, ahead, ov, up, memVars, dropped, lost, countVars>>

\* One executeTaskRun or dispatch: "begin" it was dispatched, "launch" and
\* "spawn" awaits of the interactive branch, "headless" it fell through to
\* executeTaskRun, "run" the agent process runs.
Proc == [task : Tasks, by : {"scheduler", "api", "modal"},
         attempt : 1..MaxAttempts, stage : {"begin", "launch", "spawn",
         "headless", "run"}, run : Rows \union {NoRow},
         tab : Rows \union {NoRow}, stopped : BOOLEAN]
OverlayProc == [key : Remote, stage : {"check", "launch"}]
Retry == [task : Tasks, attempt : 1..MaxAttempts, run : Rows, stopped : BOOLEAN]
Session == [task : Tasks, run : Rows]

SchedTypeOK ==
    /\ task \in [Tasks -> Task \union {NoTask}]
    /\ next \in [Tasks -> Fire] /\ ahead \subseteq Tasks \X Tasks
    /\ deleted \subseteq Tasks
    /\ rows \in [Rows -> RunRow \union {NoRow}]
    /\ ov \in [Remote -> Fire]
    /\ up \in BOOLEAN /\ timer \in BOOLEAN
    /\ inFlight \subseteq Tasks \union Remote
    /\ procs \subseteq Proc /\ oprocs \subseteq OverlayProc
    /\ retries \subseteq Retry /\ sessions \subseteq Session
    /\ dropped \subseteq Tasks /\ lost \subseteq Tasks
    /\ calls \in 0..MaxCalls /\ faults \in 0..MaxFaults

-----------------------------------------------------------------------------
(* Queries.                                                                *)

\* dueAutoTasks and nextScheduledFire look at the same tasks.
Active(tk, t) == tk[t] # NoTask /\ tk[t].auto /\ tk[t].status = "pending"

Due(t) == Active(task, t) /\ next[t] = "due"

HasFire(tk, nx, o) == \/ \E t \in Tasks : Active(tk, t) /\ nx[t] # "never"
                      \/ \E k \in Remote : o[k] # "never"

\* Mutated form: a queued retry does not count as a run in flight.
RunningOnly(t) ==
    {r \in Rows : rows[r] # NoRow /\ rows[r] = [task |-> t, status |-> "running"]}

\* getInflightRun
InflightRuns(t) == {r \in Rows : rows[r] # NoRow /\ rows[r].task = t}

FreeRows ==
    {r \in Rows : /\ rows[r] = NoRow
                  /\ \A p \in procs : r # p.run /\ r # p.tab
                  /\ \A q \in retries : r # q.run
                  /\ \A s \in sessions : r # s.run}

\* createRun: which id the row gets makes no difference.
NewRow == IF FreeRows = {} THEN {} ELSE {CHOOSE r \in FreeRows : TRUE}

\* rearm(): the hooks and the ends of a dispatch call it.
Rearm == timer' = (up' /\ HasFire(task', next', ov'))

\* ORDER BY next_run_at: a task that becomes due comes last.
Soonest ==
    ahead' = {x \in Tasks \X Tasks :
                 /\ next'[x[1]] = "due" /\ next'[x[2]] = "due"
                 /\ x \in ahead \/ (next[x[1]] = "due" /\ next[x[2]] # "due")}

\* Any strict order of the due tasks.
Orders(D) ==
    {R \in SUBSET (D \X D) :
        /\ \A t, u \in D : <<t, u>> \in R => <<u, t>> \notin R
        /\ \A t, u \in D : t = u \/ <<t, u>> \in R \/ <<u, t>> \in R
        /\ \A t, u, v \in D : <<t, u>> \in R /\ <<u, v>> \in R => <<t, v>> \in R}

\* A step of the history: D lost their schedule to a client, L to a death.
Excuse(D, L) == /\ dropped' = {t \in dropped \union D : next'[t] = "never"}
                /\ lost' = {t \in lost \union L : next'[t] = "never"}

-----------------------------------------------------------------------------
(* Tasks as createTask leaves them: a scheduled one has a folder.          *)

Anchored(t, rec, n) ==
    t \in Homeless => ~rec.auto \/ (rec.cron = "none" /\ n = "never")

Pending(a, c) == [auto |-> a, cron |-> c, status |-> "pending"]

\* Without an explicit next_run_at: manual, run on save, recurring; with an
\* explicit null: on demand.
Saved(t) ==
    {x \in {<<Pending(FALSE, "none"), "never">>, <<Pending(TRUE, "none"), "due">>,
            <<Pending(TRUE, "valid"), "later">>, <<Pending(TRUE, "none"), "never">>} :
        Anchored(t, x[1], x[2])}

SchedInit ==
    /\ \E f \in [Tasks -> (Task \union {NoTask}) \X Fire] :
          /\ \A t \in Tasks : f[t] \in Saved(t) \union {<<NoTask, "never">>}
          /\ task = [t \in Tasks |-> f[t][1]]
          /\ next = [t \in Tasks |-> f[t][2]]
    /\ ahead \in Orders({t \in Tasks : next[t] = "due"})
    /\ deleted = {} /\ rows = [r \in Rows |-> NoRow]
    /\ ov \in [Remote -> {"never", "later"}]
    /\ up = FALSE /\ timer = FALSE /\ inFlight = {}
    /\ procs = {} /\ oprocs = {} /\ retries = {} /\ sessions = {}
    /\ dropped = {} /\ lost = {} /\ calls = 0 /\ faults = 0

-----------------------------------------------------------------------------
(* Time, and the life of the process.                                      *)

Tick(t) ==
    /\ next[t] = "later"
    /\ next' = [next EXCEPT ![t] = "due"]
    /\ UNCHANGED <<task, deleted, rows, ov, up, memVars, countVars>>
    /\ Excuse({}, {})

TickOverlay(k) ==
    /\ ov[k] = "later"
    /\ ov' = [ov EXCEPT ![k] = "due"]
    /\ UNCHANGED <<storeVars, up, memVars, countVars>>
    /\ Excuse({}, {})

\* startScheduler: reapStaleRuns cancels the live rows; the first rearm
\* catches up on what became due while the app was closed.
Boot ==
    /\ ~up
    /\ up' = TRUE
    /\ rows' = [r \in Rows |-> NoRow]
    /\ UNCHANGED <<task, next, deleted, ov, inFlight, procs, oprocs, retries,
                   sessions, countVars>>
    /\ Rearm
    /\ Excuse({}, {})

\* The process dies with its timers and children; the database stays.
Crash ==
    /\ up /\ faults < MaxFaults
    /\ faults' = faults + 1
    /\ up' = FALSE /\ timer' = FALSE /\ inFlight' = {}
    /\ procs' = {} /\ oprocs' = {} /\ retries' = {} /\ sessions' = {}
    /\ UNCHANGED <<storeVars, ov, calls>>
    /\ Excuse({}, {p.task : p \in {q \in procs : q.by = "scheduler"}}
                     \union {q.task : q \in retries})

-----------------------------------------------------------------------------
(* The clients of the task API (core/task-http.ts and the windows).        *)

Client == up /\ calls < MaxCalls /\ calls' = calls + 1

\* A write to the tasks table: broadcastChange() runs the rearm hook.
Saves == /\ Client
         /\ UNCHANGED <<ov, up, inFlight, procs, oprocs, retries, sessions, faults>>
         /\ Rearm

CreateTask(t) ==
    /\ task[t] = NoTask /\ t \notin deleted
    /\ \E a \in BOOLEAN, c \in {"none", "valid", "invalid"}, n \in Fire :
          /\ Anchored(t, Pending(a, c), n)
          /\ task' = [task EXCEPT ![t] = Pending(a, c)]
          /\ next' = [next EXCEPT ![t] = n]
    /\ UNCHANGED <<deleted, rows>>
    /\ Saves
    /\ Excuse({t}, {})

\* updateTask with auto_mode or cron in the patch: a fire time follows.  The
\* folder is checked against the fire time of before.
PatchSchedule(t) ==
    /\ task[t] # NoTask
    /\ \E a \in BOOLEAN, c \in {"none", "valid", "invalid"} :
          LET rec == [task[t] EXCEPT !.auto = a, !.cron = c] IN
          /\ Anchored(t, rec, next[t])
          /\ ~(a /\ c = "invalid")
          /\ task' = [task EXCEPT ![t] = rec]
          /\ next' = [next EXCEPT ![t] =
                         CASE ~a -> "never"
                           [] a /\ c = "valid" -> "later"
                           [] a /\ c = "none" /\ @ = "never" /\ ~task[t].auto -> "due"
                           [] OTHER -> @]
    /\ UNCHANGED <<deleted, rows>>
    /\ Saves
    /\ Excuse({}, {})

\* updateTask with next_run_at in the patch.
PatchNext(t) ==
    /\ task[t] # NoTask
    /\ \E n \in Fire \ {next[t]} :
          /\ Anchored(t, task[t], n)
          /\ next' = [next EXCEPT ![t] = n]
    /\ UNCHANGED <<task, deleted, rows>>
    /\ Saves
    /\ Excuse({t}, {})

\* updateTask with a status: completing a task clears its fire time.
PatchStatus(t) ==
    /\ task[t] # NoTask
    /\ Anchored(t, task[t], next[t])
    /\ \E s \in {"pending", "done", "cancelled"} \ {task[t].status} :
          /\ task' = [task EXCEPT ![t].status = s]
          /\ next' = IF s = "done" THEN [next EXCEPT ![t] = "never"] ELSE next
          /\ Excuse(IF s = "done" THEN {t} ELSE {}, {})
    /\ UNCHANGED <<deleted, rows>>
    /\ Saves

\* deleteTask: the run rows go with it (ON DELETE CASCADE).
DeleteTask(t) ==
    /\ task[t] # NoTask
    /\ task' = [task EXCEPT ![t] = NoTask]
    /\ next' = [next EXCEPT ![t] = "never"]
    /\ deleted' = deleted \union {t}
    /\ rows' = [r \in Rows |-> IF r \in InflightRuns(t) THEN NoRow ELSE rows[r]]
    /\ Saves
    /\ Excuse({}, {})

\* executeTaskRun from a client; a task with a live row is refused.  Without
\* a folder it throws after the row was set to running.
RunNow(t, by) ==
    /\ Client
    /\ task[t] # NoTask /\ InflightRuns(t) = {}
    /\ \E r \in NewRow :
          /\ rows' = [rows EXCEPT ![r] = [task |-> t, status |-> "running"]]
          /\ procs' = IF t \in Homeless /\ by = "api" THEN procs
                      ELSE procs \union
                        {[task |-> t, by |-> by, attempt |-> 1, stage |-> "run",
                          run |-> r, tab |-> NoRow, stopped |-> FALSE]}
    /\ UNCHANGED <<task, next, deleted, ov, up, timer, inFlight, oprocs, retries,
                   sessions, faults>>
    /\ Excuse({}, {})

\* cancelRun: the abort signal; the agent process is on its way out.
CancelRun(p) ==
    /\ Client
    /\ p.stage = "run" /\ ~p.stopped
    /\ procs' = (procs \ {p}) \union {[p EXCEPT !.stopped = TRUE]}
    /\ UNCHANGED <<storeVars, ov, up, timer, inFlight, oprocs, retries, sessions,
                   faults>>
    /\ Excuse({}, {})

\* setSchedule and clearSchedule.
OverlayPatch(k) ==
    /\ Client
    /\ \/ ov' = [ov EXCEPT ![k] = "later"]
       \/ ov[k] # "never" /\ ov' = [ov EXCEPT ![k] = "never"]
    /\ UNCHANGED <<storeVars, up, inFlight, procs, oprocs, retries, sessions,
                   faults>>
    /\ Rearm
    /\ Excuse({}, {})

-----------------------------------------------------------------------------
(* The timer.                                                              *)

Least(m, n) == IF m < n THEN m ELSE n

Room == IF Cardinality(inFlight) < MaxConcurrent
        THEN MaxConcurrent - Cardinality(inFlight) ELSE 0

\* Mutated form: the due tasks in any order.
PicksUnordered ==
    LET able == {t \in Tasks : Due(t)} \ inFlight
    IN  {S \in SUBSET able : Cardinality(S) = Least(Room, Cardinality(able))}

\* The loop over dueAutoTasks: soonest first, until the budget is used.
Picks ==
    LET able == {t \in Tasks : Due(t)} \ inFlight
    IN  {S \in SUBSET able :
            /\ Cardinality(S) = Least(Room, Cardinality(able))
            /\ \A t \in S, u \in able \ S : <<t, u>> \in ahead}

OverlayPicks(S) ==
    LET able == {k \in Remote : ov[k] = "due"} \ inFlight
    IN  {K \in SUBSET able :
            Cardinality(K) = Least(Room - Cardinality(S), Cardinality(able))}

\* dispatch() clears next_run_at, which rearms.  A full budget at the end of
\* the loop leaves the timer as it is.
Fired(S) ==
    IF S = {} /\ Cardinality(inFlight') >= MaxConcurrent
    THEN timer' = FALSE ELSE Rearm

OnTimer ==
    /\ up /\ timer
    /\ (\E t \in Tasks : Due(t)) \/ (\E k \in Remote : ov[k] = "due")
    /\ UNCHANGED <<task, deleted, rows, ov, up, retries, sessions, countVars>>
    /\ \E S \in Picks : \E K \in OverlayPicks(S) :
          /\ inFlight' = inFlight \union S \union K
          /\ next' = [t \in Tasks |-> IF t \in S THEN "never" ELSE next[t]]
          /\ procs' = procs \union
                {[task |-> t, by |-> "scheduler", attempt |-> 1, stage |-> "begin",
                  run |-> NoRow, tab |-> NoRow, stopped |-> FALSE] : t \in S}
          /\ oprocs' = oprocs \union {[key |-> k, stage |-> "check"] : k \in K}
          /\ Fired(S)
    /\ Excuse({}, {})

\* The setTimeout of a retry: a task that still exists is dispatched again
\* with the queued row, whatever its state and the budget are.
RetryFires(q) ==
    /\ retries' = retries \ {q}
    /\ UNCHANGED <<task, deleted, rows, ov, up, oprocs, sessions, countVars>>
    /\ IF task[q.task] = NoTask
       THEN UNCHANGED <<next, inFlight, procs, timer>>
       ELSE /\ next' = [next EXCEPT ![q.task] = "never"]
            /\ inFlight' = inFlight \union {q.task}
            /\ procs' = procs \union
                  {[task |-> q.task, by |-> "scheduler", attempt |-> q.attempt,
                    stage |-> "begin", run |-> q.run, tab |-> NoRow,
                    stopped |-> FALSE]}
            /\ Rearm
    /\ Excuse({}, {})

-----------------------------------------------------------------------------
(* The end of a dispatch.                                                  *)

\* Mutated form: only a run that ended well moves the schedule on.
RolledNever(t) == next

\* rollForwardCron: the next fire of a recurring task; a cron expression that
\* does not parse turns auto_mode off.
Rolled(t) ==
    IF task[t] = NoTask \/ task[t].cron = "none" THEN next
    ELSE [next EXCEPT ![t] = IF task[t].cron = "valid" THEN "later" ELSE "never"]

RolledTask(t) ==
    IF task[t] # NoTask /\ task[t].cron = "invalid"
    THEN [task EXCEPT ![t].auto = FALSE] ELSE task

\* Mutated form: the budget is given back without a rearm.
ConcludeUnarmed(t) ==
    /\ inFlight' = inFlight \ {t}
    /\ next' = Rolled(t) /\ task' = RolledTask(t)
    /\ UNCHANGED timer

Conclude(t) ==
    /\ inFlight' = inFlight \ {t}
    /\ next' = Rolled(t) /\ task' = RolledTask(t)
    /\ Rearm

\* The same for a run of any origin: only the scheduler's own continue.
Ends(p) ==
    /\ procs' = procs \ {p}
    /\ UNCHANGED <<deleted, ov, up, oprocs, countVars>>
    /\ IF p.by = "scheduler" THEN Conclude(p.task)
       ELSE UNCHANGED <<inFlight, next, task, timer>>
    /\ Excuse({}, {})

Moves(p, to) == procs' = (procs \ {p}) \union {to}

OnlyProcs ==
    /\ UNCHANGED <<task, next, deleted, ov, up, timer, inFlight, oprocs, retries,
                   calls>>
    /\ Excuse({}, {})

-----------------------------------------------------------------------------
(* dispatch(): the interactive branch.                                     *)

BeginInteractive(p) ==
    /\ p.stage = "begin" /\ p.task \in Interactive
    /\ Moves(p, [p EXCEPT !.stage = "launch"])
    /\ UNCHANGED <<rows, sessions, faults>>
    /\ OnlyProcs

\* runTaskInteractive writes a row of its own and goes on to spawn claude.
LaunchRow(p) ==
    /\ p.stage = "launch" /\ task[p.task] # NoTask
    /\ Cardinality(sessions) < MaxSessions
    /\ \E r \in NewRow :
          /\ rows' = [rows EXCEPT ![r] = [task |-> p.task, status |-> "running"]]
          /\ Moves(p, [p EXCEPT !.stage = "spawn", !.tab = r])
    /\ UNCHANGED <<sessions, faults>>
    /\ OnlyProcs

\* No window, or an error before the row: fall through to a headless run.
LaunchAborts(p) ==
    /\ p.stage = "launch"
    /\ Moves(p, [p EXCEPT !.stage = "headless"])
    /\ UNCHANGED <<rows, sessions, faults>>
    /\ OnlyProcs

Launched(p) ==
    /\ p.stage = "spawn"
    /\ sessions' = sessions \union {[task |-> p.task, run |-> p.tab]}
    /\ UNCHANGED <<rows, retries>>
    /\ Ends(p)

\* The operator window is refused: claude is killed, its exit comes later.
LaunchDeclined(p) ==
    /\ p.stage = "spawn"
    /\ sessions' = sessions \union {[task |-> p.task, run |-> p.tab]}
    /\ Moves(p, [p EXCEPT !.stage = "headless", !.tab = NoRow])
    /\ UNCHANGED <<rows, faults>>
    /\ OnlyProcs

LaunchThrows(p) ==
    /\ p.stage = "spawn" /\ faults < MaxFaults
    /\ faults' = faults + 1
    /\ Moves(p, [p EXCEPT !.stage = "headless", !.tab = NoRow])
    /\ UNCHANGED <<rows, sessions>>
    /\ OnlyProcs

\* onExit of an interactive session finishes its row.
SessionExits(s) ==
    /\ sessions' = sessions \ {s}
    /\ rows' = [rows EXCEPT ![s.run] = NoRow]
    /\ UNCHANGED <<procs, faults>>
    /\ OnlyProcs

-----------------------------------------------------------------------------
(* dispatch(): executeTaskRun.                                             *)

AtExecute(p) == p.stage \in {"begin", "headless"}

\* A retry goes on with its queued row and is exempt from the guard.
Occupied(p) == p.run = NoRow /\ InflightRuns(p.task) # {}

\* It throws before any row is touched: the task has a live row, the agent is
\* not registered, the row or the task is gone.
ExecuteRefused(p) ==
    /\ AtExecute(p)
    /\ UNCHANGED <<rows, retries, sessions>>
    /\ Ends(p)

RowFor(p) == IF p.run = NoRow THEN NewRow
             ELSE {r \in {p.run} : rows[r] # NoRow}

\* The row is running; without a folder it throws and leaves it so.
ExecuteStrands(p) ==
    /\ AtExecute(p) /\ task[p.task] # NoTask /\ ~Occupied(p)
    /\ p.task \in Homeless
    /\ \E r \in RowFor(p) :
          rows' = [rows EXCEPT ![r] = [task |-> p.task, status |-> "running"]]
    /\ UNCHANGED <<retries, sessions>>
    /\ Ends(p)

ExecuteStarts(p) ==
    /\ AtExecute(p) /\ task[p.task] # NoTask /\ ~Occupied(p)
    /\ p.task \notin Homeless
    /\ \E r \in RowFor(p) :
          /\ rows' = [rows EXCEPT ![r] = [task |-> p.task, status |-> "running"]]
          /\ Moves(p, [p EXCEPT !.stage = "run", !.run = r])
    /\ UNCHANGED <<sessions, faults>>
    /\ OnlyProcs

\* Status follow-through of a run that ended well: a task without cron is
\* done, unless the run came with a folder of its own (runNowAt).
MarksDone(p) ==
    p.by # "modal" /\ task[p.task].cron = "none" /\ task[p.task].status # "done"

RunSucceeds(p) ==
    /\ p.stage = "run" /\ ~p.stopped /\ rows[p.run] # NoRow
    /\ rows' = [rows EXCEPT ![p.run] = NoRow]
    /\ \/ /\ MarksDone(p)
          /\ procs' = procs \ {p}
          /\ task' = [task EXCEPT ![p.task].status = "done"]
          /\ next' = [next EXCEPT ![p.task] = "never"]
          /\ inFlight' = IF p.by = "scheduler" THEN inFlight \ {p.task}
                                               ELSE inFlight
          /\ UNCHANGED <<deleted, ov, up, oprocs, countVars>>
          /\ Rearm
          /\ Excuse({}, {})
       \/ ~MarksDone(p) /\ Ends(p)
    /\ UNCHANGED <<retries, sessions>>

\* Mutated form: one attempt too many.
LastAttemptLate(p) == p.attempt > MaxAttempts

LastAttempt(p) == p.attempt >= MaxAttempts

\* The agent failed for good, or the row went with its task and updateRun
\* throws.  A cancelled run reports "transient": it is not final.
RunFails(p) ==
    /\ p.stage = "run"
    /\ p.stopped => rows[p.run] = NoRow \/ p.by # "scheduler" \/ LastAttempt(p)
    /\ rows' = [rows EXCEPT ![p.run] = NoRow]
    /\ UNCHANGED <<retries, sessions>>
    /\ Ends(p)

\* rate_limit, usage, transient: the failed row is finished, and a fresh one
\* is queued for the attempt the setTimeout will make.  next_run_at stays.
RunRetries(p) ==
    /\ p.stage = "run" /\ p.by = "scheduler" /\ rows[p.run] # NoRow
    /\ ~LastAttempt(p)
    /\ rows' = [rows EXCEPT ![p.run].status = "queued"]
    /\ retries' = retries \union {[task |-> p.task, attempt |-> p.attempt + 1,
                                   run |-> p.run, stopped |-> p.stopped]}
    /\ procs' = procs \ {p}
    /\ inFlight' = inFlight \ {p.task}
    /\ UNCHANGED <<task, next, deleted, ov, up, oprocs, sessions, countVars>>
    /\ Rearm
    /\ Excuse({}, {})

-----------------------------------------------------------------------------
(* dispatchOverlay(): the fires of remote tasks.                           *)

OverlayEnds(o) ==
    /\ oprocs' = oprocs \ {o}
    /\ inFlight' = inFlight \ {o.key}
    /\ UNCHANGED <<storeVars, up, procs, retries, sessions, countVars>>
    /\ Rearm
    /\ Excuse({}, {})

\* Mutated form: the fire time is set even when the row was cleared meanwhile.
RolledOverlayBlind(k) == [ov EXCEPT ![k] = "later"]

\* rollForward: nothing when there is no row any more.
RolledOverlay(k) == IF ov[k] = "never" THEN ov ELSE [ov EXCEPT ![k] = "later"]

\* The server says that the task is gone or closed.
OverlayStale(o) ==
    /\ o.stage = "check"
    /\ ov' = [ov EXCEPT ![o.key] = "never"]
    /\ OverlayEnds(o)

\* Signed out, or no window: notify and roll forward.
OverlaySkips(o) ==
    /\ o.stage = "check"
    /\ ov' = RolledOverlay(o.key)
    /\ OverlayEnds(o)

OverlayRuns(o) ==
    /\ o.stage = "check"
    /\ oprocs' = (oprocs \ {o}) \union {[o EXCEPT !.stage = "launch"]}
    /\ UNCHANGED <<storeVars, ov, up, timer, inFlight, procs, retries, sessions,
                   countVars>>
    /\ Excuse({}, {})

\* runNow returned or threw.
OverlayRan(o) ==
    /\ o.stage = "launch"
    /\ ov' = RolledOverlay(o.key)
    /\ OverlayEnds(o)

-----------------------------------------------------------------------------
ApiNext ==
    \/ \E t \in Tasks : \/ CreateTask(t) \/ PatchSchedule(t) \/ PatchNext(t)
                        \/ PatchStatus(t) \/ DeleteTask(t)
                        \/ RunNow(t, "api") \/ RunNow(t, "modal")
    \/ \E p \in procs : CancelRun(p)
    \/ \E k \in Remote : OverlayPatch(k)

Progresses(p) ==
    \/ BeginInteractive(p) \/ LaunchRow(p) \/ LaunchAborts(p)
    \/ Launched(p) \/ LaunchDeclined(p)
    \/ ExecuteRefused(p) \/ ExecuteStrands(p) \/ ExecuteStarts(p)
    \/ RunSucceeds(p) \/ RunFails(p) \/ RunRetries(p)

OverlayStep(o) ==
    OverlayStale(o) \/ OverlaySkips(o) \/ OverlayRuns(o) \/ OverlayRan(o)

SchedStep ==
    \/ \E t \in Tasks : Tick(t)
    \/ \E k \in Remote : TickOverlay(k)
    \/ Boot \/ Crash \/ ApiNext \/ OnTimer
    \/ \E q \in retries : RetryFires(q)
    \/ \E p \in procs : Progresses(p) \/ LaunchThrows(p)
    \/ \E s \in sessions : SessionExits(s)
    \/ \E o \in oprocs : OverlayStep(o)

SchedNext == SchedStep /\ Soonest

SchedSpec == SchedInit /\ [][SchedNext]_vars

\* A step for one task, and for one overlay key.
ServesTask(t) ==
    /\ \/ \E q \in retries : q.task = t /\ RetryFires(q)
       \/ \E p \in procs : p.task = t /\ Progresses(p)
    /\ Soonest

ServesKey(k) == (\E o \in oprocs : o.key = k /\ OverlayStep(o)) /\ Soonest

(***************************************************************************)
(* Timeouts fire, awaits return, agent processes end, the app is started   *)
(* again.  Nothing is assumed of the clients, of the clock, nor of         *)
(* interactive sessions, which may stay open for ever.                     *)
(***************************************************************************)
SchedFairness ==
    /\ WF_vars(Boot /\ Soonest) /\ WF_vars(OnTimer /\ Soonest)
    /\ \A t \in Tasks : WF_vars(ServesTask(t))
    /\ \A k \in Remote : WF_vars(ServesKey(k))

SchedFairSpec == SchedSpec /\ SchedFairness

-----------------------------------------------------------------------------
(* Properties.                                                             *)

\* No lost wake-up: while something is scheduled the Timeout is armed, unless
\* the budget is used up, and then the end of a dispatch arms it.
TimerArmed ==
    up /\ HasFire(task, next, ov) =>
        timer \/ Cardinality(inFlight) >= MaxConcurrent

\* executeTaskRun: "refuse to start a second concurrent run for the same
\* task".  Timer, retries, API and windows together never have two headless
\* agents on one task, nor a headless agent and a retry still to come, nor two
\* dispatches of one overlay schedule.
SingleRunner ==
    /\ \A p, q \in procs :
          p.stage = "run" /\ q.stage = "run" /\ p.task = q.task => p = q
    /\ \A p \in procs, q \in retries : p.stage = "run" => p.task # q.task
    /\ \A o, u \in oprocs : o.key = u.key => o = u

Recurring(t) == Active(task, t) /\ task[t].cron = "valid"

HasFuture(t) ==
    \/ next[t] # "never"
    \/ \E p \in procs : p.by = "scheduler" /\ p.task = t
    \/ \E q \in retries : q.task = t

\* However its runs end (succeed, fail, are refused, are retried, crash), a
\* recurring task keeps a fire time or a dispatch that will set one, unless a
\* client took the fire time away or the process died in the middle.
RecurringKept == \A t \in Tasks : Recurring(t) /\ t \notin dropped \union lost
                                     => HasFuture(t)

\* A schedule of a remote task that was cleared, by the user during its own
\* dispatch or because its task is gone, never comes back by itself.
ClearedStays ==
    [][\A k \in Remote : ov[k] = "never" /\ ov'[k] # "never" => calls' # calls]_vars

\* An automatic task that is due is dispatched, or a client takes it off the
\* schedule: a full budget delays it but never forgets it.
DueIsServed == \A t \in Tasks : Due(t) ~> ~Due(t)

=============================================================================
