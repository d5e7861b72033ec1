-------------------------- MODULE SchedulerProofs --------------------------
(***************************************************************************)
(* Proofs about the scheduler: its state is well typed, a task has one     *)
(* headless run at a time, and fire times are kept.                        *)
(***************************************************************************)
EXTENDS Scheduler, TLAPS

-----------------------------------------------------------------------------
(* Who holds a task.  A dispatch or run with a row, and a pending retry,   *)
(* hold their task and their row; the inductive invariant says that no two *)
(* hold the same one, and that the rows of interactive sessions are others.*)

Owners == {p \in procs : p.run # NoRow}

HoldsRow(x) ==
    /\ rows[x.run] # NoRow <=> task[x.task] # NoTask
    /\ rows[x.run] # NoRow => rows[x.run].task = x.task
    /\ task[x.task] = NoTask => x.task \in deleted

OneOwner ==
    /\ \A p \in procs : p.stage = "run" \/ p.by # "scheduler" => p.run # NoRow
    /\ \A p, q \in Owners : p.task = q.task \/ p.run = q.run => p = q
    /\ \A x, y \in retries : x.task = y.task \/ x.run = y.run => x = y
    /\ \A p \in Owners, x \in retries : p.task # x.task /\ p.run # x.run
    /\ (\A p \in Owners : HoldsRow(p)) /\ (\A x \in retries : HoldsRow(x))

Apart(r) == (\A p \in Owners : p.run # r) /\ (\A x \in retries : x.run # r)

TabsApart ==
    /\ \A p \in procs : p.tab # NoRow => Apart(p.tab)
    /\ \A p \in procs : p.stage = "spawn" => p.tab # NoRow
    /\ \A s \in sessions : Apart(s.run)

Down == ~up => /\ procs = {} /\ oprocs = {} /\ retries = {} /\ sessions = {}
               /\ inFlight = {}

Keys == \A o, u \in oprocs : o.key \in inFlight /\ (o.key = u.key => o = u)

Held == SchedTypeOK /\ OneOwner /\ TabsApart

-----------------------------------------------------------------------------
(* Types.                                                                  *)

LEMMA ExcuseType ==
    ASSUME dropped \subseteq Tasks, lost \subseteq Tasks,
           NEW D, NEW L, D \subseteq Tasks, L \subseteq Tasks, Excuse(D, L)
    PROVE  dropped' \subseteq Tasks /\ lost' \subseteq Tasks
BY DEF Excuse

LEMMA NewRowType == \A r \in NewRow : r \in FreeRows /\ NewRow = {r}
BY DEF NewRow

LEMMA RearmType == Rearm /\ up' \in BOOLEAN => timer' \in BOOLEAN
BY DEF Rearm, HasFire

LEMMA SchedInitType == SchedInit => SchedTypeOK
<1> SUFFICES ASSUME SchedInit PROVE SchedTypeOK
    OBVIOUS
<1>1. PICK f \in [Tasks -> (Task \union {NoTask}) \X Fire] :
          task = [t \in Tasks |-> f[t][1]] /\ next = [t \in Tasks |-> f[t][2]]
    BY DEF SchedInit
<1>2. task \in [Tasks -> Task \union {NoTask}] /\ next \in [Tasks -> Fire]
    BY <1>1
<1>3. ahead \subseteq Tasks \X Tasks
    BY DEF SchedInit, Orders
<1>4. rows \in [Rows -> RunRow \union {NoRow}]
    BY DEF SchedInit
<1>5. ov \in [Remote -> Fire]
    BY DEF SchedInit, Fire
<1>6. calls \in 0..MaxCalls /\ faults \in 0..MaxFaults
    BY SchedulerAssumption DEF SchedInit
<1> QED BY <1>2, <1>3, <1>4, <1>5, <1>6 DEF SchedInit, SchedTypeOK

\* rollForwardCron leaves tasks and fire times well typed.
LEMMA RolledType ==
    ASSUME task \in [Tasks -> Task \union {NoTask}], next \in [Tasks -> Fire],
           NEW t \in Tasks
    PROVE  Rolled(t) \in [Tasks -> Fire] /\ RolledTask(t) \in [Tasks -> Task \union {NoTask}]
<1>1. Rolled(t) \in [Tasks -> Fire]
    BY DEF Rolled, Fire
<1>2. ASSUME task[t] # NoTask PROVE [task[t] EXCEPT !.auto = FALSE] \in Task
    BY <1>2 DEF Task
<1>3. RolledTask(t) \in [Tasks -> Task \union {NoTask}]
    BY <1>2 DEF RolledTask
<1> QED BY <1>1, <1>3

LEMMA EndsType ==
    ASSUME SchedTypeOK, NEW p \in procs, Ends(p)
    PROVE  /\ task' \in [Tasks -> Task \union {NoTask}] /\ next' \in [Tasks -> Fire]
           /\ deleted' \subseteq Tasks /\ ov' \in [Remote -> Fire]
           /\ up' \in BOOLEAN /\ timer' \in BOOLEAN
           /\ inFlight' \subseteq Tasks \union Remote
           /\ procs' \subseteq Proc /\ oprocs' \subseteq OverlayProc
           /\ dropped' \subseteq Tasks /\ lost' \subseteq Tasks
           /\ calls' \in 0..MaxCalls /\ faults' \in 0..MaxFaults
<1>1. p.task \in Tasks
    BY DEF SchedTypeOK, Proc
<1>2. dropped' \subseteq Tasks /\ lost' \subseteq Tasks
    BY ExcuseType DEF Ends, SchedTypeOK
<1>3. CASE p.by = "scheduler"
    BY <1>1, <1>2, <1>3, RolledType, RearmType
    DEF Ends, Conclude, SchedTypeOK, countVars
<1>4. CASE p.by # "scheduler"
    BY <1>2, <1>4 DEF Ends, SchedTypeOK, countVars
<1> QED BY <1>3, <1>4

LEMMA OnlyProcsType ==
    ASSUME SchedTypeOK, OnlyProcs, procs' \subseteq Proc, sessions' \subseteq Session,
           rows' \in [Rows -> RunRow \union {NoRow}], faults' \in 0..MaxFaults,
           ahead' \subseteq Tasks \X Tasks
    PROVE  SchedTypeOK'
BY ExcuseType DEF OnlyProcs, SchedTypeOK

-----------------------------------------------------------------------------
(* One lemma per action; the conjunct on ahead' is Soonest's.              *)

AheadType == ahead' \subseteq Tasks \X Tasks

LEMMA SoonestType == Soonest => AheadType
BY DEF Soonest, AheadType

LEMMA TickType ==
    ASSUME SchedTypeOK, AheadType, NEW t \in Tasks, Tick(t) PROVE SchedTypeOK'
<1>1. dropped' \subseteq Tasks /\ lost' \subseteq Tasks
    BY ExcuseType DEF Tick, SchedTypeOK
<1> QED BY <1>1 DEF Tick, SchedTypeOK, AheadType, memVars, countVars, Fire

LEMMA TickOverlayType ==
    ASSUME SchedTypeOK, AheadType, NEW k \in Remote, TickOverlay(k) PROVE SchedTypeOK'
<1>1. dropped' \subseteq Tasks /\ lost' \subseteq Tasks
    BY ExcuseType DEF TickOverlay, SchedTypeOK
<1> QED BY <1>1 DEF TickOverlay, SchedTypeOK, AheadType, storeVars, memVars,
                    countVars, Fire

LEMMA BootType ==
    ASSUME SchedTypeOK, AheadType, Boot PROVE SchedTypeOK'
<1>1. dropped' \subseteq Tasks /\ lost' \subseteq Tasks
    BY ExcuseType DEF Boot, SchedTypeOK
<1>2. up' \in BOOLEAN /\ timer' \in BOOLEAN
    BY RearmType DEF Boot
<1> QED BY <1>1, <1>2 DEF Boot, SchedTypeOK, AheadType, countVars

LEMMA CrashType ==
    ASSUME SchedTypeOK, AheadType, Crash PROVE SchedTypeOK'
<1> DEFINE L == {p.task : p \in {q \in procs : q.by = "scheduler"}}
                   \union {q.task : q \in retries}
<1>1. L \subseteq Tasks
    BY DEF SchedTypeOK, Proc, Retry
<1>2. Excuse({}, L)
    BY DEF Crash
<1> HIDE DEF L
<1>3. dropped' \subseteq Tasks /\ lost' \subseteq Tasks
    BY <1>1, <1>2, ExcuseType DEF SchedTypeOK
<1>4. faults' \in 0..MaxFaults
    BY SchedulerAssumption DEF Crash, SchedTypeOK
<1> QED BY <1>3, <1>4 DEF Crash, SchedTypeOK, AheadType, storeVars

LEMMA SavesType ==
    ASSUME SchedTypeOK, AheadType, Saves,
           task' \in [Tasks -> Task \union {NoTask}], next' \in [Tasks -> Fire],
           deleted' \subseteq Tasks, rows' \in [Rows -> RunRow \union {NoRow}],
           dropped' \subseteq Tasks, lost' \subseteq Tasks
    PROVE  SchedTypeOK'
<1>1. calls' \in 0..MaxCalls
    BY SchedulerAssumption DEF Saves, Client, SchedTypeOK
<1>2. up' \in BOOLEAN /\ timer' \in BOOLEAN
    BY RearmType DEF Saves, SchedTypeOK
<1> QED BY <1>1, <1>2 DEF Saves, SchedTypeOK, AheadType

LEMMA CreateTaskType ==
    ASSUME SchedTypeOK, AheadType, NEW t \in Tasks, CreateTask(t) PROVE SchedTypeOK'
<1>1. dropped' \subseteq Tasks /\ lost' \subseteq Tasks
    BY ExcuseType DEF CreateTask, SchedTypeOK
<1>2. task' \in [Tasks -> Task \union {NoTask}] /\ next' \in [Tasks -> Fire]
    BY DEF CreateTask, SchedTypeOK, Pending, Task
<1> QED BY <1>1, <1>2, SavesType DEF CreateTask, SchedTypeOK

LEMMA PatchScheduleType ==
    ASSUME SchedTypeOK, AheadType, NEW t \in Tasks, PatchSchedule(t)
    PROVE  SchedTypeOK'
<1>1. dropped' \subseteq Tasks /\ lost' \subseteq Tasks
    BY ExcuseType DEF PatchSchedule, SchedTypeOK
<1>2. PICK a \in BOOLEAN, c \in {"none", "valid", "invalid"} :
          LET rec == [task[t] EXCEPT !.auto = a, !.cron = c] IN
          /\ task' = [task EXCEPT ![t] = rec]
          /\ next' = [next EXCEPT ![t] =
                         CASE ~a -> "never"
                           [] a /\ c = "valid" -> "later"
                           [] a /\ c = "none" /\ @ = "never" /\ ~task[t].auto -> "due"
                           [] OTHER -> @]
    BY DEF PatchSchedule
<1> DEFINE rec == [task[t] EXCEPT !.auto = a, !.cron = c]
<1>3. rec \in Task
    BY DEF PatchSchedule, SchedTypeOK, Task
<1>4. task' = [task EXCEPT ![t] = rec]
    BY <1>2
<1> HIDE DEF rec
<1>5. task' \in [Tasks -> Task \union {NoTask}]
    BY <1>3, <1>4 DEF SchedTypeOK
<1>6. next' \in [Tasks -> Fire]
    BY <1>2 DEF SchedTypeOK, Fire
<1> QED BY <1>1, <1>5, <1>6, SavesType DEF PatchSchedule, SchedTypeOK

LEMMA PatchNextType ==
    ASSUME SchedTypeOK, AheadType, NEW t \in Tasks, PatchNext(t) PROVE SchedTypeOK'
<1>1. dropped' \subseteq Tasks /\ lost' \subseteq Tasks
    BY ExcuseType DEF PatchNext, SchedTypeOK
<1>2. next' \in [Tasks -> Fire]
    BY DEF PatchNext, SchedTypeOK
<1> QED BY <1>1, <1>2, SavesType DEF PatchNext, SchedTypeOK

LEMMA PatchStatusType ==
    ASSUME SchedTypeOK, AheadType, NEW t \in Tasks, PatchStatus(t) PROVE SchedTypeOK'
<1>1. PICK s \in {"pending", "done", "cancelled"} :
          /\ task' = [task EXCEPT ![t].status = s]
          /\ next' = IF s = "done" THEN [next EXCEPT ![t] = "never"] ELSE next
          /\ Excuse(IF s = "done" THEN {t} ELSE {}, {})
    BY DEF PatchStatus
<1>2. dropped' \subseteq Tasks /\ lost' \subseteq Tasks
    BY <1>1, ExcuseType DEF SchedTypeOK
<1>3. next' \in [Tasks -> Fire]
    BY <1>1 DEF SchedTypeOK, Fire
<1>4. task' \in [Tasks -> Task \union {NoTask}]
    BY <1>1 DEF PatchStatus, SchedTypeOK, Task
<1> QED BY <1>2, <1>3, <1>4, SavesType DEF PatchStatus, SchedTypeOK

LEMMA DeleteTaskType ==
    ASSUME SchedTypeOK, AheadType, NEW t \in Tasks, DeleteTask(t) PROVE SchedTypeOK'
<1>1. dropped' \subseteq Tasks /\ lost' \subseteq Tasks
    BY ExcuseType DEF DeleteTask, SchedTypeOK
<1>2. task' \in [Tasks -> Task \union {NoTask}] /\ next' \in [Tasks -> Fire]
    BY DEF DeleteTask, SchedTypeOK, Fire
<1>3. rows' \in [Rows -> RunRow \union {NoRow}] /\ deleted' \subseteq Tasks
    BY DEF DeleteTask, SchedTypeOK
<1> QED BY <1>1, <1>2, <1>3, SavesType DEF DeleteTask

\* A row that is written is well typed.
LEMMA RunningRow ==
    ASSUME SchedTypeOK, NEW t \in Tasks, NEW r,
           rows' = [rows EXCEPT ![r] = [task |-> t, status |-> "running"]]
    PROVE  rows' \in [Rows -> RunRow \union {NoRow}]
BY DEF SchedTypeOK, RunRow

LEMMA RunNowType ==
    ASSUME SchedTypeOK, AheadType, NEW t \in Tasks, NEW by \in {"api", "modal"},
           RunNow(t, by)
    PROVE  SchedTypeOK'
<1>1. dropped' \subseteq Tasks /\ lost' \subseteq Tasks
    BY ExcuseType DEF RunNow, SchedTypeOK
<1>2. PICK r \in Rows :
          /\ rows' = [rows EXCEPT ![r] = [task |-> t, status |-> "running"]]
          /\ procs' = IF t \in Homeless /\ by = "api" THEN procs
                      ELSE procs \union
                        {[task |-> t, by |-> by, attempt |-> 1, stage |-> "run",
                          run |-> r, tab |-> NoRow, stopped |-> FALSE]}
    BY NewRowType DEF RunNow, FreeRows
<1>3. rows' \in [Rows -> RunRow \union {NoRow}]
    BY <1>2, RunningRow
<1>4. procs' \subseteq Proc
  <2>1. 1 \in 1..MaxAttempts
      BY SchedulerAssumption
  <2>2. [task |-> t, by |-> by, attempt |-> 1, stage |-> "run",
         run |-> r, tab |-> NoRow, stopped |-> FALSE] \in Proc
      BY <2>1 DEF Proc
  <2> QED BY <1>2, <2>2 DEF SchedTypeOK
<1>5. calls' \in 0..MaxCalls
    BY SchedulerAssumption DEF RunNow, Client, SchedTypeOK
<1> QED BY <1>1, <1>3, <1>4, <1>5 DEF RunNow, SchedTypeOK, AheadType

LEMMA CancelRunType ==
    ASSUME SchedTypeOK, AheadType, NEW p \in procs, CancelRun(p) PROVE SchedTypeOK'
<1>1. dropped' \subseteq Tasks /\ lost' \subseteq Tasks
    BY ExcuseType DEF CancelRun, SchedTypeOK
<1>2. procs' \subseteq Proc
    BY DEF CancelRun, SchedTypeOK, Proc
<1>3. calls' \in 0..MaxCalls
    BY SchedulerAssumption DEF CancelRun, Client, SchedTypeOK
<1> QED BY <1>1, <1>2, <1>3 DEF CancelRun, SchedTypeOK, AheadType, storeVars

LEMMA OverlayPatchType ==
    ASSUME SchedTypeOK, AheadType, NEW k \in Remote, OverlayPatch(k)
    PROVE  SchedTypeOK'
<1>1. dropped' \subseteq Tasks /\ lost' \subseteq Tasks
    BY ExcuseType DEF OverlayPatch, SchedTypeOK
<1>2. ov' \in [Remote -> Fire]
    BY DEF OverlayPatch, SchedTypeOK, Fire
<1>3. calls' \in 0..MaxCalls
    BY SchedulerAssumption DEF OverlayPatch, Client, SchedTypeOK
<1>4. up' \in BOOLEAN /\ timer' \in BOOLEAN
    BY RearmType DEF OverlayPatch, SchedTypeOK
<1> QED BY <1>1, <1>2, <1>3, <1>4 DEF OverlayPatch, SchedTypeOK, AheadType, storeVars

LEMMA OnTimerType ==
    ASSUME SchedTypeOK, AheadType, OnTimer PROVE SchedTypeOK'
<1>1. dropped' \subseteq Tasks /\ lost' \subseteq Tasks
    BY ExcuseType DEF OnTimer, SchedTypeOK
<1>2. PICK S \in Picks : \E K \in OverlayPicks(S) :
          /\ inFlight' = inFlight \union S \union K
          /\ next' = [t \in Tasks |-> IF t \in S THEN "never" ELSE next[t]]
          /\ procs' = procs \union
                {[task |-> t, by |-> "scheduler", attempt |-> 1, stage |-> "begin",
                  run |-> NoRow, tab |-> NoRow, stopped |-> FALSE] : t \in S}
          /\ oprocs' = oprocs \union {[key |-> k, stage |-> "check"] : k \in K}
          /\ Fired(S)
    BY DEF OnTimer
<1>3. PICK K \in OverlayPicks(S) :
          /\ inFlight' = inFlight \union S \union K
          /\ next' = [t \in Tasks |-> IF t \in S THEN "never" ELSE next[t]]
          /\ procs' = procs \union
                {[task |-> t, by |-> "scheduler", attempt |-> 1, stage |-> "begin",
                  run |-> NoRow, tab |-> NoRow, stopped |-> FALSE] : t \in S}
          /\ oprocs' = oprocs \union {[key |-> k, stage |-> "check"] : k \in K}
          /\ Fired(S)
    BY <1>2
<1>4. S \subseteq Tasks /\ K \subseteq Remote
    BY DEF Picks, OverlayPicks
<1>5. procs' \subseteq Proc
  <2>1. 1 \in 1..MaxAttempts
      BY SchedulerAssumption
  <2>2. \A t \in S : [task |-> t, by |-> "scheduler", attempt |-> 1, stage |-> "begin",
                     run |-> NoRow, tab |-> NoRow, stopped |-> FALSE] \in Proc
      BY <1>4, <2>1 DEF Proc
  <2> QED BY <1>3, <2>2 DEF SchedTypeOK
<1>6. oprocs' \subseteq OverlayProc
  <2>1. \A k \in K : [key |-> k, stage |-> "check"] \in OverlayProc
      BY <1>4 DEF OverlayProc
  <2> QED BY <1>3, <2>1 DEF SchedTypeOK
<1>7. up' \in BOOLEAN /\ timer' \in BOOLEAN
    BY <1>3, RearmType DEF Fired, OnTimer, SchedTypeOK
<1>8. next' \in [Tasks -> Fire]
    BY <1>3 DEF SchedTypeOK, Fire
<1> QED BY <1>3, <1>1, <1>4, <1>5, <1>6, <1>7, <1>8
        DEF OnTimer, SchedTypeOK, AheadType, countVars

LEMMA RetryFiresType ==
    ASSUME SchedTypeOK, AheadType, NEW q \in retries, RetryFires(q)
    PROVE  SchedTypeOK'
<1>1. dropped' \subseteq Tasks /\ lost' \subseteq Tasks
    BY ExcuseType DEF RetryFires, SchedTypeOK
<1>2. q.task \in Tasks /\ q.attempt \in 1..MaxAttempts /\ q.run \in Rows
    BY DEF SchedTypeOK, Retry
<1>3. procs' \subseteq Proc
  <2>1. [task |-> q.task, by |-> "scheduler", attempt |-> q.attempt, stage |-> "begin",
         run |-> q.run, tab |-> NoRow, stopped |-> FALSE] \in Proc
      BY <1>2 DEF Proc
  <2> QED BY <2>1 DEF RetryFires, SchedTypeOK
<1>4. up' \in BOOLEAN /\ timer' \in BOOLEAN
    BY RearmType DEF RetryFires, SchedTypeOK
<1>5. next' \in [Tasks -> Fire]
    BY <1>2 DEF RetryFires, SchedTypeOK, Fire
<1> QED BY <1>1, <1>2, <1>3, <1>4, <1>5
        DEF RetryFires, SchedTypeOK, AheadType, countVars

LEMMA MovesType ==
    ASSUME SchedTypeOK, NEW p \in procs, NEW to \in Proc, Moves(p, to)
    PROVE  procs' \subseteq Proc
BY DEF SchedTypeOK, Moves

LEMMA BeginInteractiveType ==
    ASSUME SchedTypeOK, AheadType, NEW p \in procs, BeginInteractive(p)
    PROVE  SchedTypeOK'
<1>1. [p EXCEPT !.stage = "launch"] \in Proc
    BY DEF SchedTypeOK, Proc
<1>2. procs' \subseteq Proc
    BY <1>1, MovesType DEF BeginInteractive
<1> QED BY <1>2, OnlyProcsType DEF BeginInteractive, SchedTypeOK, AheadType

LEMMA LaunchRowType ==
    ASSUME SchedTypeOK, AheadType, NEW p \in procs, LaunchRow(p)
    PROVE  SchedTypeOK'
<1>1. PICK r \in NewRow :
          /\ rows' = [rows EXCEPT ![r] = [task |-> p.task, status |-> "running"]]
          /\ Moves(p, [p EXCEPT !.stage = "spawn", !.tab = r])
    BY DEF LaunchRow
<1>2. r \in Rows
    BY NewRowType DEF FreeRows
<1>3. p \in Proc /\ p.task \in Tasks
    BY DEF SchedTypeOK, Proc
<1>4. [p EXCEPT !.stage = "spawn", !.tab = r] \in Proc
    BY <1>2, <1>3 DEF Proc
<1>5. procs' \subseteq Proc
    BY <1>1, <1>4, MovesType
<1>6. rows' \in [Rows -> RunRow \union {NoRow}]
    BY <1>1, <1>3, RunningRow
<1> QED BY <1>5, <1>6, OnlyProcsType DEF LaunchRow, SchedTypeOK, AheadType

LEMMA LaunchAbortsType ==
    ASSUME SchedTypeOK, AheadType, NEW p \in procs, LaunchAborts(p)
    PROVE  SchedTypeOK'
<1>1. [p EXCEPT !.stage = "headless"] \in Proc
    BY DEF SchedTypeOK, Proc
<1>2. procs' \subseteq Proc
    BY <1>1, MovesType DEF LaunchAborts
<1> QED BY <1>2, OnlyProcsType DEF LaunchAborts, SchedTypeOK, AheadType

LEMMA OpensSession ==
    ASSUME Held, NEW p \in procs, p.stage = "spawn",
           sessions' = sessions \union {[task |-> p.task, run |-> p.tab]}
    PROVE  sessions' \subseteq Session
<1>1. [task |-> p.task, run |-> p.tab] \in Session
    BY DEF Held, TabsApart, SchedTypeOK, Proc, Session
<1> QED BY <1>1 DEF Held, SchedTypeOK

LEMMA LaunchedType ==
    ASSUME Held, AheadType, NEW p \in procs, Launched(p)
    PROVE  SchedTypeOK'
<1>1. sessions' \subseteq Session
    BY OpensSession DEF Launched
<1> QED BY <1>1, EndsType DEF Held, Launched, SchedTypeOK, AheadType

LEMMA LaunchDeclinedType ==
    ASSUME Held, AheadType, NEW p \in procs, LaunchDeclined(p)
    PROVE  SchedTypeOK'
<1>1. sessions' \subseteq Session
    BY OpensSession DEF LaunchDeclined
<1>2. [p EXCEPT !.stage = "headless", !.tab = NoRow] \in Proc
    BY DEF Held, SchedTypeOK, Proc
<1>3. procs' \subseteq Proc
    BY <1>2, MovesType DEF Held, LaunchDeclined
<1> QED BY <1>1, <1>3, OnlyProcsType DEF Held, LaunchDeclined, SchedTypeOK, AheadType

LEMMA LaunchThrowsType ==
    ASSUME SchedTypeOK, AheadType, NEW p \in procs, LaunchThrows(p)
    PROVE  SchedTypeOK'
<1>1. [p EXCEPT !.stage = "headless", !.tab = NoRow] \in Proc
    BY DEF SchedTypeOK, Proc
<1>2. procs' \subseteq Proc
    BY <1>1, MovesType DEF LaunchThrows
<1>3. faults' \in 0..MaxFaults
    BY SchedulerAssumption DEF LaunchThrows, SchedTypeOK
<1> QED BY <1>2, <1>3, OnlyProcsType DEF LaunchThrows, SchedTypeOK, AheadType

LEMMA SessionExitsType ==
    ASSUME SchedTypeOK, AheadType, NEW s \in sessions, SessionExits(s)
    PROVE  SchedTypeOK'
<1>1. rows' \in [Rows -> RunRow \union {NoRow}] /\ sessions' \subseteq Session
    BY DEF SessionExits, SchedTypeOK
<1> QED BY <1>1, OnlyProcsType DEF SessionExits, SchedTypeOK, AheadType

LEMMA ExecuteRefusedType ==
    ASSUME SchedTypeOK, AheadType, NEW p \in procs, ExecuteRefused(p)
    PROVE  SchedTypeOK'
BY EndsType DEF ExecuteRefused, SchedTypeOK, AheadType

LEMMA RowForType ==
    ASSUME SchedTypeOK, NEW p \in procs
    PROVE  p.task \in Tasks /\ \A r \in RowFor(p) : r \in Rows
BY NewRowType DEF SchedTypeOK, Proc, RowFor, FreeRows

LEMMA ExecuteStrandsType ==
    ASSUME SchedTypeOK, AheadType, NEW p \in procs, ExecuteStrands(p)
    PROVE  SchedTypeOK'
<1>1. rows' \in [Rows -> RunRow \union {NoRow}]
    BY RowForType, RunningRow DEF ExecuteStrands
<1> QED BY <1>1, EndsType DEF ExecuteStrands, SchedTypeOK, AheadType

LEMMA ExecuteStartsType ==
    ASSUME SchedTypeOK, AheadType, NEW p \in procs, ExecuteStarts(p)
    PROVE  SchedTypeOK'
<1>1. PICK r \in RowFor(p) :
          /\ rows' = [rows EXCEPT ![r] = [task |-> p.task, status |-> "running"]]
          /\ Moves(p, [p EXCEPT !.stage = "run", !.run = r])
    BY DEF ExecuteStarts
<1>2. r \in Rows /\ p.task \in Tasks
    BY RowForType
<1>3. rows' \in [Rows -> RunRow \union {NoRow}]
    BY <1>1, <1>2, RunningRow
<1>4. [p EXCEPT !.stage = "run", !.run = r] \in Proc
    BY <1>2 DEF SchedTypeOK, Proc
<1>5. procs' \subseteq Proc
    BY <1>1, <1>4, MovesType
<1> QED BY <1>3, <1>5, OnlyProcsType DEF ExecuteStarts, SchedTypeOK, AheadType

LEMMA RunSucceedsType ==
    ASSUME Held, AheadType, NEW p \in procs, RunSucceeds(p)
    PROVE  SchedTypeOK'
<1>1. SchedTypeOK
    BY DEF Held
<1>2. rows' \in [Rows -> RunRow \union {NoRow}]
    BY <1>1 DEF RunSucceeds, SchedTypeOK
<1>3. CASE ~MarksDone(p) /\ Ends(p)
    BY <1>1, <1>2, <1>3, EndsType DEF RunSucceeds, SchedTypeOK, AheadType
<1>4. CASE ~(~MarksDone(p) /\ Ends(p))
  <2>1. dropped' \subseteq Tasks /\ lost' \subseteq Tasks
      BY <1>1, <1>4, ExcuseType DEF RunSucceeds, SchedTypeOK
  <2>2. p.task \in Tasks /\ p.run # NoRow
      BY <1>1 DEF Held, OneOwner, RunSucceeds, SchedTypeOK, Proc
  <2>3. task[p.task] # NoTask
      BY <2>2 DEF Held, OneOwner, Owners, HoldsRow, RunSucceeds
  <2>4. task' \in [Tasks -> Task \union {NoTask}]
      BY <1>1, <1>4, <2>2, <2>3 DEF RunSucceeds, SchedTypeOK, Task
  <2>5. next' \in [Tasks -> Fire]
      BY <1>1, <1>4, <2>2 DEF RunSucceeds, SchedTypeOK, Fire
  <2>6. up' \in BOOLEAN /\ timer' \in BOOLEAN
      BY <1>1, <1>4, RearmType DEF RunSucceeds, SchedTypeOK
  <2> QED BY <1>1, <1>2, <1>4, <2>1, <2>4, <2>5, <2>6
          DEF RunSucceeds, SchedTypeOK, AheadType, countVars
<1> QED BY <1>3, <1>4

LEMMA RunFailsType ==
    ASSUME SchedTypeOK, AheadType, NEW p \in procs, RunFails(p)
    PROVE  SchedTypeOK'
<1>1. rows' \in [Rows -> RunRow \union {NoRow}]
    BY DEF RunFails, SchedTypeOK
<1> QED BY <1>1, EndsType DEF RunFails, SchedTypeOK, AheadType

LEMMA RunRetriesType ==
    ASSUME Held, AheadType, NEW p \in procs, RunRetries(p)
    PROVE  SchedTypeOK'
<1>1. SchedTypeOK
    BY DEF Held
<1>2. dropped' \subseteq Tasks /\ lost' \subseteq Tasks
    BY <1>1, ExcuseType DEF RunRetries, SchedTypeOK
<1>3. p \in Proc
    BY <1>1 DEF SchedTypeOK
<1>4. p.run \in Rows
    BY <1>3 DEF Held, OneOwner, RunRetries, Proc
<1>5. p.attempt + 1 \in 1..MaxAttempts
    BY <1>3, SchedulerAssumption DEF RunRetries, LastAttempt, Proc
<1>6. [task |-> p.task, attempt |-> p.attempt + 1, run |-> p.run,
       stopped |-> p.stopped] \in Retry
    BY <1>3, <1>4, <1>5 DEF Proc, Retry
<1>7. retries' \subseteq Retry
    BY <1>1, <1>6 DEF RunRetries, SchedTypeOK
<1>8. rows' \in [Rows -> RunRow \union {NoRow}]
    BY <1>1, <1>4 DEF RunRetries, SchedTypeOK, RunRow
<1>9. up' \in BOOLEAN /\ timer' \in BOOLEAN
    BY <1>1, RearmType DEF RunRetries, SchedTypeOK
<1> QED BY <1>1, <1>2, <1>7, <1>8, <1>9 DEF RunRetries, SchedTypeOK, AheadType, countVars

LEMMA OverlayEndsType ==
    ASSUME SchedTypeOK, AheadType, NEW o \in oprocs, OverlayEnds(o),
           ov' \in [Remote -> Fire]
    PROVE  SchedTypeOK'
<1>1. dropped' \subseteq Tasks /\ lost' \subseteq Tasks
    BY ExcuseType DEF OverlayEnds, SchedTypeOK
<1>2. up' \in BOOLEAN /\ timer' \in BOOLEAN
    BY RearmType DEF OverlayEnds, SchedTypeOK
<1> QED BY <1>1, <1>2 DEF OverlayEnds, SchedTypeOK, AheadType, storeVars, countVars

LEMMA OverlayStepType ==
    ASSUME SchedTypeOK, AheadType, NEW o \in oprocs, OverlayStep(o)
    PROVE  SchedTypeOK'
<1>1. o \in OverlayProc /\ o.key \in Remote
    BY DEF SchedTypeOK, OverlayProc
<1>2. CASE OverlayStale(o)
  <2>1. ov' \in [Remote -> Fire]
      BY <1>2 DEF OverlayStale, SchedTypeOK, Fire
  <2> QED BY <1>2, <2>1, OverlayEndsType DEF OverlayStale
<1>3. RolledOverlay(o.key) \in [Remote -> Fire]
    BY DEF RolledOverlay, SchedTypeOK, Fire
<1>4. CASE OverlaySkips(o)
    BY <1>3, <1>4, OverlayEndsType DEF OverlaySkips
<1>5. CASE OverlayRan(o)
    BY <1>3, <1>5, OverlayEndsType DEF OverlayRan
<1>6. CASE OverlayRuns(o)
  <2>1. dropped' \subseteq Tasks /\ lost' \subseteq Tasks
      BY <1>6, ExcuseType DEF OverlayRuns, SchedTypeOK
  <2>2. oprocs' \subseteq OverlayProc
      BY <1>1, <1>6 DEF OverlayRuns, SchedTypeOK, OverlayProc
  <2> QED BY <1>6, <2>1, <2>2
          DEF OverlayRuns, SchedTypeOK, AheadType, storeVars, countVars
<1> QED BY <1>2, <1>4, <1>5, <1>6 DEF OverlayStep

-----------------------------------------------------------------------------
(* How the steps keep the rows apart.                                      *)

\* Steps that neither create nor delete a task.
SameTasks == /\ deleted' = deleted
             /\ \A t \in Tasks : task'[t] = NoTask <=> task[t] = NoTask

\* Steps that write no row but free ones, up to the status.
SameRows ==
    \A r \in Rows \ FreeRows : /\ rows'[r] = NoRow <=> rows[r] = NoRow
                               /\ rows[r] # NoRow => rows'[r].task = rows[r].task

LEMMA HeldFrame ==
    ASSUME Held, SameTasks, procs' = procs, retries' = retries,
           sessions' = sessions, rows' = rows
    PROVE  OneOwner' /\ TabsApart'
<1>1. \A p \in procs : p.task \in Tasks
    BY DEF Held, SchedTypeOK, Proc
<1>2. \A x \in retries : x.task \in Tasks
    BY DEF Held, SchedTypeOK, Retry
<1>3. OneOwner'
    BY <1>1, <1>2 DEF Held, OneOwner, Owners, HoldsRow, SameTasks
<1>4. TabsApart'
    BY DEF Held, TabsApart, Owners, Apart
<1> QED BY <1>3, <1>4

\* The rows of those that hold one are not free.
LEMMA HeldRows ==
    ASSUME Held
    PROVE  /\ \A p \in procs : p \in Proc /\ p.task \in Tasks
           /\ \A x \in retries : x \in Retry /\ x.task \in Tasks
           /\ \A p \in Owners : p \in procs /\ p.run \in Rows \ FreeRows
           /\ \A x \in retries : x.run \in Rows \ FreeRows
           /\ \A s \in sessions : s.run \in Rows \ FreeRows
           /\ \A p \in procs : p.tab \in (Rows \ FreeRows) \union {NoRow}
           /\ \A t \in Tasks : InflightRuns(t) = {} /\ task[t] # NoTask =>
                 (\A p \in Owners : p.task # t) /\ (\A x \in retries : x.task # t)
<1>1. \A p \in procs : p \in Proc /\ p.task \in Tasks
    BY DEF Held, SchedTypeOK, Proc
<1>2. \A x \in retries : x \in Retry /\ x.task \in Tasks
    BY DEF Held, SchedTypeOK, Retry
<1>3. \A p \in Owners : p \in procs /\ p.run \in Rows \ FreeRows
    BY <1>1 DEF Owners, Proc, FreeRows
<1>4. \A x \in retries : x.run \in Rows \ FreeRows
    BY <1>2 DEF Retry, FreeRows
<1>5. \A s \in sessions : s.run \in Rows \ FreeRows
    BY DEF Held, SchedTypeOK, Session, FreeRows
<1>6. \A p \in procs : p.tab \in (Rows \ FreeRows) \union {NoRow}
    BY <1>1 DEF Proc, FreeRows
<1>7. ASSUME NEW t \in Tasks, InflightRuns(t) = {}, task[t] # NoTask
      PROVE  (\A p \in Owners : p.task # t) /\ (\A x \in retries : x.task # t)
    BY <1>3, <1>4, <1>7 DEF Held, OneOwner, HoldsRow, InflightRuns
<1> QED BY <1>1, <1>2, <1>3, <1>4, <1>5, <1>6, <1>7

\* A dispatch or run ends; its own row may go.
LEMMA HeldEnd ==
    ASSUME Held, SameTasks, NEW p \in procs, procs' = procs \ {p},
           retries' = retries,
           \/ sessions' = sessions
           \/ /\ p.stage = "spawn"
              /\ sessions' = sessions \union {[task |-> p.task, run |-> p.tab]},
           SameRows \/ (p \in Owners /\ rows' = [rows EXCEPT ![p.run] = NoRow])
    PROVE  OneOwner' /\ TabsApart'
<1>1. \A q \in Owners' : q \in Owners /\ q # p
    BY DEF Owners
<1>2. ASSUME NEW r \in Rows \ FreeRows, p \in Owners => r # p.run
      PROVE  /\ rows'[r] = NoRow <=> rows[r] = NoRow
             /\ rows[r] # NoRow => rows'[r].task = rows[r].task
    BY <1>2 DEF SameRows, Held, SchedTypeOK
<1>3. \A q \in Owners' : HoldsRow(q)'
    BY <1>1, <1>2, HeldRows DEF Held, OneOwner, HoldsRow, SameTasks
<1>4. \A x \in retries' : HoldsRow(x)'
    BY <1>2, HeldRows DEF Held, OneOwner, HoldsRow, SameTasks
<1>5. OneOwner'
    BY <1>1, <1>3, <1>4 DEF Held, OneOwner
<1>6. \A r : Apart(r) => Apart(r)'
    BY <1>1 DEF Apart
<1>7. TabsApart'
    BY <1>6 DEF Held, TabsApart
<1> QED BY <1>5, <1>7

\* A dispatch or run moves on, with the same row.
LEMMA HeldMove ==
    ASSUME Held, SameTasks, SameRows, NEW p \in procs, NEW to \in Proc,
           Moves(p, to), to.task = p.task, to.run = p.run, to.by = p.by,
           to.stage = "run" => to.run # NoRow,
           to.stage = "spawn" => to.tab # NoRow,
           to.tab \in FreeRows \union {p.tab, NoRow}, retries' = retries,
           \/ sessions' = sessions
           \/ /\ p.stage = "spawn"
              /\ sessions' = sessions \union {[task |-> p.task, run |-> p.tab]}
    PROVE  OneOwner' /\ TabsApart'
<1>1. \A q \in Owners' : q \in Owners \/ (q = to /\ p \in Owners)
    BY DEF Owners, Moves
<1>2. \A q \in Owners' : HoldsRow(q)'
    BY <1>1, HeldRows DEF Held, OneOwner, HoldsRow, SameTasks, SameRows
<1>3. \A x \in retries' : HoldsRow(x)'
    BY HeldRows DEF Held, OneOwner, HoldsRow, SameTasks, SameRows
<1>4. \A q, u \in Owners' : q.task = u.task \/ q.run = u.run => q = u
    BY <1>1 DEF Held, OneOwner, Owners, Moves
<1>5. \A q \in Owners', x \in retries' : q.task # x.task /\ q.run # x.run
    BY <1>1 DEF Held, OneOwner
<1>6. OneOwner'
    BY <1>2, <1>3, <1>4, <1>5 DEF Held, OneOwner, Moves
<1>7. \A r : Apart(r) => Apart(r)'
    BY <1>1 DEF Apart
<1>8. \A r \in FreeRows : Apart(r)
    BY HeldRows DEF Apart
<1>9. TabsApart'
    BY <1>7, <1>8 DEF Held, TabsApart, Moves
<1> QED BY <1>6, <1>9

\* A run begins with a fresh row, for a task nobody holds.
LEMMA HeldBegin ==
    ASSUME Held, SameTasks, NEW D \in SUBSET procs, NEW to \in Proc,
           NEW r \in FreeRows, procs' = (procs \ D) \union {to},
           to.run = r, to.stage = "run",
           to.tab # NoRow => Apart(to.tab) /\ to.tab \notin FreeRows,
           InflightRuns(to.task) = {}, task[to.task] # NoTask,
           rows' = [rows EXCEPT ![r] = [task |-> to.task, status |-> "running"]],
           retries' = retries, sessions' = sessions
    PROVE  OneOwner' /\ TabsApart'
<1>1. r \in Rows /\ r # NoRow /\ to.task \in Tasks
    BY SchedulerAssumption DEF FreeRows, Proc
<1>2. \A q \in Owners' : q \in Owners \/ q = to
    BY DEF Owners
<1>3. (\A q \in Owners : q.task # to.task) /\ (\A x \in retries : x.task # to.task)
    BY <1>1, HeldRows
<1>4. Apart(r)
    BY HeldRows DEF Apart
<1>5. rows'[r] # NoRow /\ rows'[r].task = to.task
    BY <1>1, NoRowAssumption DEF Held, SchedTypeOK, RunRow
<1>6. \A s \in Rows : s # r => rows'[s] = rows[s]
    BY DEF Held, SchedTypeOK
<1>7. \A q \in Owners' : HoldsRow(q)'
    BY <1>1, <1>2, <1>4, <1>5, <1>6, HeldRows
    DEF Held, OneOwner, HoldsRow, SameTasks, Apart
<1>8. \A x \in retries' : HoldsRow(x)'
    BY <1>4, <1>6, HeldRows DEF Held, OneOwner, HoldsRow, SameTasks, Apart
<1>9. \A q, u \in Owners' : q.task = u.task \/ q.run = u.run => q = u
    BY <1>2, <1>3, <1>4 DEF Held, OneOwner, Apart
<1>10. \A q \in Owners', x \in retries' : q.task # x.task /\ q.run # x.run
    BY <1>2, <1>3, <1>4 DEF Held, OneOwner, Apart
<1>11. OneOwner'
    BY <1>1, <1>7, <1>8, <1>9, <1>10 DEF Held, OneOwner
<1>12. \A s : Apart(s) /\ s # r => Apart(s)'
    BY <1>2 DEF Apart
<1>13. TabsApart'
    BY <1>12, HeldRows DEF Held, TabsApart
<1> QED BY <1>11, <1>13

-----------------------------------------------------------------------------
(* Each action keeps the rows apart.                                       *)

LEMMA RolledSame ==
    ASSUME Held, NEW t \in Tasks, task' = RolledTask(t), deleted' = deleted
    PROVE  SameTasks
<1>1. task[t] # NoTask => [task[t] EXCEPT !.auto = FALSE] \in Task
    BY DEF Held, SchedTypeOK, Task
<1> QED BY <1>1, NoTaskAssumption DEF Held, SchedTypeOK, RolledTask, SameTasks

LEMMA EndsSame ==
    ASSUME Held, NEW p \in procs, Ends(p) PROVE SameTasks /\ procs' = procs \ {p}
<1>1. CASE p.by = "scheduler"
    BY <1>1, RolledSame, HeldRows DEF Ends, Conclude
<1>2. CASE p.by # "scheduler"
    BY <1>2 DEF Ends, SameTasks
<1> QED BY <1>1, <1>2 DEF Ends

LEMMA CreateTaskHeld ==
    ASSUME Held, NEW t \in Tasks, CreateTask(t) PROVE OneOwner' /\ TabsApart'
<1>1. /\ procs' = procs /\ retries' = retries /\ sessions' = sessions
      /\ rows' = rows /\ deleted' = deleted
      /\ \A u \in Tasks : u # t => task'[u] = task[u]
    BY DEF CreateTask, Saves, Held, SchedTypeOK
<1>2. (\A p \in Owners : p.task # t) /\ (\A x \in retries : x.task # t)
    BY DEF CreateTask, Held, OneOwner, HoldsRow
<1>3. OneOwner'
    BY <1>1, <1>2, HeldRows DEF Held, OneOwner, Owners, HoldsRow
<1>4. TabsApart'
    BY <1>1 DEF Held, TabsApart, Owners, Apart
<1> QED BY <1>3, <1>4

LEMMA DeleteTaskHeld ==
    ASSUME Held, NEW t \in Tasks, DeleteTask(t) PROVE OneOwner' /\ TabsApart'
<1>1. /\ procs' = procs /\ retries' = retries /\ sessions' = sessions
      /\ task'[t] = NoTask /\ t \in deleted' /\ deleted \subseteq deleted'
      /\ \A u \in Tasks : u # t => task'[u] = task[u]
    BY DEF DeleteTask, Saves, Held, SchedTypeOK
<1>2. \A r \in Rows : rows'[r] = IF rows[r] # NoRow /\ rows[r].task = t
                                 THEN NoRow ELSE rows[r]
    BY DEF DeleteTask, InflightRuns
<1>3. \A p \in Owners : HoldsRow(p)'
    BY <1>1, <1>2, HeldRows DEF Held, OneOwner, HoldsRow
<1>4. \A x \in retries : HoldsRow(x)'
    BY <1>1, <1>2, HeldRows DEF Held, OneOwner, HoldsRow
<1>5. OneOwner'
    BY <1>1, <1>3, <1>4 DEF Held, OneOwner, Owners
<1>6. TabsApart'
    BY <1>1 DEF Held, TabsApart, Owners, Apart
<1> QED BY <1>5, <1>6

LEMMA EmptyHeld ==
    ASSUME procs' = {}, retries' = {}, sessions' = {} PROVE OneOwner' /\ TabsApart'
BY DEF OneOwner, TabsApart, Owners

LEMMA RunNowHeld ==
    ASSUME Held, NEW t \in Tasks, NEW by \in {"api", "modal"}, RunNow(t, by)
    PROVE  OneOwner' /\ TabsApart'
<1> DEFINE to(r) == [task |-> t, by |-> by, attempt |-> 1, stage |-> "run",
                     run |-> r, tab |-> NoRow, stopped |-> FALSE]
<1>1. PICK r \in FreeRows :
          /\ rows' = [rows EXCEPT ![r] = [task |-> t, status |-> "running"]]
          /\ procs' = IF t \in Homeless /\ by = "api" THEN procs
                      ELSE procs \union {to(r)}
    BY NewRowType DEF RunNow
<1>2. /\ SameTasks /\ retries' = retries /\ sessions' = sessions
      /\ task[t] # NoTask /\ InflightRuns(t) = {}
    BY DEF RunNow, SameTasks
<1>3. CASE t \in Homeless /\ by = "api"
  <2>1. procs' = procs /\ \A s \in Rows \ FreeRows : rows'[s] = rows[s]
      BY <1>1, <1>3 DEF Held, SchedTypeOK
  <2>2. \A p \in Owners : HoldsRow(p)'
      BY <1>2, <2>1, HeldRows DEF Held, OneOwner, HoldsRow, SameTasks
  <2>3. \A x \in retries : HoldsRow(x)'
      BY <1>2, <2>1, HeldRows DEF Held, OneOwner, HoldsRow, SameTasks
  <2>4. OneOwner'
      BY <1>2, <2>1, <2>2, <2>3 DEF Held, OneOwner, Owners
  <2>5. TabsApart'
      BY <1>2, <2>1 DEF Held, TabsApart, Owners, Apart
  <2> QED BY <2>4, <2>5
<1>4. CASE ~(t \in Homeless /\ by = "api")
  <2>1. 1 \in 1..MaxAttempts /\ r \in Rows
      BY SchedulerAssumption DEF FreeRows
  <2>2. to(r) \in Proc
      BY <2>1 DEF Proc
  <2>3. procs' = (procs \ {}) \union {to(r)}
      BY <1>1, <1>4
  <2> QED BY <1>1, <1>2, <2>2, <2>3, HeldBegin
<1> QED BY <1>3, <1>4

LEMMA OnTimerHeld ==
    ASSUME Held, OnTimer PROVE OneOwner' /\ TabsApart'
<1>1. PICK S \in Picks :
          procs' = procs \union
            {[task |-> t, by |-> "scheduler", attempt |-> 1, stage |-> "begin",
              run |-> NoRow, tab |-> NoRow, stopped |-> FALSE] : t \in S}
    BY DEF OnTimer
<1>2. /\ SameTasks /\ rows' = rows
      /\ retries' = retries /\ sessions' = sessions
    BY DEF OnTimer, SameTasks
<1>3. Owners' = Owners
    BY <1>1 DEF Owners
<1>4. \A p \in procs' \ procs : p.stage = "begin" /\ p.by = "scheduler" /\ p.tab = NoRow
    BY <1>1
<1>5. OneOwner'
    BY <1>2, <1>3, <1>4, HeldRows DEF Held, OneOwner, HoldsRow, SameTasks
<1>6. TabsApart'
    BY <1>2, <1>3, <1>4 DEF Held, TabsApart, Apart
<1> QED BY <1>5, <1>6

LEMMA RetryFiresHeld ==
    ASSUME Held, NEW q \in retries, RetryFires(q) PROVE OneOwner' /\ TabsApart'
<1> DEFINE to == [task |-> q.task, by |-> "scheduler", attempt |-> q.attempt,
                  stage |-> "begin", run |-> q.run, tab |-> NoRow, stopped |-> FALSE]
<1>1. /\ SameTasks /\ rows' = rows
      /\ retries' = retries \ {q} /\ sessions' = sessions
    BY DEF RetryFires, SameTasks
<1>2. procs' = procs \/ procs' = procs \union {to}
    BY DEF RetryFires
<1>3. \A p \in Owners' : p \in Owners \/ p = to
    BY <1>2 DEF Owners
<1>4. /\ to.task = q.task /\ to.run = q.run /\ to.run # NoRow /\ to.tab = NoRow
      /\ to.stage = "begin" /\ to.by = "scheduler"
    BY HeldRows, SchedulerAssumption DEF Retry
<1> HIDE DEF to
<1>5. \A p \in Owners' : HoldsRow(p)'
    BY <1>1, <1>3, <1>4, HeldRows DEF Held, OneOwner, HoldsRow, SameTasks
<1>6. \A x \in retries' : HoldsRow(x)'
    BY <1>1, HeldRows DEF Held, OneOwner, HoldsRow, SameTasks
<1>7. OneOwner'
  <2>1. \A p \in procs' : p.stage = "run" \/ p.by # "scheduler" => p.run # NoRow
      BY <1>2, <1>4 DEF Held, OneOwner
  <2>2. \A p, u \in Owners' : p.task = u.task \/ p.run = u.run => p = u
      BY <1>3, <1>4 DEF Held, OneOwner
  <2>3. \A p \in Owners', x \in retries' : p.task # x.task /\ p.run # x.run
      BY <1>1, <1>3, <1>4 DEF Held, OneOwner
  <2> QED BY <1>1, <1>5, <1>6, <2>1, <2>2, <2>3 DEF Held, OneOwner
<1>8. \A r : Apart(r) => Apart(r)'
    BY <1>1, <1>3, <1>4 DEF Apart
<1>9. TabsApart'
    BY <1>1, <1>2, <1>4, <1>8 DEF Held, TabsApart
<1> QED BY <1>7, <1>9

LEMMA SessionExitsHeld ==
    ASSUME Held, NEW s \in sessions, SessionExits(s) PROVE OneOwner' /\ TabsApart'
<1>1. /\ SameTasks /\ procs' = procs /\ retries' = retries
      /\ sessions' = sessions \ {s}
      /\ \A r \in Rows : r # s.run => rows'[r] = rows[r]
    BY DEF SessionExits, OnlyProcs, SameTasks, Held, SchedTypeOK
<1>2. Apart(s.run)
    BY DEF Held, TabsApart
<1>3. \A p \in Owners : HoldsRow(p)'
    BY <1>1, <1>2, HeldRows DEF Held, OneOwner, HoldsRow, SameTasks, Apart
<1>4. \A x \in retries : HoldsRow(x)'
    BY <1>1, <1>2, HeldRows DEF Held, OneOwner, HoldsRow, SameTasks, Apart
<1>5. OneOwner'
    BY <1>1, <1>3, <1>4 DEF Held, OneOwner, Owners
<1>6. TabsApart'
    BY <1>1 DEF Held, TabsApart, Owners, Apart
<1> QED BY <1>5, <1>6

LEMMA OnlyProcsSame == OnlyProcs => SameTasks /\ retries' = retries
BY DEF OnlyProcs, SameTasks

\* The five steps of a dispatch that move it on.
LEMMA MovesHeld ==
    ASSUME Held, NEW p \in procs,
           \/ CancelRun(p) \/ BeginInteractive(p) \/ LaunchRow(p) \/ LaunchAborts(p)
           \/ LaunchDeclined(p) \/ LaunchThrows(p)
    PROVE  OneOwner' /\ TabsApart'
<1>1. p \in Proc
    BY HeldRows
<1>2. CASE CancelRun(p)
  <2>1. [p EXCEPT !.stopped = TRUE] \in Proc
      BY <1>1 DEF Proc
  <2>2. /\ Moves(p, [p EXCEPT !.stopped = TRUE]) /\ SameTasks /\ SameRows
        /\ retries' = retries /\ sessions' = sessions /\ p.stage = "run"
      BY <1>2 DEF CancelRun, Moves, SameTasks, SameRows, storeVars
  <2> QED BY <1>1, <2>1, <2>2, HeldMove DEF Proc, Held, OneOwner
<1>3. CASE BeginInteractive(p)
  <2>1. [p EXCEPT !.stage = "launch"] \in Proc
      BY <1>1 DEF Proc
  <2>2. SameTasks /\ SameRows /\ retries' = retries
      BY <1>3, OnlyProcsSame DEF BeginInteractive, SameRows
  <2> QED BY <1>1, <1>3, <2>1, <2>2, HeldMove DEF BeginInteractive, Proc
<1>4. CASE LaunchRow(p)
  <2>1. PICK r \in FreeRows :
            /\ rows' = [rows EXCEPT ![r] = [task |-> p.task, status |-> "running"]]
            /\ Moves(p, [p EXCEPT !.stage = "spawn", !.tab = r])
      BY <1>4, NewRowType DEF LaunchRow
  <2>2. r \in Rows /\ r # NoRow
      BY SchedulerAssumption DEF FreeRows
  <2>3. [p EXCEPT !.stage = "spawn", !.tab = r] \in Proc
      BY <1>1, <2>2 DEF Proc
  <2>4. SameRows
      BY <2>1, <2>2 DEF SameRows, Held, SchedTypeOK
  <2>5. SameTasks /\ retries' = retries /\ sessions' = sessions
      BY <1>4, OnlyProcsSame DEF LaunchRow
  <2> QED BY <1>1, <2>1, <2>2, <2>3, <2>4, <2>5, HeldMove DEF Proc
<1>5. CASE LaunchAborts(p)
  <2>1. [p EXCEPT !.stage = "headless"] \in Proc
      BY <1>1 DEF Proc
  <2>2. SameTasks /\ SameRows /\ retries' = retries
      BY <1>5, OnlyProcsSame DEF LaunchAborts, SameRows
  <2> QED BY <1>1, <1>5, <2>1, <2>2, HeldMove DEF LaunchAborts, Proc
<1>6. [p EXCEPT !.stage = "headless", !.tab = NoRow] \in Proc
    BY <1>1 DEF Proc
<1>7. CASE LaunchDeclined(p)
  <2>1. SameTasks /\ SameRows /\ retries' = retries
      BY <1>7, OnlyProcsSame DEF LaunchDeclined, SameRows
  <2> QED BY <1>1, <1>6, <1>7, <2>1, HeldMove DEF LaunchDeclined, Proc
<1>8. CASE LaunchThrows(p)
  <2>1. SameTasks /\ SameRows /\ retries' = retries
      BY <1>8, OnlyProcsSame DEF LaunchThrows, SameRows
  <2> QED BY <1>1, <1>6, <1>8, <2>1, HeldMove DEF LaunchThrows, Proc
<1> QED BY <1>2, <1>3, <1>4, <1>5, <1>7, <1>8

LEMMA StartsHeld ==
    ASSUME Held, NEW p \in procs, ExecuteStarts(p) PROVE OneOwner' /\ TabsApart'
<1>1. PICK r \in RowFor(p) :
          /\ rows' = [rows EXCEPT ![r] = [task |-> p.task, status |-> "running"]]
          /\ Moves(p, [p EXCEPT !.stage = "run", !.run = r])
    BY DEF ExecuteStarts
<1> DEFINE to == [p EXCEPT !.stage = "run", !.run = r]
<1>2. r \in Rows /\ r # NoRow /\ p \in Proc
    BY RowForType, HeldRows, SchedulerAssumption DEF Held
<1>3. /\ to \in Proc /\ to.task = p.task /\ to.run = r /\ to.by = p.by
      /\ to.tab = p.tab /\ to.stage = "run"
    BY <1>2 DEF Proc
<1>4. Moves(p, to)
    BY <1>1
<1> HIDE DEF to
<1>5. SameTasks /\ retries' = retries /\ sessions' = sessions
    BY OnlyProcsSame DEF ExecuteStarts
<1>6. CASE p.run = NoRow
  <2>1. r \in FreeRows /\ InflightRuns(p.task) = {} /\ task[p.task] # NoTask
      BY <1>1, <1>6, NewRowType DEF RowFor, ExecuteStarts, Occupied
  <2>2. p.tab # NoRow => Apart(p.tab) /\ p.tab \notin FreeRows
      BY HeldRows DEF Held, TabsApart
  <2>3. procs' = (procs \ {p}) \union {to}
      BY <1>4 DEF Moves
  <2> QED BY <1>1, <1>3, <1>5, <2>1, <2>2, <2>3, HeldBegin
<1>7. CASE p.run # NoRow
  <2>1. r = p.run /\ rows[r] # NoRow /\ p \in Owners
      BY <1>1, <1>7 DEF RowFor, Owners
  <2>2. rows[r].task = p.task
      BY <2>1 DEF Held, OneOwner, HoldsRow
  <2>3. rows'[r] # NoRow /\ rows'[r].task = p.task
      BY <1>1, <1>2, NoRowAssumption DEF Held, SchedTypeOK, RunRow, Proc
  <2>4. SameRows
      BY <1>1, <2>1, <2>2, <2>3 DEF SameRows, Held, SchedTypeOK
  <2> QED BY <1>2, <1>3, <1>4, <1>5, <2>1, <2>4, HeldMove
<1> QED BY <1>6, <1>7

LEMMA EndHeld ==
    ASSUME Held, NEW p \in procs,
           \/ Launched(p) \/ ExecuteRefused(p) \/ ExecuteStrands(p) \/ RunSucceeds(p)
           \/ RunFails(p)
    PROVE  OneOwner' /\ TabsApart'
<1>1. CASE Launched(p)
  <2>1. SameRows /\ retries' = retries
      BY <1>1 DEF Launched, SameRows
  <2> QED BY <1>1, <2>1, EndsSame, HeldEnd DEF Launched
<1>2. CASE ExecuteRefused(p)
  <2>1. SameRows /\ retries' = retries /\ sessions' = sessions
      BY <1>2 DEF ExecuteRefused, SameRows
  <2> QED BY <1>2, <2>1, EndsSame, HeldEnd DEF ExecuteRefused
<1>3. CASE ExecuteStrands(p)
  <2>1. PICK r \in RowFor(p) :
            rows' = [rows EXCEPT ![r] = [task |-> p.task, status |-> "running"]]
      BY <1>3 DEF ExecuteStrands
  <2>2. r \in Rows /\ p \in Proc
      BY RowForType, HeldRows DEF Held
  <2>3. rows'[r] # NoRow /\ rows'[r].task = p.task
      BY <2>1, <2>2, NoRowAssumption DEF Held, SchedTypeOK, RunRow, Proc
  <2>4. r \in FreeRows \/ (rows[r] # NoRow /\ rows[r].task = p.task)
      BY <2>1, NewRowType DEF RowFor, Held, OneOwner, HoldsRow, Owners
  <2>5. SameRows
      BY <2>1, <2>3, <2>4 DEF SameRows, Held, SchedTypeOK
  <2> QED BY <1>3, <2>5, EndsSame, HeldEnd DEF ExecuteStrands
<1>4. CASE RunSucceeds(p)
  <2>1. p \in Owners /\ p.task \in Tasks
      BY <1>4, HeldRows DEF RunSucceeds, Held, OneOwner, Owners
  <2>2. task[p.task] # NoTask
      BY <1>4, <2>1 DEF RunSucceeds, Held, OneOwner, HoldsRow
  <2>3. SameTasks /\ procs' = procs \ {p}
    <3>1. CASE ~MarksDone(p) /\ Ends(p)
        BY <3>1, EndsSame
    <3>2. CASE ~(~MarksDone(p) /\ Ends(p))
      <4>1. [task[p.task] EXCEPT !.status = "done"] \in Task
          BY <2>1, <2>2 DEF Held, SchedTypeOK, Task
      <4> QED BY <1>4, <2>1, <2>2, <3>2, <4>1, NoTaskAssumption
              DEF RunSucceeds, SameTasks, Held, SchedTypeOK, Task
    <3> QED BY <3>1, <3>2
  <2> QED BY <1>4, <2>1, <2>3, HeldEnd DEF RunSucceeds
<1>5. CASE RunFails(p)
  <2>1. p \in Owners
      BY <1>5 DEF RunFails, Held, OneOwner, Owners
  <2> QED BY <1>5, <2>1, EndsSame, HeldEnd DEF RunFails
<1> QED BY <1>1, <1>2, <1>3, <1>4, <1>5

LEMMA RunRetriesHeld ==
    ASSUME Held, NEW p \in procs, RunRetries(p) PROVE OneOwner' /\ TabsApart'
<1> DEFINE to == [task |-> p.task, attempt |-> p.attempt + 1, run |-> p.run,
                  stopped |-> p.stopped]
<1>1. /\ SameTasks /\ sessions' = sessions /\ procs' = procs \ {p}
      /\ retries' = retries \union {to} /\ rows[p.run] # NoRow
      /\ rows' = [rows EXCEPT ![p.run].status = "queued"]
    BY DEF RunRetries, SameTasks
<1>2. p \in Owners /\ p.run \in Rows /\ p.task \in Tasks
    BY HeldRows DEF RunRetries, Held, OneOwner, Owners
<1>3. to.task = p.task /\ to.run = p.run
    OBVIOUS
<1> HIDE DEF to
<1>4. rows[p.run] \in RunRow
    BY <1>1, <1>2 DEF Held, SchedTypeOK
<1>5. [rows[p.run] EXCEPT !.status = "queued"] \in RunRow
         /\ [rows[p.run] EXCEPT !.status = "queued"].task = rows[p.run].task
    BY <1>4 DEF RunRow
<1>6. \A r \in Rows : /\ rows'[r] = NoRow <=> rows[r] = NoRow
                      /\ rows[r] # NoRow => rows'[r].task = rows[r].task
    BY <1>1, <1>2, <1>5, NoRowAssumption DEF Held, SchedTypeOK
<1>7. \A q \in Owners' : q \in Owners /\ q # p
    BY <1>1 DEF Owners
<1>8. OneOwner'
  <2>1. \A q \in Owners' : HoldsRow(q)'
      BY <1>1, <1>6, <1>7, HeldRows DEF Held, OneOwner, HoldsRow, SameTasks
  <2>2. HoldsRow(to)'
      BY <1>1, <1>2, <1>3, <1>6 DEF Held, OneOwner, HoldsRow, SameTasks
  <2>3. \A x \in retries : HoldsRow(x)'
      BY <1>1, <1>6, HeldRows DEF Held, OneOwner, HoldsRow, SameTasks
  <2>4. \A x \in retries : x.task # to.task /\ x.run # to.run
      BY <1>2, <1>3 DEF Held, OneOwner
  <2>5. \A q \in Owners' : q.task # to.task /\ q.run # to.run
      BY <1>2, <1>3, <1>7 DEF Held, OneOwner
  <2> QED BY <1>1, <1>7, <2>1, <2>2, <2>3, <2>4, <2>5 DEF Held, OneOwner
<1>9. \A r : Apart(r) => Apart(r)'
    BY <1>1, <1>2, <1>3, <1>7 DEF Apart
<1>10. TabsApart'
    BY <1>1, <1>9 DEF Held, TabsApart
<1> QED BY <1>8, <1>10

LEMMA TaskStepHeld ==
    ASSUME Held, NEW t \in Tasks,
           Tick(t) \/ PatchSchedule(t) \/ PatchNext(t) \/ PatchStatus(t)
    PROVE  OneOwner' /\ TabsApart'
<1>1. CASE Tick(t)
    BY <1>1, HeldFrame DEF Tick, memVars, SameTasks
<1>2. CASE PatchSchedule(t)
  <2>1. PICK a \in BOOLEAN, c \in {"none", "valid", "invalid"} :
            task' = [task EXCEPT ![t] = [task[t] EXCEPT !.auto = a, !.cron = c]]
      BY <1>2 DEF PatchSchedule
  <2> DEFINE rec == [task[t] EXCEPT !.auto = a, !.cron = c]
  <2>2. rec \in Task /\ task' = [task EXCEPT ![t] = rec] /\ task[t] # NoTask
      BY <1>2, <2>1 DEF PatchSchedule, Held, SchedTypeOK, Task
  <2> HIDE DEF rec
  <2>3. SameTasks
      BY <1>2, <2>2, NoTaskAssumption DEF PatchSchedule, Held, SchedTypeOK, SameTasks
  <2> QED BY <1>2, <2>3, HeldFrame DEF PatchSchedule, Saves
<1>3. CASE PatchNext(t)
    BY <1>3, HeldFrame DEF PatchNext, Saves, SameTasks
<1>4. CASE PatchStatus(t)
  <2>1. PICK s \in {"pending", "done", "cancelled"} :
            task' = [task EXCEPT ![t].status = s]
      BY <1>4 DEF PatchStatus
  <2>2. [task[t] EXCEPT !.status = s] \in Task /\ task[t] # NoTask
      BY <1>4 DEF PatchStatus, Held, SchedTypeOK, Task
  <2>3. SameTasks
      BY <1>4, <2>1, <2>2, NoTaskAssumption
      DEF PatchStatus, Held, SchedTypeOK, SameTasks
  <2> QED BY <1>4, <2>3, HeldFrame DEF PatchStatus, Saves
<1> QED BY <1>1, <1>2, <1>3, <1>4

LEMMA OverlayHeld ==
    ASSUME Held,
           \/ \E k \in Remote : TickOverlay(k) \/ OverlayPatch(k)
           \/ \E o \in oprocs : OverlayStep(o)
    PROVE  OneOwner' /\ TabsApart'
<1>1. /\ SameTasks /\ procs' = procs /\ retries' = retries
      /\ sessions' = sessions /\ rows' = rows
    BY DEF TickOverlay, OverlayPatch, OverlayStep, OverlayStale, OverlaySkips,
           OverlayRuns, OverlayRan, OverlayEnds, SameTasks, storeVars, memVars
<1> QED BY <1>1, HeldFrame

-----------------------------------------------------------------------------
(* The inductive invariant.                                                *)

SchedInv == Held /\ Down /\ Keys

LEMMA DownStep == ASSUME Down, SchedStep PROVE Down'
<1>1. CASE \E t \in Tasks : Tick(t)
    BY <1>1 DEF Down, Tick, memVars
<1>2. CASE \E k \in Remote : TickOverlay(k)
    BY <1>2 DEF Down, TickOverlay, memVars
<1>3. CASE Boot
    BY <1>3 DEF Down, Boot
<1>4. CASE Crash
    BY <1>4 DEF Down, Crash
<1>5. CASE ApiNext
    BY <1>5 DEF Down, ApiNext, CreateTask, PatchSchedule, PatchNext, PatchStatus,
           DeleteTask, RunNow, CancelRun, OverlayPatch, Saves, Client
<1>6. CASE OnTimer
    BY <1>6 DEF Down, OnTimer
<1>7. CASE \E q \in retries : RetryFires(q)
    BY <1>7 DEF Down, RetryFires
<1>8. CASE \E p \in procs : Progresses(p) \/ LaunchThrows(p)
  <2>1. up' = up
      BY <1>8 DEF Progresses, BeginInteractive, LaunchRow, LaunchAborts, Launched,
             LaunchDeclined, LaunchThrows, ExecuteRefused, ExecuteStrands,
             ExecuteStarts, RunSucceeds, RunFails, RunRetries, Ends, OnlyProcs
  <2> QED BY <1>8, <2>1 DEF Down
<1>9. CASE \E s \in sessions : SessionExits(s)
    BY <1>9 DEF Down, SessionExits, OnlyProcs
<1>10. CASE \E o \in oprocs : OverlayStep(o)
    BY <1>10 DEF Down, OverlayStep, OverlayStale, OverlaySkips, OverlayRuns,
           OverlayRan, OverlayEnds
<1> QED BY <1>1, <1>2, <1>3, <1>4, <1>5, <1>6, <1>7, <1>8, <1>9, <1>10 DEF SchedStep

\* A dispatch of a local task gives back no overlay key.
LEMMA EndsKeys == ASSUME Held, Keys, NEW p \in procs, Ends(p) PROVE Keys'
<1>1. p.task \in Tasks /\ \A o \in oprocs : o.key \in Remote
    BY HeldRows DEF Held, SchedTypeOK, OverlayProc
<1>2. oprocs' = oprocs /\ \A o \in oprocs : o.key \in inFlight => o.key \in inFlight'
    BY <1>1, SchedulerAssumption DEF Ends, Conclude
<1> QED BY <1>2 DEF Keys

LEMMA KeysStep == ASSUME Held, Keys, SchedStep PROVE Keys'
<1>1. CASE \E t \in Tasks : Tick(t)
    BY <1>1 DEF Keys, Tick, memVars
<1>2. CASE \E k \in Remote : TickOverlay(k)
    BY <1>2 DEF Keys, TickOverlay, memVars
<1>3. CASE Boot
    BY <1>3 DEF Keys, Boot
<1>4. CASE Crash
    BY <1>4 DEF Keys, Crash
<1>5. CASE ApiNext
    BY <1>5 DEF Keys, ApiNext, CreateTask, PatchSchedule, PatchNext, PatchStatus,
           DeleteTask, RunNow, CancelRun, OverlayPatch, Saves
<1>6. CASE OnTimer
  <2>1. PICK S \in Picks : \E K \in OverlayPicks(S) :
            /\ inFlight' = inFlight \union S \union K
            /\ oprocs' = oprocs \union {[key |-> k, stage |-> "check"] : k \in K}
      BY <1>6 DEF OnTimer
  <2>2. PICK K \in OverlayPicks(S) :
            /\ inFlight' = inFlight \union S \union K
            /\ oprocs' = oprocs \union {[key |-> k, stage |-> "check"] : k \in K}
      BY <2>1
  <2>3. K \intersect inFlight = {}
      BY DEF OverlayPicks
  <2>4. \A o \in oprocs' : o \in oprocs \/ (o.key \in K /\ o.stage = "check"
                                            /\ o = [key |-> o.key, stage |-> "check"])
      BY <2>2
  <2> QED BY <2>2, <2>3, <2>4 DEF Keys
<1>7. CASE \E q \in retries : RetryFires(q)
    BY <1>7 DEF Keys, RetryFires
<1>8. CASE \E p \in procs : Progresses(p) \/ LaunchThrows(p)
  <2>1. PICK p \in procs : Progresses(p) \/ LaunchThrows(p)
      BY <1>8
  <2>2. CASE Ends(p)
      BY <2>2, EndsKeys
  <2>3. CASE OnlyProcs
      BY <2>3 DEF Keys, OnlyProcs
  <2>4. CASE RunSucceeds(p) /\ ~Ends(p)
    <3>1. oprocs' = oprocs /\ inFlight \ {p.task} \subseteq inFlight'
        BY <2>4 DEF RunSucceeds
    <3> QED BY <3>1, HeldRows, SchedulerAssumption
            DEF Keys, Held, SchedTypeOK, OverlayProc
  <2>5. CASE RunRetries(p)
    <3>1. oprocs' = oprocs /\ inFlight \ {p.task} \subseteq inFlight'
        BY <2>5 DEF RunRetries
    <3> QED BY <3>1, HeldRows, SchedulerAssumption
            DEF Keys, Held, SchedTypeOK, OverlayProc
  <2> QED BY <2>1, <2>2, <2>3, <2>4, <2>5
          DEF Progresses, BeginInteractive, LaunchRow, LaunchAborts, Launched,
              LaunchDeclined, LaunchThrows, ExecuteRefused, ExecuteStrands,
              ExecuteStarts, RunFails
<1>9. CASE \E s \in sessions : SessionExits(s)
    BY <1>9 DEF Keys, SessionExits, OnlyProcs
<1>10. CASE \E o \in oprocs : OverlayStep(o)
  <2>1. PICK o \in oprocs : OverlayStep(o)
      BY <1>10
  <2>2. CASE OverlayRuns(o)
    <3>1. o \in OverlayProc /\ [o EXCEPT !.stage = "launch"].key = o.key
        BY DEF Held, SchedTypeOK, OverlayProc
    <3> QED BY <2>2, <3>1 DEF Keys, OverlayRuns
  <2>3. CASE OverlayEnds(o)
      BY <2>3 DEF Keys, OverlayEnds
  <2> QED BY <2>1, <2>2, <2>3 DEF OverlayStep, OverlayStale, OverlaySkips, OverlayRan
<1> QED BY <1>1, <1>2, <1>3, <1>4, <1>5, <1>6, <1>7, <1>8, <1>9, <1>10 DEF SchedStep

LEMMA TypeStep == ASSUME SchedInv, SchedStep, AheadType PROVE SchedTypeOK'
<1> USE DEF SchedInv, Held
<1>1. CASE ApiNext
    BY <1>1, CreateTaskType, PatchScheduleType, PatchNextType, PatchStatusType,
       DeleteTaskType, RunNowType, CancelRunType, OverlayPatchType DEF ApiNext
<1>2. CASE \E p \in procs : Progresses(p) \/ LaunchThrows(p)
    BY <1>2, BeginInteractiveType, LaunchRowType, LaunchAbortsType, LaunchedType,
       LaunchDeclinedType, LaunchThrowsType, ExecuteRefusedType, ExecuteStrandsType,
       ExecuteStartsType, RunSucceedsType, RunFailsType, RunRetriesType DEF Progresses
<1> QED BY <1>1, <1>2, TickType, TickOverlayType, BootType, CrashType, OnTimerType,
           RetryFiresType, SessionExitsType, OverlayStepType DEF SchedStep

LEMMA HeldStep == ASSUME SchedInv, SchedStep PROVE OneOwner' /\ TabsApart'
<1>1. Held
    BY DEF SchedInv
<1>2. CASE ApiNext
    BY <1>1, <1>2, CreateTaskHeld, TaskStepHeld, DeleteTaskHeld, RunNowHeld,
       MovesHeld, OverlayHeld DEF ApiNext
<1>3. CASE \E p \in procs : Progresses(p) \/ LaunchThrows(p)
    BY <1>1, <1>3, MovesHeld, StartsHeld, EndHeld, RunRetriesHeld DEF Progresses
<1>4. CASE Boot
    BY <1>4, EmptyHeld DEF Boot, SchedInv, Down
<1>5. CASE Crash
    BY <1>5, EmptyHeld DEF Crash
<1> QED BY <1>1, <1>2, <1>3, <1>4, <1>5, TaskStepHeld, OverlayHeld, OnTimerHeld,
           RetryFiresHeld, SessionExitsHeld DEF SchedStep

\* The inductive invariant of the scheduler: well-typed state; one holder per
\* task and row (electron/agents/execute.ts, the getInflightRun guard);
\* nothing in memory while the app is down; overlay keys in flight once.
THEOREM SchedInvariant == SchedSpec => []SchedInv
<1>1. SchedInit => SchedInv
  <2>1. SchedInit => OneOwner /\ TabsApart /\ Down /\ Keys
      BY DEF SchedInit, OneOwner, TabsApart, Owners, Down, Keys
  <2> QED BY <2>1, SchedInitType DEF SchedInv, Held
<1>2. SchedInv /\ [SchedNext]_vars => SchedInv'
  <2> SUFFICES ASSUME SchedInv, [SchedNext]_vars PROVE SchedInv'
      OBVIOUS
  <2>1. CASE SchedNext
    <3>1. SchedStep /\ AheadType
        BY <2>1, SoonestType DEF SchedNext
    <3> QED BY <3>1, TypeStep, HeldStep, DownStep, KeysStep DEF SchedInv, Held
  <2>2. CASE UNCHANGED vars
      BY <2>2 DEF vars, storeVars, memVars, countVars, SchedInv, Held, SchedTypeOK,
             OneOwner, TabsApart, Owners, Apart, HoldsRow, Down, Keys
  <2> QED BY <2>1, <2>2
<1> QED BY <1>1, <1>2, PTL DEF SchedSpec

\* Type correctness of the scheduler's tables, sets and timers.
THEOREM SchedulerTypes == SchedSpec => []SchedTypeOK
<1>1. SchedInv => SchedTypeOK
    BY DEF SchedInv, Held
<1> QED BY <1>1, SchedInvariant, PTL

\* One headless agent per task, however the timer, the retries and the
\* clients of the task API interleave (executeTaskRun's guard).
THEOREM OneRunPerTask == SchedSpec => []SingleRunner
<1>1. SchedInv => SingleRunner
    BY DEF SchedInv, Held, OneOwner, Owners, Keys, SingleRunner
<1> QED BY <1>1, SchedInvariant, PTL

(***************************************************************************)
(* Fire times: the timer is armed while something is scheduled, a          *)
(* recurring task keeps a future, and a cleared schedule of a remote task  *)
(* stays cleared.                                                          *)
(***************************************************************************)

-----------------------------------------------------------------------------
(* The timer.  Every step arms it anew or leaves alone what it depends on; *)
(* a budget that is used up is given back by a step that arms it.          *)

LEMMA RearmArms == Rearm => TimerArmed'
BY DEF Rearm, TimerArmed

LEMMA KeepsArmed ==
    ASSUME TimerArmed, up' = up, timer' = timer, inFlight' = inFlight,
           HasFire(task, next, ov)' => HasFire(task, next, ov)
    PROVE  TimerArmed'
BY DEF TimerArmed

LEMMA OnlyProcsArmed == ASSUME TimerArmed, OnlyProcs PROVE TimerArmed'
BY KeepsArmed DEF OnlyProcs, HasFire, Active

LEMMA EndsArmed == ASSUME TimerArmed, NEW p \in procs, Ends(p) PROVE TimerArmed'
<1>1. CASE p.by = "scheduler"
    BY <1>1, RearmArms DEF Ends, Conclude
<1>2. CASE p.by # "scheduler"
    BY <1>2, KeepsArmed DEF Ends, HasFire, Active
<1> QED BY <1>1, <1>2

LEMMA ArmedStep == ASSUME SchedTypeOK, TimerArmed, SchedStep PROVE TimerArmed'
<1>1. ASSUME NEW t \in Tasks, Tick(t) PROVE TimerArmed'
  <2>1. HasFire(task, next, ov)' => HasFire(task, next, ov)
      BY <1>1 DEF Tick, SchedTypeOK, HasFire, Active
  <2> QED BY <1>1, <2>1, KeepsArmed DEF Tick, memVars
<1>2. ASSUME NEW k \in Remote, TickOverlay(k) PROVE TimerArmed'
  <2>1. HasFire(task, next, ov)' => HasFire(task, next, ov)
      BY <1>2 DEF TickOverlay, SchedTypeOK, HasFire, Active, storeVars
  <2> QED BY <1>2, <2>1, KeepsArmed DEF TickOverlay, memVars
<1>3. CASE Boot
    BY <1>3, RearmArms DEF Boot
<1>4. CASE Crash
    BY <1>4 DEF Crash, TimerArmed
<1>5. CASE ApiNext
  <2>1. CASE Rearm
      BY <2>1, RearmArms
  <2>2. ASSUME NEW t \in Tasks, NEW by \in {"api", "modal"}, RunNow(t, by)
        PROVE  TimerArmed'
      BY <2>2, KeepsArmed DEF RunNow, HasFire, Active
  <2>3. ASSUME NEW p \in procs, CancelRun(p) PROVE TimerArmed'
      BY <2>3, KeepsArmed DEF CancelRun, storeVars, HasFire, Active
  <2> QED BY <1>5, <2>1, <2>2, <2>3 DEF ApiNext, CreateTask, PatchSchedule,
             PatchNext, PatchStatus, DeleteTask, OverlayPatch, Saves
<1>6. CASE OnTimer
  <2>1. PICK S \in Picks : Fired(S)
      BY <1>6 DEF OnTimer
  <2> QED BY <2>1, RearmArms DEF Fired, TimerArmed
<1>7. ASSUME NEW q \in retries, RetryFires(q) PROVE TimerArmed'
  <2>1. CASE task[q.task] = NoTask
      BY <1>7, <2>1, KeepsArmed DEF RetryFires, HasFire, Active
  <2>2. CASE task[q.task] # NoTask
      BY <1>7, <2>2, RearmArms DEF RetryFires
  <2> QED BY <2>1, <2>2
<1>8. ASSUME NEW p \in procs, Progresses(p) \/ LaunchThrows(p) PROVE TimerArmed'
  <2>1. Rearm \/ Ends(p) \/ OnlyProcs
      BY <1>8 DEF Progresses, BeginInteractive, LaunchRow, LaunchAborts, Launched,
             LaunchDeclined, LaunchThrows, ExecuteRefused, ExecuteStrands,
             ExecuteStarts, RunSucceeds, RunFails, RunRetries
  <2> QED BY <2>1, RearmArms, EndsArmed, OnlyProcsArmed
<1>9. ASSUME NEW s \in sessions, SessionExits(s) PROVE TimerArmed'
    BY <1>9, OnlyProcsArmed DEF SessionExits
<1>10. ASSUME NEW o \in oprocs, OverlayStep(o) PROVE TimerArmed'
  <2>1. CASE OverlayEnds(o)
      BY <2>1, RearmArms DEF OverlayEnds
  <2>2. CASE OverlayRuns(o)
      BY <2>2, KeepsArmed DEF OverlayRuns, storeVars, HasFire, Active
  <2> QED BY <1>10, <2>1, <2>2
          DEF OverlayStep, OverlayStale, OverlaySkips, OverlayRan
<1> QED BY <1>1, <1>2, <1>3, <1>4, <1>5, <1>6, <1>7, <1>8, <1>9, <1>10 DEF SchedStep

\* No wake-up is lost (electron/scheduler.ts, rearm): while the app is up and
\* something is scheduled, the Timeout is armed or the budget is used up.
THEOREM TimerNeverLost == SchedSpec => []TimerArmed
<1>1. SchedInit => TimerArmed
    BY DEF SchedInit, TimerArmed
<1>2. SchedTypeOK /\ TimerArmed /\ [SchedNext]_vars => TimerArmed'
  <2>1. TimerArmed /\ UNCHANGED vars => TimerArmed'
      BY DEF vars, storeVars, memVars, TimerArmed, HasFire, Active
  <2> QED BY <2>1, ArmedStep DEF SchedNext
<1> QED BY <1>1, <1>2, SchedulerTypes, PTL DEF SchedSpec

-----------------------------------------------------------------------------
(* Schedules of remote tasks.                                              *)

LEMMA ClearedStep ==
    ASSUME SchedTypeOK, SchedStep, NEW k \in Remote, ov[k] = "never",
           calls' = calls
    PROVE  ov'[k] = "never"
<1>1. CASE \E j \in Remote : TickOverlay(j)
    BY <1>1 DEF TickOverlay, SchedTypeOK
<1>2. CASE ApiNext
  <2>1. Client
      BY <1>2 DEF ApiNext, CreateTask, PatchSchedule, PatchNext, PatchStatus,
             DeleteTask, RunNow, CancelRun, OverlayPatch, Saves
  <2>2. calls' # calls
      BY <2>1, SchedulerAssumption DEF Client, SchedTypeOK
  <2> QED BY <2>2
<1>3. CASE \E o \in oprocs : OverlayStep(o)
  <2>1. PICK o \in oprocs : OverlayStep(o)
      BY <1>3
  <2>2. ov' = [ov EXCEPT ![o.key] = "never"] \/ ov' = RolledOverlay(o.key) \/ ov' = ov
      BY <2>1 DEF OverlayStep, OverlayStale, OverlaySkips, OverlayRuns, OverlayRan
  <2> QED BY <2>2 DEF SchedTypeOK, RolledOverlay
<1>4. CASE \E p \in procs : Progresses(p) \/ LaunchThrows(p)
    BY <1>4 DEF Progresses, BeginInteractive, LaunchRow, LaunchAborts, Launched,
           LaunchDeclined, LaunchThrows, ExecuteRefused, ExecuteStrands,
           ExecuteStarts, RunSucceeds, RunFails, RunRetries, Ends, OnlyProcs
<1> QED BY <1>1, <1>2, <1>3, <1>4 DEF SchedStep, Tick, Boot, Crash, OnTimer,
           RetryFires, SessionExits, OnlyProcs

\* The schedule of a remote task that was cleared (electron/schedule-overlay.ts)
\* comes back only by a call of a client.
THEOREM ClearedStaysCleared == SchedSpec => ClearedStays
<1>1. SchedTypeOK /\ [SchedNext]_vars =>
          [\A k \in Remote : ov[k] = "never" /\ ov'[k] # "never" => calls' # calls]_vars
    BY ClearedStep DEF SchedNext
<1> QED BY <1>1, SchedulerTypes, PTL DEF SchedSpec, ClearedStays

-----------------------------------------------------------------------------
(* Recurring tasks.  The inductive form leaves the status out: closing and *)
(* opening a task again leaves its fire time alone.                        *)

Kept ==
    \A t \in Tasks :
        /\ task[t] # NoTask /\ task[t].auto /\ task[t].cron = "valid"
        /\ t \notin dropped \union lost
        => HasFuture(t)

\* Enough: a task without a fire time after the step has a dispatch or retry.
LEMMA KeptBy ==
    ASSUME SchedTypeOK', NEW D, NEW L, Excuse(D, L),
           \A t \in Tasks :
               /\ task'[t] # NoTask /\ task'[t].auto /\ task'[t].cron = "valid"
               /\ t \notin dropped \union D \union lost \union L
               /\ next'[t] = "never"
               => HasFuture(t)'
    PROVE  Kept'
BY DEF Kept, Excuse, HasFuture

\* Steps after which every dispatch and retry still has one for its task.
Continues ==
    /\ \A p \in procs : p.by = "scheduler" =>
           \/ \E q \in procs' : q.by = "scheduler" /\ q.task = p.task
           \/ \E q \in retries' : q.task = p.task
    /\ \A q \in retries :
           \/ \E p \in procs' : p.by = "scheduler" /\ p.task = q.task
           \/ \E x \in retries' : x.task = q.task

LEMMA KeptFrame ==
    ASSUME SchedTypeOK', Kept, Excuse({}, {}), Continues, task' = task, next' = next
    PROVE  Kept'
<1>1. \A t \in Tasks : HasFuture(t) /\ next'[t] = "never" => HasFuture(t)'
    BY DEF HasFuture, Continues
<1> QED BY <1>1, KeptBy DEF Kept

LEMMA KeptApi == ASSUME SchedTypeOK, SchedTypeOK', Kept, ApiNext PROVE Kept'
<1>1. ASSUME NEW t \in Tasks, NEW by, RunNow(t, by) PROVE Kept'
    BY <1>1, KeptFrame DEF RunNow, Continues
<1>2. ASSUME NEW p \in procs, CancelRun(p) PROVE Kept'
  <2>1. [p EXCEPT !.stopped = TRUE].by = p.by /\ [p EXCEPT !.stopped = TRUE].task = p.task
      BY DEF SchedTypeOK, Proc
  <2> QED BY <1>2, <2>1, KeptFrame DEF CancelRun, storeVars, Continues
<1>3. ASSUME NEW k \in Remote, OverlayPatch(k) PROVE Kept'
    BY <1>3, KeptFrame DEF OverlayPatch, storeVars, Continues
<1>4. Saves => procs' = procs /\ retries' = retries
    BY DEF Saves
<1>5. ASSUME NEW t \in Tasks, CreateTask(t) PROVE Kept'
  <2>1. \A u \in Tasks \ {t} : task'[u] = task[u] /\ next'[u] = next[u]
      BY <1>5 DEF CreateTask, SchedTypeOK
  <2> QED BY <1>4, <1>5, <2>1, KeptBy DEF CreateTask, Kept, HasFuture
<1>6. ASSUME NEW t \in Tasks, PatchSchedule(t) PROVE Kept'
  <2>1. PICK a \in BOOLEAN, c \in {"none", "valid", "invalid"} :
            /\ task' = [task EXCEPT ![t] = [task[t] EXCEPT !.auto = a, !.cron = c]]
            /\ a /\ c = "valid" => next' = [next EXCEPT ![t] = "later"]
            /\ \A u \in Tasks \ {t} : next'[u] = next[u]
      BY <1>6 DEF PatchSchedule, SchedTypeOK
  <2> DEFINE rec == [task[t] EXCEPT !.auto = a, !.cron = c]
  <2>2. task[t] \in Task
      BY <1>6 DEF PatchSchedule, SchedTypeOK
  <2>3. rec.auto = a /\ rec.cron = c /\ task' = [task EXCEPT ![t] = rec]
      BY <2>1, <2>2 DEF Task
  <2> HIDE DEF rec
  <2>4. \A u \in Tasks \ {t} : task'[u] = task[u]
      BY <2>3 DEF SchedTypeOK
  <2>5. task'[t].auto /\ task'[t].cron = "valid" => next'[t] # "never"
      BY <2>1, <2>3 DEF SchedTypeOK
  <2> QED BY <1>4, <1>6, <2>1, <2>4, <2>5, KeptBy DEF PatchSchedule, Kept, HasFuture
<1>7. ASSUME NEW t \in Tasks, PatchNext(t) PROVE Kept'
  <2>1. task' = task /\ \A u \in Tasks \ {t} : next'[u] = next[u]
      BY <1>7 DEF PatchNext, SchedTypeOK
  <2> QED BY <1>4, <1>7, <2>1, KeptBy DEF PatchNext, Kept, HasFuture
<1>8. ASSUME NEW t \in Tasks, PatchStatus(t) PROVE Kept'
  <2>1. PICK s \in {"pending", "done", "cancelled"} :
            /\ task' = [task EXCEPT ![t].status = s]
            /\ next' = IF s = "done" THEN [next EXCEPT ![t] = "never"] ELSE next
            /\ Excuse(IF s = "done" THEN {t} ELSE {}, {})
      BY <1>8 DEF PatchStatus
  <2>2. /\ [task[t] EXCEPT !.status = s].auto = task[t].auto
        /\ [task[t] EXCEPT !.status = s].cron = task[t].cron
      BY <1>8 DEF PatchStatus, SchedTypeOK, Task
  <2>3. \A u \in Tasks : task'[u].auto = task[u].auto /\ task'[u].cron = task[u].cron
      BY <2>1, <2>2 DEF SchedTypeOK
  <2>4. \A u \in Tasks \ {t} : task'[u] = task[u]
      BY <2>1 DEF SchedTypeOK
  <2>5. task[t] # NoTask /\ procs' = procs /\ retries' = retries
      BY <1>4, <1>8 DEF PatchStatus
  <2>6. CASE s = "done"
    <3>1. Excuse({t}, {}) /\ \A u \in Tasks \ {t} : next'[u] = next[u]
        BY <2>1, <2>6 DEF SchedTypeOK
    <3> QED BY <3>1, <2>4, <2>5, KeptBy DEF Kept, HasFuture
  <2>7. CASE s # "done"
    <3>1. Excuse({}, {}) /\ next' = next
        BY <2>1, <2>7
    <3> QED BY <3>1, <2>3, <2>4, <2>5, KeptBy DEF Kept, HasFuture
  <2> QED BY <2>6, <2>7
<1>9. ASSUME NEW t \in Tasks, DeleteTask(t) PROVE Kept'
  <2>1. /\ task'[t] = NoTask
        /\ \A u \in Tasks \ {t} : task'[u] = task[u] /\ next'[u] = next[u]
      BY <1>9 DEF DeleteTask, SchedTypeOK
  <2> QED BY <1>4, <1>9, <2>1, KeptBy DEF DeleteTask, Kept, HasFuture
<1> QED BY <1>1, <1>2, <1>3, <1>5, <1>6, <1>7, <1>8, <1>9 DEF ApiNext

\* The end of a dispatch rolls a recurring task forward.
LEMMA KeptEnds ==
    ASSUME SchedTypeOK, SchedTypeOK', Kept, NEW p \in procs, Ends(p),
           retries' = retries
    PROVE  Kept'
<1>1. procs' = procs \ {p} /\ Excuse({}, {})
    BY DEF Ends
<1>2. CASE p.by # "scheduler"
  <2>1. Continues /\ task' = task /\ next' = next
      BY <1>1, <1>2 DEF Ends, Continues
  <2> QED BY <1>1, <2>1, KeptFrame
<1>3. CASE p.by = "scheduler"
  <2>1. p.task \in Tasks /\ task' = RolledTask(p.task) /\ next' = Rolled(p.task)
      BY <1>3 DEF Ends, Conclude, SchedTypeOK, Proc
  <2>2. \A u \in Tasks \ {p.task} : task'[u] = task[u] /\ next'[u] = next[u]
      BY <2>1 DEF RolledTask, Rolled, SchedTypeOK
  <2>3. /\ task'[p.task] # NoTask /\ task'[p.task].auto
        /\ task'[p.task].cron = "valid"
        => next'[p.task] # "never"
    <3>1. CASE task[p.task] # NoTask /\ task[p.task].cron = "invalid"
      <4>1. task'[p.task] = [task[p.task] EXCEPT !.auto = FALSE]
          BY <2>1, <3>1 DEF RolledTask, SchedTypeOK
      <4>2. ~task'[p.task].auto
          BY <2>1, <3>1, <4>1 DEF SchedTypeOK, Task
      <4> QED BY <4>2
    <3>2. CASE ~(task[p.task] # NoTask /\ task[p.task].cron = "invalid")
        BY <2>1, <3>2 DEF RolledTask, Rolled, SchedTypeOK
    <3> QED BY <3>1, <3>2
  <2>4. \A u \in Tasks \ {p.task} : HasFuture(u) => HasFuture(u)'
      BY <1>1, <2>2 DEF HasFuture
  <2> QED BY <1>1, <2>2, <2>3, <2>4, KeptBy DEF Kept
<1> QED BY <1>2, <1>3

LEMMA KeptProgress ==
    ASSUME Held, SchedTypeOK', Kept, NEW p \in procs, Progresses(p) \/ LaunchThrows(p)
    PROVE  Kept'
<1>1. SchedTypeOK /\ p \in Proc /\ p.task \in Tasks
    BY HeldRows DEF Held
<1>2. CASE Ends(p) /\ retries' = retries
    BY <1>1, <1>2, KeptEnds
<1>3. ASSUME OnlyProcs, NEW to, Moves(p, to), to.by = p.by, to.task = p.task
      PROVE  Kept'
  <2>1. Continues
      BY <1>3 DEF OnlyProcs, Moves, Continues
  <2> QED BY <1>3, <2>1, KeptFrame DEF OnlyProcs
<1>4. CASE BeginInteractive(p) \/ LaunchAborts(p) \/ LaunchDeclined(p) \/ LaunchThrows(p)
  <2>1. \A st : /\ [p EXCEPT !.stage = st].by = p.by
                /\ [p EXCEPT !.stage = st].task = p.task
                /\ [p EXCEPT !.stage = st, !.tab = NoRow].by = p.by
                /\ [p EXCEPT !.stage = st, !.tab = NoRow].task = p.task
      BY <1>1 DEF Proc
  <2> QED BY <1>3, <1>4, <2>1
          DEF BeginInteractive, LaunchAborts, LaunchDeclined, LaunchThrows
<1>5. CASE LaunchRow(p)
  <2>1. PICK r : Moves(p, [p EXCEPT !.stage = "spawn", !.tab = r])
      BY <1>5 DEF LaunchRow
  <2>2. /\ [p EXCEPT !.stage = "spawn", !.tab = r].by = p.by
        /\ [p EXCEPT !.stage = "spawn", !.tab = r].task = p.task
      BY <1>1 DEF Proc
  <2> QED BY <1>3, <1>5, <2>1, <2>2 DEF LaunchRow
<1>6. CASE ExecuteStarts(p)
  <2>1. PICK r : Moves(p, [p EXCEPT !.stage = "run", !.run = r])
      BY <1>6 DEF ExecuteStarts
  <2>2. /\ [p EXCEPT !.stage = "run", !.run = r].by = p.by
        /\ [p EXCEPT !.stage = "run", !.run = r].task = p.task
      BY <1>1 DEF Proc
  <2> QED BY <1>3, <1>6, <2>1, <2>2 DEF ExecuteStarts
<1>7. CASE RunSucceeds(p) /\ MarksDone(p)
  <2>1. /\ task' = [task EXCEPT ![p.task].status = "done"] /\ Excuse({}, {})
        /\ next' = [next EXCEPT ![p.task] = "never"]
        /\ procs' = procs \ {p} /\ retries' = retries
      BY <1>7 DEF RunSucceeds
  <2>2. task[p.task] # NoTask /\ task[p.task].cron = "none"
      BY <1>1, <1>7 DEF RunSucceeds, MarksDone, Held, OneOwner, Owners, HoldsRow
  <2>3. task'[p.task].cron = "none"
      BY <1>1, <2>1, <2>2 DEF SchedTypeOK, Task
  <2>4. \A u \in Tasks \ {p.task} : task'[u] = task[u] /\ next'[u] = next[u]
      BY <1>1, <2>1 DEF SchedTypeOK
  <2>5. \A u \in Tasks \ {p.task} : HasFuture(u) => HasFuture(u)'
      BY <2>1, <2>4 DEF HasFuture
  <2> QED BY <2>1, <2>3, <2>4, <2>5, KeptBy DEF Kept
<1>8. CASE RunRetries(p)
  <2> DEFINE to == [task |-> p.task, attempt |-> p.attempt + 1, run |-> p.run,
                    stopped |-> p.stopped]
  <2>1. retries' = retries \union {to} /\ procs' = procs \ {p}
      BY <1>8 DEF RunRetries
  <2>2. to.task = p.task
      OBVIOUS
  <2> HIDE DEF to
  <2>3. Continues
      BY <2>1, <2>2 DEF Continues
  <2> QED BY <1>8, <2>3, KeptFrame DEF RunRetries
<1> QED BY <1>2, <1>4, <1>5, <1>6, <1>7, <1>8
        DEF Progresses, Launched, ExecuteRefused, ExecuteStrands, RunSucceeds, RunFails

LEMMA KeptStep ==
    ASSUME Held, SchedTypeOK', Kept, SchedStep PROVE Kept'
<1>1. SchedTypeOK
    BY DEF Held
<1>2. ASSUME NEW t \in Tasks, Tick(t) PROVE Kept'
  <2>1. \A u \in Tasks : next'[u] = "never" => next[u] = "never"
      BY <1>1, <1>2 DEF Tick, SchedTypeOK
  <2>2. task' = task /\ procs' = procs /\ retries' = retries /\ Excuse({}, {})
      BY <1>2 DEF Tick, memVars
  <2> QED BY <2>1, <2>2, KeptBy DEF Kept, HasFuture
<1>3. ASSUME NEW k \in Remote, TickOverlay(k) PROVE Kept'
    BY <1>3, KeptFrame DEF TickOverlay, storeVars, memVars, Continues
<1>4. CASE Boot
    BY <1>4, KeptFrame DEF Boot, Continues
<1>5. CASE Crash
  <2> DEFINE L == {p.task : p \in {q \in procs : q.by = "scheduler"}}
                     \union {q.task : q \in retries}
  <2>1. Excuse({}, L) /\ task' = task /\ next' = next
      BY <1>5 DEF Crash, storeVars
  <2>2. \A t \in Tasks : HasFuture(t) => next[t] # "never" \/ t \in L
      BY DEF HasFuture
  <2> HIDE DEF L
  <2> QED BY <2>1, <2>2, KeptBy DEF Kept
<1>6. CASE OnTimer
  <2>1. PICK S \in Picks :
            /\ next' = [t \in Tasks |-> IF t \in S THEN "never" ELSE next[t]]
            /\ procs' = procs \union
                  {[task |-> t, by |-> "scheduler", attempt |-> 1, stage |-> "begin",
                    run |-> NoRow, tab |-> NoRow, stopped |-> FALSE] : t \in S}
      BY <1>6 DEF OnTimer
  <2>2. task' = task /\ retries' = retries /\ Excuse({}, {})
      BY <1>6 DEF OnTimer
  <2>3. ASSUME NEW t \in S PROVE \E p \in procs' : p.by = "scheduler" /\ p.task = t
    <3> DEFINE to == [task |-> t, by |-> "scheduler", attempt |-> 1, stage |-> "begin",
                      run |-> NoRow, tab |-> NoRow, stopped |-> FALSE]
    <3>1. to \in procs' /\ to.by = "scheduler" /\ to.task = t
        BY <2>1
    <3> HIDE DEF to
    <3> QED BY <3>1
  <2>4. \A t \in Tasks \ S : HasFuture(t) => HasFuture(t)'
      BY <2>1, <2>2 DEF HasFuture
  <2> QED BY <2>2, <2>3, <2>4, KeptBy DEF Kept, HasFuture
<1>7. ASSUME NEW q \in retries, RetryFires(q) PROVE Kept'
  <2>1. /\ task' = task /\ retries' = retries \ {q} /\ Excuse({}, {})
        /\ procs \subseteq procs' /\ q.task \in Tasks
        /\ \A u \in Tasks \ {q.task} : next'[u] = next[u]
      BY <1>1, <1>7, HeldRows DEF RetryFires, SchedTypeOK
  <2>2. \A u \in Tasks \ {q.task} : HasFuture(u) => HasFuture(u)'
      BY <2>1 DEF HasFuture
  <2>3. task[q.task] # NoTask =>
            \E p \in procs' : p.by = "scheduler" /\ p.task = q.task
    <3> DEFINE to == [task |-> q.task, by |-> "scheduler", attempt |-> q.attempt,
                      stage |-> "begin", run |-> q.run, tab |-> NoRow,
                      stopped |-> FALSE]
    <3>1. to.by = "scheduler" /\ to.task = q.task
        OBVIOUS
    <3>2. task[q.task] # NoTask => to \in procs'
        BY <1>7 DEF RetryFires
    <3> HIDE DEF to
    <3> QED BY <3>1, <3>2
  <2>4. task'[q.task] # NoTask => HasFuture(q.task)'
      BY <2>1, <2>3 DEF HasFuture
  <2> QED BY <2>1, <2>2, <2>4, KeptBy DEF Kept
<1>8. ASSUME NEW s \in sessions, SessionExits(s) PROVE Kept'
    BY <1>8, KeptFrame DEF SessionExits, OnlyProcs, Continues
<1>9. ASSUME NEW o \in oprocs, OverlayStep(o) PROVE Kept'
    BY <1>9, KeptFrame DEF OverlayStep, OverlayStale, OverlaySkips, OverlayRuns,
           OverlayRan, OverlayEnds, storeVars, Continues
<1> QED BY <1>1, <1>2, <1>3, <1>4, <1>5, <1>6, <1>7, <1>8, <1>9, KeptApi,
           KeptProgress DEF SchedStep

\* A recurring task keeps a fire time or a dispatch that will set one
\* (electron/scheduler.ts, the roll-forward in dispatch's finally), unless a
\* client took it away or the process died in the middle.
THEOREM RecurringIsKept == SchedSpec => []RecurringKept
<1>1. SchedInit => Kept
  <2>1. ASSUME SchedInit, NEW t \in Tasks, task[t] # NoTask, task[t].auto,
               task[t].cron = "valid"
        PROVE  next[t] # "never"
    <3>1. PICK f \in [Tasks -> (Task \union {NoTask}) \X Fire] :
              /\ \A u \in Tasks : f[u] \in Saved(u) \union {<<NoTask, "never">>}
              /\ task = [u \in Tasks |-> f[u][1]] /\ next = [u \in Tasks |-> f[u][2]]
        BY <2>1 DEF SchedInit
    <3>2. f[t] \in Saved(t) /\ task[t] = f[t][1] /\ next[t] = f[t][2]
        BY <2>1, <3>1
    <3> QED BY <2>1, <3>2 DEF Saved, Pending
  <2> QED BY <2>1 DEF Kept, HasFuture
<1>2. Held /\ Held' /\ Kept /\ [SchedNext]_vars => Kept'
  <2>1. Held /\ Held' /\ Kept /\ SchedNext => Kept'
      BY KeptStep DEF SchedNext, Held
  <2>2. Kept /\ UNCHANGED vars => Kept'
      BY DEF vars, storeVars, memVars, Kept, HasFuture
  <2> QED BY <2>1, <2>2
<1>3. SchedSpec => []Held
  <2>1. SchedInv => Held
      BY DEF SchedInv
  <2> QED BY <2>1, SchedInvariant, PTL
<1>4. Kept => RecurringKept
    BY DEF Kept, RecurringKept, Recurring, Active
<1> QED BY <1>1, <1>2, <1>3, <1>4, PTL DEF SchedSpec

=============================================================================
