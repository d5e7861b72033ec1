------------------------------ MODULE Sessions -----------------------------
(***************************************************************************)
(* Interactive agent sessions of TypeBuild tasks: the Start and the expiry *)
(* relaunch (electron/sources/typebuild.ts), the launcher and its liveness *)
(* gate (electron/agents/interactive.ts, electron/ipc.ts), the one         *)
(* operator window (electron/browser/window.ts), the registry of sessions  *)
(* (electron/typebuild/sessions.ts) and the keep-alive that renews the     *)
(* claim of a task while its session lives.                                *)
(*                                                                         *)
(* Every sign-in makes a new source (electron/main.ts) with its own cache, *)
(* marks and timers; a session stays with the source that launched it, and *)
(* its exit is handled there, dropped or not.                              *)
(*                                                                         *)
(* A launch is known by its number, which is also the id of its pty.  Time *)
(* passes in units of 30 minutes: a claim lapses Ttl units after it was    *)
(* taken or renewed, the timer fires every KeepAlive units.                *)
(***************************************************************************)
EXTENDS Naturals

CONSTANTS
    Tasks,        \* task ids
    Ttl,          \* how long the server keeps a claim
    KeepAlive,    \* KEEPALIVE_MS
    MaxLaunches,  \* bound: Starts and relaunches together
    MaxSources,   \* bound: sign-ins, each of which makes a source
    SignIns,      \* bound: the launches before which the user may sign in anew
    Crowded       \* bound: whether a launch may reach the operator window
                  \* while another one's takeover dialog is open

ASSUME SessionsAssumption ==
    /\ Ttl \in Nat /\ KeepAlive \in Nat
    /\ 0 < KeepAlive /\ KeepAlive < Ttl
    /\ MaxLaunches \in Nat /\ MaxSources \in Nat \ {0} /\ Crowded \in BOOLEAN
    /\ SignIns \subseteq 1..MaxLaunches

Launches == 1..MaxLaunches
Sources == 1..MaxSources

\* What a source keeps of a task.
Rows == Sources \X Tasks

Holders == {"nobody", "me", "other"}

VARIABLES
    holder,      \* who holds the claim of a task, at the server
    age,         \* how long ago my claim was taken or renewed
    current,     \* the source that is registered
    believed,    \* claimedBy of the task's row in the cache of a source
    step,        \* how far a launch has come
    source,      \* the source that launched it
    task,        \* the task of a launch
    old,         \* the session a relaunch replaces, 0 for a Start
    proc,        \* the process of a launch; "runs" is being in `ptys`
    asked,       \* the session the takeover dialog of a launch is about
    hosted,      \* operatorPtyId, 0 for null
    registered,  \* keys of the session registry
    armed,       \* rows with a timer: keys of keepAliveTimers
    timer,       \* since the timer of a row was armed or fired
    renewing,    \* rows whose renewal is on its way
    relaunching, \* rows that are marked: this.relaunching
    exits,       \* onSessionExit() calls that await their refresh
    prompts,     \* release prompts the last step broadcast
    late         \* history: armed rows whose renewals do not cover the claim

serverVars == <<holder, age>>
launchVars == <<step, source, task, old, proc, asked, hosted>>
aliveVars == <<armed, timer, renewing, late>>
exitVars == <<relaunching, exits>>
vars == <<serverVars, current, believed, launchVars, registered, aliveVars,
          exitVars, prompts>>

Steps == {"free", "claim", "mint", "ask", "gate", "dead", "up", "over"}

SessTypeOK ==
    /\ holder \in [Tasks -> Holders] /\ age \in [Tasks -> 0..Ttl]
    /\ current \in Sources /\ believed \in [Rows -> Holders]
    /\ step \in [Launches -> Steps] /\ source \in [Launches -> Sources]
    /\ task \in [Launches -> Tasks] /\ old \in [Launches -> 0..MaxLaunches]
    /\ proc \in [Launches -> {"none", "runs", "dying", "gone"}]
    /\ asked \in [Launches -> 0..MaxLaunches] /\ hosted \in 0..MaxLaunches
    /\ registered \subseteq Launches
    /\ armed \subseteq Rows /\ timer \in [Rows -> 0..KeepAlive]
    /\ renewing \subseteq Rows /\ relaunching \subseteq Rows
    /\ exits \subseteq Launches /\ prompts \subseteq Tasks
    /\ late \subseteq Rows

Init ==
    /\ holder = [t \in Tasks |-> "nobody"] /\ age = [t \in Tasks |-> 0]
    /\ current = 1 /\ believed = [r \in Rows |-> "nobody"]
    /\ step = [l \in Launches |-> "free"] /\ source = [l \in Launches |-> 1]
    /\ task \in [Launches -> Tasks] /\ old = [l \in Launches |-> 0]
    /\ proc = [l \in Launches |-> "none"]
    /\ asked = [l \in Launches |-> 0] /\ hosted = 0
    /\ registered = {} /\ armed = {} /\ timer = [r \in Rows |-> 0]
    /\ renewing = {} /\ relaunching = {} /\ exits = {} /\ prompts = {}
    /\ late = {}

Quiet == prompts' = {}

Here(t) == <<current, t>>       \* the row of the registered source
At(l) == <<source[l], task[l]>> \* the row a launch works on

-----------------------------------------------------------------------------
(* The claim at the server, which others and the agent work on too.        *)

Take(t) ==
    /\ holder' = [holder EXCEPT ![t] = "me"]
    /\ age' = [age EXCEPT ![t] = 0]

Lose(t, h) ==
    /\ holder' = [holder EXCEPT ![t] = h]
    /\ age' = [age EXCEPT ![t] = 0]

\* A teammate claims it, or gives it back; the agent submits or releases it.
Elsewhere(t) ==
    /\ \/ holder[t] = "nobody" /\ Lose(t, "other")
       \/ holder[t] # "nobody" /\ Lose(t, "nobody")
    /\ Quiet
    /\ UNCHANGED <<current, believed, launchVars, registered, aliveVars,
                   exitVars>>

\* A poll brings the row up to date.
Polled(t) ==
    /\ believed[Here(t)] # holder[t]
    /\ believed' = [believed EXCEPT ![Here(t)] = holder[t]]
    /\ Quiet
    /\ UNCHANGED <<serverVars, current, launchVars, registered, aliveVars, exitVars>>

\* The user claims the task without starting it: claim() and its cache patch.
ClaimOnly(t) ==
    /\ holder[t] = "nobody" /\ Take(t)
    /\ believed' = [believed EXCEPT ![Here(t)] = "me"]
    /\ Quiet
    /\ UNCHANGED <<current, launchVars, registered, aliveVars, exitVars>>

\* release(), from the prompt or from the task's menu.
Release(t) ==
    /\ holder[t] = "me" /\ Lose(t, "nobody")
    /\ believed' = [believed EXCEPT ![Here(t)] = "nobody"]
    /\ Quiet
    /\ UNCHANGED <<current, launchVars, registered, aliveVars, exitVars>>

-----------------------------------------------------------------------------
(* Launching.                                                              *)

To(l, s) == step' = [step EXCEPT ![l] = s]

\* launchSession() throws; a relaunch lets later exits prompt again.
Fails(l) ==
    /\ To(l, "over")
    /\ relaunching' = IF old[l] # 0 THEN relaunching \ {At(l)} ELSE relaunching

IsNext(l) == step[l] = "free" /\ \A k \in Launches : k < l => step[k] # "free"

\* runNow(): rejected inline when the row shows another holder; no second
\* claim when it shows mine.
Start(l) ==
    /\ IsNext(l)
    /\ believed[Here(task[l])] # "other"
    /\ To(l, IF believed[Here(task[l])] = "me" THEN "mint" ELSE "claim")
    /\ source' = [source EXCEPT ![l] = current]
    /\ Quiet
    /\ UNCHANGED <<serverVars, current, believed, task, old, proc, asked, hosted,
                   registered, aliveVars, exitVars>>

\* The claim of a Start, and its cache patch, which finds no row in the cache
\* of a dropped source.
Claimed(l) ==
    /\ step[l] = "claim"
    /\ holder[task[l]] # "other" /\ Take(task[l])
    /\ \/ believed' = [believed EXCEPT ![At(l)] = "me"]
       \/ source[l] # current /\ UNCHANGED believed
    /\ To(l, "mint")
    /\ Quiet
    /\ UNCHANGED <<current, source, task, old, proc, asked, hosted, registered,
                   aliveVars, exitVars>>

\* A conflict that names another holder stops the Start, and so does an error;
\* any other refusal (the task's state, "not visible") does not: the session
\* starts unclaimed.
ClaimRejected(l) ==
    /\ step[l] = "claim"
    /\ To(l, "mint") \/ To(l, "over")
    /\ Quiet
    /\ UNCHANGED <<serverVars, current, believed, source, task, old, proc, asked,
                   hosted, registered, aliveVars, exitVars>>

\* relaunchSession(): one click on the expiry banner of a session, which is
\* there until its exit is announced, in the operator window: a takeover
\* dialog covers it.  The registered source does it, whichever launched m.
Relaunch(l, m) ==
    /\ IsNext(l)
    /\ m \in registered \union exits /\ step[m] = "up" /\ task[l] = task[m]
    /\ \A k \in Launches : old[k] # m /\ step[k] # "ask"
    /\ source' = [source EXCEPT ![l] = current]
    /\ relaunching' = relaunching \union {Here(task[m])}
    /\ proc' = [proc EXCEPT ![m] = IF @ = "runs" THEN "dying" ELSE @]
    /\ old' = [old EXCEPT ![l] = m]
    /\ To(l, "mint")
    /\ Quiet
    /\ UNCHANGED <<serverVars, current, believed, task, asked, hosted,
                   registered, aliveVars, exits>>

\* The mint is refused, unreachable twice, or no window can host the session.
MintFails(l) ==
    /\ step[l] = "mint"
    /\ Fails(l)
    /\ Quiet
    /\ UNCHANGED <<serverVars, current, believed, source, task, old, proc, asked,
                   hosted, registered, aliveVars, exits>>

Running(p) == p \in Launches /\ proc[p] = "runs"

\* Mutated form: the window is repointed whatever it shows.
ConflictUnasked(l) == FALSE

\* openBrowserWindow() asks before it takes the window from a live session.
Conflict(l) == hosted # 0 /\ Running(hosted)

\* spawnManagedPty(), then the operator window.
Spawn(l) ==
    /\ step[l] = "mint"
    /\ Crowded \/ \A k \in Launches : step[k] # "ask"
    /\ proc' = [proc EXCEPT ![l] = "runs"]
    /\ \/ /\ Conflict(l)
          /\ asked' = [asked EXCEPT ![l] = hosted]
          /\ To(l, "ask")
          /\ UNCHANGED hosted
       \/ /\ ~Conflict(l)
          /\ hosted' = l
          /\ To(l, "gate")
          /\ UNCHANGED asked
    /\ Quiet
    /\ UNCHANGED <<serverVars, current, believed, source, task, old, registered,
                   aliveVars, exitVars>>

\* "Take Over": the session the dialog was about is killed and the window
\* repointed.  awaitPtyLiveness() then finds the new one there, or not.
TakeOver(l) ==
    /\ step[l] = "ask"
    /\ proc' = [proc EXCEPT ![asked[l]] = IF @ = "runs" THEN "dying" ELSE @]
    /\ hosted' = l
    /\ asked' = [asked EXCEPT ![l] = 0]
    /\ To(l, IF proc[l] = "runs" THEN "gate" ELSE "dead")
    /\ Quiet
    /\ UNCHANGED <<serverVars, current, believed, source, task, old, registered,
                   aliveVars, exitVars>>

\* "Cancel": the new session is killed and the run reported not launched.
Decline(l) ==
    /\ step[l] = "ask"
    /\ proc' = [proc EXCEPT ![l] = IF @ = "runs" THEN "dying" ELSE @]
    /\ asked' = [asked EXCEPT ![l] = 0]
    /\ Fails(l)
    /\ Quiet
    /\ UNCHANGED <<serverVars, current, believed, source, task, old, hosted,
                   registered, aliveVars, exits>>

\* Mutated form: a second call starts the interval anew.
RestartKeepAlive(r) ==
    /\ armed' = armed \union {r}
    /\ timer' = [timer EXCEPT ![r] = 0]
    /\ late' = IF age[r[2]] = 0 \/ r \in armed THEN late \ {r} ELSE late \union {r}

\* startKeepAlive(): a second call for a task changes nothing.
StartKeepAlive(r) ==
    /\ armed' = armed \union {r}
    /\ timer' = [timer EXCEPT ![r] = IF r \in armed THEN @ ELSE 0]
    /\ late' = IF r \notin armed
               THEN IF age[r[2]] = 0 THEN late \ {r} ELSE late \union {r}
               ELSE late

\* First output, or five seconds alive: the session is registered.  Nothing
\* can exit between the verdict and the registration.
GatePasses(l) ==
    /\ step[l] = "gate" /\ proc[l] \in {"runs", "dying"}
    /\ To(l, "up")
    /\ registered' = registered \union {l}
    /\ StartKeepAlive(At(l))
    /\ Quiet
    /\ UNCHANGED <<serverVars, current, believed, source, task, old, proc, asked,
                   hosted, renewing, exitVars>>

\* The launcher has recorded why the session died, and throws.
LaunchFails(l) ==
    /\ step[l] = "dead"
    /\ Fails(l)
    /\ Quiet
    /\ UNCHANGED <<serverVars, current, believed, source, task, old, proc, asked,
                   hosted, registered, aliveVars, exits>>

-----------------------------------------------------------------------------
(* Ending.                                                                 *)

\* Mutated form: the exit hook reads the pty id before it is assigned.
ClearNothing(l) == registered

\* clearSession(ptyId), with ptyId 0 until the launcher returned.
ClearSession(l) == IF step[l] = "up" THEN registered \ {l} ELSE registered

\* The process is gone: the liveness gate and the registry hear of it, and
\* onSessionExit() starts its refresh.
Exits(l) ==
    /\ proc[l] \in {"runs", "dying"}
    /\ proc' = [proc EXCEPT ![l] = "gone"]
    /\ step' = IF step[l] = "gate" THEN [step EXCEPT ![l] = "dead"] ELSE step
    /\ registered' = ClearSession(l)
    /\ exits' = exits \union {l}
    /\ Quiet
    /\ UNCHANGED <<serverVars, current, believed, source, task, old, asked,
                   hosted, aliveVars, relaunching>>

\* Closing the operator window ends the session it owns.
CloseWindow ==
    /\ hosted # 0
    /\ \A l \in Launches : step[l] # "ask"
    /\ proc' = [proc EXCEPT ![hosted] = IF @ = "runs" THEN "dying" ELSE @]
    /\ hosted' = 0
    /\ Quiet
    /\ UNCHANGED <<serverVars, current, believed, step, source, task, old,
                   asked, registered, aliveVars, exitVars>>

\* Mutated form: the timers of all sources are in one table, keyed by task.
DisarmedAnywhere(r) == {q \in armed : q[2] # r[2]}

\* A genuine end disarms the renewals of the source that launched the session.
Disarmed(r) == armed \ {r}

\* Mutated form: an exit during a relaunch ends the session for good.
SwallowedNever(r) == FALSE

\* The exit of a session that is being replaced is not one.
Swallowed(r) == r \in relaunching

\* listTasks() has set the rows of a source, or failed.
Refreshed(s) ==
    believed' \in {believed, [r \in Rows |-> IF r[1] = s THEN holder[r[2]]
                                                       ELSE believed[r]]}

\* onSessionExit() after its refresh, at the source that launched it.
HandleExit(l) ==
    /\ l \in exits
    /\ exits' = exits \ {l}
    /\ Refreshed(source[l])
    /\ \/ /\ Swallowed(At(l))
          /\ Quiet
          /\ UNCHANGED armed
       \/ /\ ~Swallowed(At(l))
          /\ armed' = Disarmed(At(l))
          /\ prompts' = {t \in {task[l]} : believed'[At(l)] = "me"}
    /\ relaunching' = relaunching \ {At(l)}
    /\ timer' = [r \in Rows |-> IF r \in armed' THEN timer[r] ELSE 0]
    /\ late' = late \intersect armed'
    /\ UNCHANGED <<serverVars, current, launchVars, registered, renewing>>

\* Signing out and in again: stopPolling() of the source, which keeps its marks
\* and the exits it has to handle, and a new source.
SourceStops ==
    /\ current < MaxSources /\ current' = current + 1
    /\ \E l \in SignIns : IsNext(l)
    /\ armed' = {r \in armed : r[1] # current}
    /\ timer' = [r \in Rows |-> IF r[1] = current THEN 0 ELSE timer[r]]
    /\ believed' = [r \in Rows |-> IF r[1] = current THEN "nobody"
                                                    ELSE believed[r]]
    /\ late' = late \intersect armed'
    /\ Quiet
    /\ UNCHANGED <<serverVars, launchVars, registered, renewing, exitVars>>

-----------------------------------------------------------------------------
(* The keep-alive.                                                         *)

StopKeepAlive(r) ==
    /\ armed' = armed \ {r}
    /\ timer' = [timer EXCEPT ![r] = 0]
    /\ late' = late \ {r}

\* renewClaim(): a row that is not mine any more ends the renewals.
RenewDue(r) ==
    /\ r \in armed /\ timer[r] = KeepAlive
    /\ \/ /\ believed[r] # "me"
          /\ StopKeepAlive(r)
          /\ UNCHANGED renewing
       \/ /\ believed[r] = "me"
          /\ timer' = [timer EXCEPT ![r] = 0]
          /\ renewing' = renewing \union {r}
          /\ UNCHANGED <<armed, late>>
    /\ Quiet
    /\ UNCHANGED <<serverVars, current, believed, launchVars, registered,
                   exitVars>>

Renewed(r) ==
    /\ r \in renewing /\ renewing' = renewing \ {r}
    /\ holder[r[2]] # "other" /\ Take(r[2])
    /\ late' = late \ {r}
    /\ Quiet
    /\ UNCHANGED <<current, believed, launchVars, registered, armed, timer,
                   exitVars>>

\* 409 or 404: stop, and show what the server says.
RenewRefused(r) ==
    /\ r \in renewing /\ renewing' = renewing \ {r}
    /\ holder[r[2]] # "me"
    /\ StopKeepAlive(r)
    /\ Refreshed(r[1])
    /\ Quiet
    /\ UNCHANGED <<serverVars, current, launchVars, registered, exitVars>>

\* A network blip: the next tick of the timer tries again.
RenewLost(r) ==
    /\ r \in renewing /\ renewing' = renewing \ {r}
    /\ late' = late \union ({r} \intersect armed)
    /\ Quiet
    /\ UNCHANGED <<serverVars, current, believed, launchVars, registered, armed,
                   timer, exitVars>>

\* Mutated form: the interval is never due.
SettledUntimed == renewing = {} /\ exits = {}

\* Half an hour.  Requests, mints and liveness gates take seconds; a dialog
\* may stay open.
Settled ==
    /\ renewing = {} /\ exits = {}
    /\ \A r \in armed : timer[r] < KeepAlive
    /\ \A l \in Launches : /\ step[l] \in {"free", "ask", "up", "over"}
                           /\ proc[l] # "dying"

Lapsing == {t \in Tasks : holder[t] = "me" /\ age[t] + 1 = Ttl}

Tick ==
    /\ Settled
    /\ holder' = [t \in Tasks |-> IF t \in Lapsing THEN "nobody" ELSE holder[t]]
    /\ age' = [t \in Tasks |-> IF holder'[t] = "me" THEN age[t] + 1 ELSE 0]
    /\ timer' = [r \in Rows |-> IF r \in armed THEN timer[r] + 1 ELSE 0]
    /\ Quiet
    /\ UNCHANGED <<current, believed, launchVars, registered, armed, renewing,
                   late, exitVars>>

-----------------------------------------------------------------------------
Launching(l) ==
    \/ Start(l) \/ Claimed(l) \/ ClaimRejected(l)
    \/ \E m \in Launches : Relaunch(l, m)
    \/ MintFails(l) \/ Spawn(l) \/ TakeOver(l) \/ Decline(l)
    \/ GatePasses(l) \/ LaunchFails(l)

Renewing(r) == RenewDue(r) \/ Renewed(r) \/ RenewRefused(r) \/ RenewLost(r)

Next ==
    \/ \E t \in Tasks : Elsewhere(t) \/ Polled(t) \/ ClaimOnly(t) \/ Release(t)
    \/ \E l \in Launches : Launching(l) \/ Exits(l) \/ HandleExit(l)
    \/ CloseWindow \/ SourceStops
    \/ \E r \in Rows : Renewing(r)
    \/ Tick

Spec == Init /\ [][Next]_vars

-----------------------------------------------------------------------------
(* Properties.                                                             *)

Live(l) == step[l] = "up" /\ proc[l] = "runs"

\* sessions.ts: the registry "always reflects live, authenticated" sessions.
\* Whatever exits early, late, killed or declined: its keys are the sessions
\* past their gate whose exit has not happened.
RegistryTrue ==
    registered = {l \in Launches : step[l] = "up" /\ proc[l] # "gone"}

\* window.ts: a session is never left "running with no pane mirroring it and
\* no close handler owning it".
NotStranded ==
    \A l \in Launches : proc[l] = "runs" => hosted = l \/ step[l] = "ask"

\* l is the relaunch of m by the source that launched m, under way or alive,
\* and the only other session its task ever had.  A shell may end while its
\* takeover dialog is open.
Continues(l, m) ==
    /\ old[l] = m /\ source[l] = source[m]
    /\ (proc[l] # "gone" /\ step[l] \in {"mint", "ask", "gate"}) \/ Live(l)
    /\ \A k \in Launches \ {l, m} : task[k] = task[m] => proc[k] = "none"

\* While a session lives and its task is mine, only the end of another
\* session of that task and that source stops its renewals - and not the end
\* of the one it replaces - or the end of the source.
KeepAliveKept ==
    [][\A l \in Launches :
          Live(l) /\ At(l) \in armed \ armed'
             => \/ holder[task[l]] # "me" \/ believed[At(l)] # "me"
                \/ SourceStops /\ source[l] = current
                \/ \E m \in exits \ exits' :
                      m # l /\ At(m) = At(l) /\ ~Continues(l, m)]_vars

\* KEEPALIVE_MS: the renewals "keep a 2h claim comfortably alive": a claim
\* whose timer was armed with it, and whose renewals were answered, is
\* renewed before it lapses.
RenewedInTime ==
    \A r \in armed \ (late \union renewing) :
        holder[r[2]] = "me" => age[r[2]] <= timer[r]

\* The release prompt is for sessions that ended: while a relaunch is under
\* way or its session lives, the exit of the session it replaces prompts
\* nobody, though the user signs out and in before it comes - unless the
\* relaunch was another source's than the session, which marks its own set, or
\* a third session of the task ran, whose exit may have taken the mark.
RelaunchIsSilent ==
    [][\A l \in Launches, m \in exits \ exits' :
          Continues(l, m) => prompts' = {}]_vars

=============================================================================
