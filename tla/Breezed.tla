------------------------------ MODULE Breezed ------------------------------
(***************************************************************************)
(* The headless daemon (daemon/breezed.ts): the loop that claims a task at *)
(* the TypeBuild server and runs an agent on it, the heartbeat that renews *)
(* the claim meanwhile (electron/core/task-source.ts), the sessions it     *)
(* resumes when their question is answered (electron/agents/               *)
(* resume-on-answer.ts), the Stop-hook backstop                            *)
(* (electron/claude-stop-backstop.ts), and the change feed that tells an   *)
(* attached laptop of every change the daemon makes.                       *)
(*                                                                         *)
(* Time passes in units of 30 minutes, as in Sessions.                     *)
(***************************************************************************)
EXTENDS ChangeFeed, FiniteSets

CONSTANTS
    Tasks,          \* task ids
    Browser,        \* those with a flag of BROWSER_FLAGS
    MaxConcurrent,  \* MAX_CONCURRENT
    Ttl,            \* how long the server keeps a claim
    Heartbeat,      \* CLAIM_HEARTBEAT_MS
    Attached        \* bound: whether a laptop ever attaches

ASSUME BreezedAssumption ==
    /\ IsFiniteSet(Tasks) /\ Browser \subseteq Tasks
    /\ MaxConcurrent \in Nat \ {0}
    /\ Ttl \in Nat /\ Heartbeat \in Nat
    /\ 0 < Heartbeat /\ Heartbeat < Ttl
    /\ Attached \in BOOLEAN

\* One more than the daemon may use.
Slots == 1..(MaxConcurrent + 1)

VARIABLES
    state,     \* of a task: "open", "mine" (the daemon's), "theirs", "done"
    age,       \* how long ago the daemon's claim was taken or renewed
    question,  \* pending_question: "none", "asked", "flagged"
    phase,     \* the loop: "off", "sweep", "claim", "browser"
    todo,      \* what is left of the snapshot a sweep goes through
    reply,     \* the answer of its getTask(): the task, and whether to let go of it
    got,       \* the browser tasks claimed, to be released
    at,        \* runClaimed() of a slot: "free", "agent", "ended", "report",
               \* "finish"
    job,       \* its task
    ok,        \* its result.ok
    armed,     \* slots whose heartbeat is armed
    timer,     \* since it was armed or fired
    beats,     \* tasks whose renewal is on its way
    late,      \* history: tasks whose last renewal was lost
    tracked,   \* ResumeOnAnswer.tracked
    stop       \* the Stop hook of a task: "none", "read", "ask"

serverVars == <<state, age, question>>
loopVars == <<phase, todo, reply, got>>
runVars == <<at, job, ok>>
beatVars == <<armed, timer, beats, late>>
wakeVars == <<tracked, stop>>
vars == <<serverVars, loopVars, runVars, beatVars, wakeVars, feedVars>>

BreezedTypeOK ==
    /\ state \in [Tasks -> {"open", "mine", "theirs", "done"}]
    /\ age \in [Tasks -> 0..Ttl]
    /\ question \in [Tasks -> {"none", "asked", "flagged"}]
    /\ phase \in {"off", "sweep", "claim", "browser"}
    /\ todo \subseteq Tasks /\ reply \subseteq Tasks \X BOOLEAN /\ got \subseteq Browser
    /\ at \in [Slots -> {"free", "agent", "ended", "report", "finish"}]
    /\ job \in [Slots -> Tasks] /\ ok \in [Slots -> BOOLEAN]
    /\ armed \subseteq Slots /\ timer \in [Slots -> 0..Heartbeat]
    /\ beats \subseteq Tasks /\ late \subseteq Tasks
    /\ tracked \subseteq Tasks /\ stop \in [Tasks -> {"none", "read", "ask"}]
    /\ FeedTypeOK

Init ==
    /\ state = [t \in Tasks |-> "open"] /\ age = [t \in Tasks |-> 0]
    /\ question = [t \in Tasks |-> "none"]
    /\ phase \in {"off", "sweep"} /\ todo = {} /\ reply = {} /\ got = {}
    /\ at = [s \in Slots |-> "free"] /\ ok = [s \in Slots |-> FALSE]
    /\ job = [s \in Slots |-> CHOOSE t \in Tasks : TRUE]
    /\ armed = {} /\ timer = [s \in Slots |-> 0]
    /\ beats = {} /\ late = {} /\ tracked = {}
    /\ stop = [t \in Tasks |-> "none"]
    /\ FeedInit

Busy == {s \in Slots : at[s] # "free"}
Waiting(t) == question[t] # "none"

-----------------------------------------------------------------------------
(* The task at the server, where others, the user and the agent work too.  *)

To(t, s) ==
    /\ state' = [state EXCEPT ![t] = s]
    /\ age' = [age EXCEPT ![t] = 0]

Elsewhere(t) ==
    /\ \/ state[t] = "open" /\ To(t, "theirs")
       \/ state[t] = "theirs" /\ (To(t, "open") \/ To(t, "done"))
    /\ UNCHANGED <<question, loopVars, runVars, beatVars, wakeVars, feedVars>>

\* The user answers; the agent of a run, or of a session that was resumed,
\* asks.
Answer(t) ==
    /\ Waiting(t)
    /\ question' = [question EXCEPT ![t] = "none"]
    /\ UNCHANGED <<state, age, loopVars, runVars, beatVars, wakeVars, feedVars>>

AgentAsks(s) ==
    /\ at[s] = "agent" /\ state[job[s]] # "done" /\ ~Waiting(job[s])
    /\ question' = [question EXCEPT ![job[s]] = "asked"]
    /\ UNCHANGED <<state, age, loopVars, runVars, beatVars, wakeVars, feedVars>>

\* The agent submits the task, or gives it back.
AgentSubmits(s) ==
    /\ at[s] = "agent" /\ state[job[s]] = "mine"
    /\ To(job[s], "done") \/ To(job[s], "open")
    /\ UNCHANGED <<question, loopVars, runVars, beatVars, wakeVars, feedVars>>

-----------------------------------------------------------------------------
(* The loop.                                                               *)

Goto(p) == phase' = p

\* Mutated form: nothing is swept while every slot is taken.
SweepIfFree ==
    Cardinality(Busy) < MaxConcurrent \/ tracked = {}

\* The sweep comes before the check of the slots.
SweepFirst == TRUE

SweepStarts ==
    /\ phase = "sweep" /\ todo = {} /\ SweepFirst
    /\ todo' = tracked /\ Goto("claim")
    /\ UNCHANGED <<serverVars, reply, got, runVars, beatVars, wakeVars, feedVars>>

\* getTask(), with what decideResumeOnAnswer() will make of it: a task that still
\* waits is kept, one that is gone or done is dropped, the session of any other
\* is resumed.
SweepRead(t) ==
    /\ phase = "claim" /\ t \in todo /\ reply = {}
    /\ reply' = {<<t, state[t] = "done" \/ ~Waiting(t)>>}
    /\ UNCHANGED <<serverVars, phase, todo, got, runVars, beatVars, wakeVars, feedVars>>

\* When the answer is there: once, also when a run of the task has parked
\* anew meanwhile.
SweepTakes ==
    \E t \in todo, lets \in BOOLEAN :
       /\ reply = {<<t, lets>>} /\ reply' = {}
       /\ todo' = todo \ {t}
       /\ tracked' = IF lets THEN tracked \ {t} ELSE tracked
       /\ UNCHANGED <<serverVars, phase, got, runVars, beatVars, stop, feedVars>>

SweepFails(t) ==
    /\ phase = "claim" /\ t \in todo /\ reply = {}
    /\ todo' = todo \ {t}
    /\ UNCHANGED <<serverVars, phase, reply, got, runVars, beatVars, wakeVars, feedVars>>

HasRoom == Cardinality(Busy) < MaxConcurrent

\* At the cap, nothing to claim, or claim-next failed: wait, and sweep again.
LoopIdles ==
    /\ phase = "claim" /\ todo = {}
    /\ Goto("sweep")
    /\ UNCHANGED <<serverVars, todo, reply, got, runVars, beatVars, wakeVars, feedVars>>

\* claimNext() of a task an agent can run: runClaimed() starts in a slot.
ClaimNext(t, s) ==
    /\ phase = "claim" /\ todo = {} /\ HasRoom
    /\ state[t] = "open" /\ t \notin Browser
    /\ at[s] = "free" /\ \A r \in Slots : at[r] = "free" => s <= r
    /\ To(t, "mine")
    /\ at' = [at EXCEPT ![s] = "agent"] /\ job' = [job EXCEPT ![s] = t]
    /\ armed' = armed \union {s} /\ timer' = [timer EXCEPT ![s] = 0]
    /\ late' = late \ {t}
    /\ Goto("sweep")
    /\ UNCHANGED <<question, todo, reply, got, ok, beats, wakeVars, feedVars>>

ClaimBrowser(t) ==
    /\ phase = "claim" /\ todo = {} /\ HasRoom
    /\ state[t] = "open" /\ t \in Browser
    /\ To(t, "mine")
    /\ got' = {t} /\ Goto("browser")
    /\ UNCHANGED <<question, todo, reply, runVars, beatVars, wakeVars, feedVars>>

\* The server claimed a task for the daemon and the reply was lost.
ClaimLost(t) ==
    /\ phase = "claim" /\ todo = {} /\ HasRoom /\ state[t] = "open"
    /\ To(t, "mine") /\ Goto("sweep")
    /\ UNCHANGED <<question, todo, reply, got, runVars, beatVars, wakeVars, feedVars>>

ReleaseBrowser ==
    /\ phase = "browser"
    /\ got' = {} /\ Goto("sweep")
    /\ \/ /\ \E t \in got : state[t] = "mine" /\ To(t, "open")
          /\ UNCHANGED question /\ Bump
       \/ UNCHANGED <<serverVars, feedVars>>
    /\ UNCHANGED <<todo, reply, runVars, beatVars, wakeVars>>

-----------------------------------------------------------------------------
(* A run.                                                                  *)

\* The agent's process ends, after its Stop hook told the daemon of it
\* (/claude-stopped), unless it was killed.  One hook of a task is followed
\* at a time.
AgentEnds(s) ==
    /\ at[s] = "agent"
    /\ at' = [at EXCEPT ![s] = "ended"]
    /\ \E good \in BOOLEAN : ok' = [ok EXCEPT ![s] = good]
    /\ \/ stop' = [stop EXCEPT ![job[s]] = "read"]
       \/ (~ok'[s] \/ stop[job[s]] = "ask") /\ UNCHANGED stop
    /\ UNCHANGED <<serverVars, loopVars, job, beatVars, tracked, feedVars>>

\* executeTaskRun() threw: nothing ran.
AgentThrows(s) ==
    /\ at[s] = "agent"
    /\ at' = [at EXCEPT ![s] = "report"] /\ ok' = [ok EXCEPT ![s] = FALSE]
    /\ UNCHANGED <<serverVars, loopVars, job, beatVars, wakeVars, feedVars>>

\* maybeTrackForResume(): without a session id, or when the task cannot be
\* read, nothing is tracked.
Track(s) ==
    /\ at[s] = "ended"
    /\ at' = [at EXCEPT ![s] = "report"]
    /\ \/ Waiting(job[s]) /\ tracked' = tracked \union {job[s]}
       \/ UNCHANGED tracked
    /\ UNCHANGED <<serverVars, loopVars, job, ok, beatVars, stop, feedVars>>

\* sourceAction(): complete is allowed from any state, a release only undoes
\* the daemon's own claim.
Report(s) ==
    /\ at[s] = "report"
    /\ at' = [at EXCEPT ![s] = "finish"]
    /\ \/ ok[s] /\ To(job[s], "done")
       \/ ~ok[s] /\ state[job[s]] = "mine" /\ To(job[s], "open")
    /\ Bump
    /\ UNCHANGED <<question, loopVars, job, ok, beatVars, wakeVars>>

ReportFails(s) ==
    /\ at[s] = "report"
    /\ at' = [at EXCEPT ![s] = "finish"]
    /\ UNCHANGED <<serverVars, loopVars, job, ok, beatVars, wakeVars, feedVars>>

\* Mutated form: only the success path disarms.
DisarmIfOk(s) == IF ok[s] THEN armed \ {s} ELSE armed

\* The finally disarms whatever the outcome.
Disarm(s) == armed \ {s}

Finish(s) ==
    /\ at[s] = "finish"
    /\ at' = [at EXCEPT ![s] = "free"] /\ ok' = [ok EXCEPT ![s] = FALSE]
    /\ armed' = Disarm(s)
    /\ timer' = [timer EXCEPT ![s] = IF s \in armed' THEN @ ELSE 0]
    /\ UNCHANGED <<serverVars, loopVars, job, beats, late, wakeVars, feedVars>>

-----------------------------------------------------------------------------
(* The heartbeat.                                                          *)

\* Mutated form: a timeout in place of the interval.
BeatOnce(s) == armed \ {s}

\* setInterval(): it stays armed.
BeatsOn(s) == armed

BeatDue(s) ==
    /\ s \in armed /\ timer[s] = Heartbeat
    /\ timer' = [timer EXCEPT ![s] = 0] /\ armed' = BeatsOn(s)
    /\ beats' = beats \union {job[s]}
    /\ UNCHANGED <<serverVars, loopVars, runVars, late, wakeVars, feedVars>>

\* Claiming again renews, and claims anew what lapsed or was released.
BeatLands(t) ==
    /\ t \in beats /\ beats' = beats \ {t}
    /\ state[t] \in {"open", "mine"}
    /\ To(t, "mine") /\ late' = late \ {t}
    /\ Bump
    /\ UNCHANGED <<question, loopVars, runVars, armed, timer, wakeVars>>

\* Refused, or lost: the next beat tries again.
BeatFails(t) ==
    /\ t \in beats /\ beats' = beats \ {t}
    /\ late' = late \union {t}
    /\ UNCHANGED <<serverVars, loopVars, runVars, armed, timer, wakeVars, feedVars>>

-----------------------------------------------------------------------------
(* The Stop-hook backstop.                                                 *)

\* runStopBackstop() reads the task and decides.
StopRead(t) ==
    /\ stop[t] = "read"
    /\ \/ /\ state[t] \in {"mine", "theirs"} /\ ~Waiting(t)
          /\ stop' = [stop EXCEPT ![t] = "ask"]
          /\ UNCHANGED feedVars
       \/ stop' = [stop EXCEPT ![t] = "none"] /\ Bump
    /\ UNCHANGED <<serverVars, loopVars, runVars, beatVars, tracked>>

\* askUser(), on what it read, whether or not the server takes it.
StopAsk(t) ==
    /\ stop[t] = "ask" /\ stop' = [stop EXCEPT ![t] = "none"]
    /\ \/ state[t] # "done" /\ question' = [question EXCEPT ![t] = "flagged"]
       \/ UNCHANGED question
    /\ Bump
    /\ UNCHANGED <<state, age, loopVars, runVars, beatVars, tracked>>

-----------------------------------------------------------------------------
(* The daemon and the clock.                                               *)

\* systemd starts it again; it signs in, or serves without the loop.  What it
\* had in memory is gone, renewals it had sent may still arrive.
Restart ==
    /\ phase' \in {"off", "sweep"} /\ todo' = {} /\ reply' = {} /\ got' = {}
    /\ at' = [s \in Slots |-> "free"] /\ ok' = [s \in Slots |-> FALSE]
    /\ armed' = {} /\ timer' = [s \in Slots |-> 0]
    /\ tracked' = {} /\ stop' = [t \in Tasks |-> "none"]
    /\ FeedRestarts
    /\ UNCHANGED <<serverVars, job, beats, late>>

\* Half an hour: a timer fires when it is due, a renewal takes seconds.
Settled == beats = {} /\ \A s \in armed : timer[s] < Heartbeat

Lapsing == {t \in Tasks : state[t] = "mine" /\ age[t] + 1 = Ttl}

Tick ==
    /\ Settled
    /\ state' = [t \in Tasks |-> IF t \in Lapsing THEN "open" ELSE state[t]]
    /\ age' = [t \in Tasks |-> IF state'[t] = "mine" THEN age[t] + 1 ELSE 0]
    /\ timer' = [s \in Slots |-> IF s \in armed THEN timer[s] + 1 ELSE 0]
    /\ UNCHANGED <<question, loopVars, runVars, armed, beats, late, wakeVars,
                   feedVars>>

\* The laptop writes to the daemon's own store (task-http), or the pull that
\* follows a write shows the daemon something new.
Edited == Bump /\ UNCHANGED <<serverVars, loopVars, runVars, beatVars, wakeVars>>

Attachment ==
    Attached /\ FeedNext /\ UNCHANGED <<serverVars, loopVars, runVars, beatVars, wakeVars>>

-----------------------------------------------------------------------------
Sweeping ==
    \/ SweepStarts \/ SweepTakes
    \/ \E t \in Tasks : SweepRead(t) \/ SweepFails(t)

Looping ==
    \/ LoopIdles \/ ReleaseBrowser
    \/ \E t \in Tasks : ClaimBrowser(t) \/ ClaimLost(t)
    \/ \E t \in Tasks, s \in Slots : ClaimNext(t, s)

Reporting(s) == Track(s) \/ Report(s) \/ ReportFails(s) \/ Finish(s)

Running(s) ==
    \/ AgentAsks(s) \/ AgentSubmits(s) \/ AgentEnds(s) \/ AgentThrows(s)
    \/ Reporting(s) \/ BeatDue(s)

Beating(t) == BeatLands(t) \/ BeatFails(t)
Stopping(t) == StopRead(t) \/ StopAsk(t)

Next ==
    \/ \E t \in Tasks : Elsewhere(t) \/ Answer(t) \/ Beating(t) \/ Stopping(t)
    \/ Sweeping \/ Looping
    \/ \E s \in Slots : Running(s)
    \/ Restart \/ Tick \/ Edited \/ Attachment

\* The loop goes on, and reads a task in the end; requests are answered or
\* time out; time passes.  Nothing makes an agent end or a user answer.
Fairness ==
    /\ WF_vars(SweepStarts) /\ WF_vars(SweepTakes) /\ WF_vars(Looping)
    /\ \A t \in Tasks : /\ SF_vars(SweepRead(t))
                        /\ WF_vars(SweepRead(t) \/ SweepFails(t))
                        /\ WF_vars(Beating(t)) /\ WF_vars(Stopping(t))
    /\ \A s \in Slots : WF_vars(Reporting(s)) /\ WF_vars(BeatDue(s))
    /\ WF_vars(Tick)
    /\ FeedFairness

Spec == Init /\ [][Next]_vars /\ Fairness

-----------------------------------------------------------------------------
(* Properties.                                                             *)

\* "claim freshness never lapses on a long unattended run": while a run goes
\* on and its renewals arrive, its claim is no older than its timer.
BeatInTime ==
    \A s \in Busy : LET t == job[s] IN
        state[t] = "mine" /\ t \notin late \union beats => age[t] <= timer[s]

\* "a finished run never keeps renewing a claim": a claim of the daemon's that
\* no run stands behind - the report failed, a renewal came after it, the
\* reply to the claim was lost, the daemon restarted - does not stay.
StrandedEnds ==
    \A t \in Tasks :
        state[t] = "mine" ~> \/ state[t] # "mine"
                             \/ \E s \in Slots : at[s] = "agent" /\ job[s] = t

\* A parked session is resumed, or given up, once its question is answered,
\* however long another run keeps the slot.
AnsweredIsServed ==
    \A t \in Tasks :
        t \in tracked /\ ~Waiting(t) /\ phase # "off"
            ~> t \notin tracked \/ Waiting(t)

=============================================================================
