----------------------------- MODULE DeltaPoll -----------------------------
(***************************************************************************)
(* The delta-first poll loop of TypeBuildTaskSource                        *)
(* (electron/sources/typebuild.ts) over the persistent skeleton and sync   *)
(* cursor (electron/sources/task-skeleton-store.ts), against a task server *)
(* that other people write to.                                             *)
(*                                                                         *)
(* A task row keeps what the sync logic tells apart:                       *)
(*   vis  the routing fields signatureOf() compares (raw status, claim,    *)
(*        attempts), as one value;                                         *)
(*   sil  the routing fields it leaves out (priority, due date, defer,     *)
(*        project, assignee), as one value;                                *)
(*   at   the server's updated_at.                                         *)
(* Server time is a counter that each server write advances; 0 stands for  *)
(* "no time": no cursor, the epoch of a full pull, a reply without         *)
(* server_time.                                                            *)
(***************************************************************************)
EXTENDS Naturals, FiniteSets

CONSTANTS
    Tasks,           \* task ids
    Anchor,          \* tasks that exist from the start and are never deleted
    Vis,             \* values of the signature-visible fields
    Ended,           \* those of them that a "completed" transition announces
    Moves,           \* pairs of them: what one write to a task can do
    Sil,             \* values of the routing fields outside the signature
    MaxTime,         \* bound: the last server write happens at this time
    ReconcileEvery,  \* FULL_RECONCILE_EVERY
    MaxFaults,       \* bound: process deaths plus unreadable bodies
    MaxSyncs,        \* bound: how often the user presses "Sync now"
    MaxLoad,         \* bound: faults and presses together
    DiskFails,       \* whether a read or write of the skeleton store may fail
    NoRow            \* no such row (absent, deleted, tombstoned, unchanged)

Time == 0..MaxTime
Row == [vis : Vis, sil : Sil, at : 1..MaxTime]

ASSUME ConstantsAssumption ==
    /\ Anchor \subseteq Tasks /\ Anchor # {}
    /\ Vis # {} /\ Ended \subseteq Vis /\ Sil # {}
    /\ Moves \subseteq Vis \X Vis
    /\ MaxTime \in Nat \ {0}
    /\ ReconcileEvery \in Nat \ {0}
    /\ MaxFaults \in Nat /\ MaxSyncs \in Nat /\ MaxLoad \in Nat
    /\ DiskFails \in BOOLEAN

ASSUME NoRowAssumption == NoRow \notin Row

VARIABLES
    server,     \* the server's inventory
    gone,       \* deleted_at of a deleted task, 0 for the others
    now,        \* the server's clock
    skel,       \* live rows of the skeleton table on disk
    cursor,     \* sync_meta.sync_cursor on disk, 0 when there is none
    up,         \* the app runs and the source is polling
    cache,      \* this.cache
    lastSig,    \* this.lastSignature
    firstPoll,  \* this.firstPoll
    pollCount,  \* this.pollCount
    phase,      \* "idle", "loop" at the head of the do-while, "busy" in it:
                \* this.pollInFlight is phase # "idle"
    pollAgain,  \* this.pollAgain
    flight,     \* the pulls whose request was sent and that are not handled
    notices,    \* what the last step passed to onTaskTransitions
    sync,       \* "waiting" while a syncNow() awaits poll(), "settled" after
    moved,      \* lastSyncedAtMs changed since that call
    credit,     \* history: how far the pulls sent after that call got
    pending,    \* history: a trigger arrived after the last pass began
    trusted,    \* history: see CursorSound
    faults,     \* deaths and unreadable bodies so far
    syncs       \* presses of "Sync now" so far

serverVars == <<server, gone, now>>
diskVars   == <<skel, cursor>>
memVars    == <<cache, lastSig, firstPoll, pollCount>>
flightVars == <<phase, pollAgain, flight, pending>>
syncVars   == <<sync, moved, credit, syncs>>
vars == <<serverVars, diskVars, memVars, flightVars, syncVars,
          up, trusted, faults, notices>>

-----------------------------------------------------------------------------
(* Rows and signatures.                                                    *)

Rows == [Tasks -> Row \union {NoRow}]
Nothing == [t \in Tasks |-> NoRow]
Live(rows) == {t \in Tasks : rows[t] # NoRow}

\* signatureOf: equal exactly when the ids and their visible fields are equal.
\* The signature of no rows is the initial value '' of lastSignature.
SigOf(rows) == [t \in Live(rows) |-> rows[t].vis]
NoSig == SigOf(Nothing)

SameVisible(r, s) ==
    IF r = NoRow \/ s = NoRow THEN r = s ELSE r.vis = s.vis

\* The server time of the last write to a task, its deletion included.
Touched(t) == IF server[t] = NoRow THEN gone[t] ELSE server[t].at

Reply == [rows : Rows, tombs : SUBSET Tasks, time : Time, envelope : BOOLEAN]
NoReply == [rows |-> Nothing, tombs |-> {}, time |-> 0, envelope |-> FALSE]

\* A pull: its updated_since (0 for a full pull) and, once there, its answer.
Pull == [since : Time, answered : BOOLEAN, body : Reply]

\* reconcileDelta / applyDelta: upsert the changed rows, then drop tombstones.
Apply(base, r) ==
    [t \in Tasks |-> IF t \in r.tombs THEN NoRow
                     ELSE IF r.rows[t] # NoRow THEN r.rows[t] ELSE base[t]]

\* Mutated form: it announces every ended row, not only the edge to it.
TransitionsNoEdge(before, fresh, first) ==
    {[task |-> t, kind |-> "completed"] :
        t \in {u \in Live(fresh) \cap Live(before) : fresh[u].vis \in Ended}}

\* classifyTransitions over (rows before, fresh rows).
Transitions(before, fresh, first) ==
    {[task |-> t, kind |-> "new"] :
        t \in {u \in Live(fresh) : before[u] = NoRow /\ ~first}}
    \union
    {[task |-> t, kind |-> "completed"] :
        t \in {u \in Live(fresh) \cap Live(before) :
                  fresh[u].vis \in Ended /\ before[u].vis \notin Ended}}

Notice == [task : Tasks, kind : {"new", "completed"}]

\* Every access to the skeleton store stands in a try of its own whose catch
\* logs and goes on: what comes of one that should yield "done".
Attempt(done, failed) == IF DiskFails THEN {done, failed} ELSE {done}

Quiet == notices' = {}

Spare == faults + syncs < MaxLoad

-----------------------------------------------------------------------------
TypeOK ==
    /\ server \in Rows /\ gone \in [Tasks -> Time] /\ now \in 1..MaxTime
    /\ skel \in Rows /\ cursor \in Time
    /\ up \in BOOLEAN /\ cache \in Rows
    /\ lastSig \in UNION {[S -> Vis] : S \in SUBSET Tasks}
    /\ firstPoll \in BOOLEAN /\ pollCount \in 0..ReconcileEvery
    /\ phase \in {"idle", "loop", "busy"}
    /\ pollAgain \in BOOLEAN /\ flight \subseteq Pull
    /\ notices \subseteq Notice
    /\ sync \in {"none", "waiting", "settled"} /\ moved \in BOOLEAN
    /\ credit \in {"none", "asked", "applied"}
    /\ pending \in BOOLEAN /\ trusted \in BOOLEAN
    /\ faults \in 0..MaxFaults /\ syncs \in 0..MaxSyncs

Init ==
    /\ server \in {s \in Rows : Live(s) = Anchor
                                /\ \A t \in Anchor : s[t].at = 1}
    /\ gone = [t \in Tasks |-> 0] /\ now = 1
    /\ skel = Nothing /\ cursor = 0
    /\ up = FALSE /\ cache = Nothing /\ lastSig = NoSig
    /\ firstPoll = TRUE /\ pollCount = 0 /\ notices = {}
    /\ phase = "idle" /\ pollAgain = FALSE /\ flight = {}
    /\ sync = "none" /\ moved = FALSE /\ credit = "none" /\ syncs = 0
    /\ pending = FALSE /\ trusted = TRUE /\ faults = 0

-----------------------------------------------------------------------------
(* The server, written to by other people and agents.                      *)

ServerWrite ==
    /\ now < MaxTime
    /\ now' = now + 1
    /\ Quiet
    /\ UNCHANGED <<diskVars, memVars, flightVars, syncVars, up, trusted,
                   faults>>

Create(t) ==
    /\ server[t] = NoRow /\ gone[t] = 0
    /\ \E v \in Vis, s \in Sil :
          server' = [server EXCEPT ![t] = [vis |-> v, sil |-> s, at |-> now + 1]]
    /\ UNCHANGED gone
    /\ ServerWrite

Edit(t) ==
    /\ server[t] # NoRow
    /\ \E v \in Vis, s \in Sil :
          /\ \/ <<server[t].vis, v>> \in Moves
             \/ v = server[t].vis /\ s # server[t].sil
          /\ server' = [server EXCEPT ![t] =
                           [vis |-> v, sil |-> s, at |-> now + 1]]
    /\ UNCHANGED gone
    /\ ServerWrite

Delete(t) ==
    /\ t \notin Anchor /\ server[t] # NoRow
    /\ server' = [server EXCEPT ![t] = NoRow]
    /\ gone' = [gone EXCEPT ![t] = now + 1]
    /\ ServerWrite

-----------------------------------------------------------------------------
(* Process lifetime.                                                       *)

\* The constructor hydrates the cache from the skeleton, or starts empty when
\* it cannot; startPolling arms the timer, and its first poll() is a Trigger.
Boot ==
    /\ ~up
    /\ up' = TRUE
    /\ cache' \in Attempt(skel, Nothing)
    /\ Quiet
    /\ UNCHANGED <<serverVars, diskVars, lastSig, firstPoll, pollCount,
                   flightVars, syncVars, trusted, faults>>

\* Everything in memory is lost, the disk stays.
Die ==
    /\ up /\ faults < MaxFaults /\ Spare
    /\ faults' = faults + 1
    /\ up' = FALSE
    /\ cache' = Nothing /\ lastSig' = NoSig /\ firstPoll' = TRUE
    /\ pollCount' = 0 /\ Quiet
    /\ phase' = "idle" /\ pollAgain' = FALSE /\ flight' = {}
    /\ pending' = FALSE
    /\ sync' = "none" /\ moved' = FALSE /\ credit' = "none"
    /\ UNCHANGED <<serverVars, syncs>>

Crash == Die /\ UNCHANGED <<diskVars, trusted>>

\* The skeleton and the cursor are two transactions. A delta pull writes the
\* rows first ...
CrashMidDelta(p) ==
    /\ p.answered /\ p.since # 0 /\ p.body.envelope
    /\ skel' = Apply(skel, p.body)
    /\ UNCHANGED <<cursor, trusted>>
    /\ Die

\* ... and a full pull the cursor first.
CrashMidFull(p) ==
    /\ p.answered /\ p.since = 0 /\ p.body.time # 0
    /\ cursor' = p.body.time
    /\ trusted' = FALSE
    /\ UNCHANGED skel
    /\ Die

-----------------------------------------------------------------------------
(* The poll pass.                                                          *)

\* Mutated forms: every trigger starts a pass; none asks for another one.
EnteredUnguarded == "loop"
AgainForgotten == pollAgain

\* poll(): a trigger during a pass only marks that another one is wanted.
Entered == IF phase = "idle" THEN "loop" ELSE phase
Again == pollAgain \/ phase # "idle"

PollTriggered ==
    /\ up
    /\ phase' = Entered
    /\ pollAgain' = Again
    /\ pending' = TRUE
    /\ Quiet
    /\ UNCHANGED <<serverVars, diskVars, memVars, flight, up, trusted, faults>>

\* The 30s timer, the first poll after startPolling, an SSE signal.
Trigger == PollTriggered /\ UNCHANGED syncVars

\* syncNow() remembers lastSyncedAtMs and awaits poll().
SyncNow ==
    /\ sync = "none" /\ syncs < MaxSyncs /\ Spare
    /\ sync' = "waiting" /\ moved' = FALSE /\ credit' = "none"
    /\ syncs' = syncs + 1
    /\ PollTriggered

\* The caller resumes: it throws "sync did not complete" unless moved.
SyncReturns ==
    /\ sync = "settled"
    /\ sync' = "none" /\ moved' = FALSE /\ credit' = "none"
    /\ Quiet
    /\ UNCHANGED <<serverVars, diskVars, memVars, flightVars, syncs, up, trusted,
                   faults>>

\* Mutated form: one delta too many before the full pull.
SinceOneMore == IF pollCount <= ReconcileEvery THEN cursor ELSE 0

\* A delta from the cursor, or a full pull: forced, or for want of a cursor,
\* which may also be unreadable.
Since == IF pollCount < ReconcileEvery THEN cursor ELSE 0

PollAsk ==
    /\ phase = "loop"
    /\ phase' = "busy"
    /\ pollAgain' = FALSE /\ pending' = FALSE
    /\ \E from \in Attempt(Since, 0) :
          flight' = flight \union
             {[since |-> from, answered |-> FALSE, body |-> NoReply]}
    /\ credit' = IF sync = "waiting" /\ credit = "none" THEN "asked" ELSE credit
    /\ Quiet
    /\ UNCHANGED <<serverVars, diskVars, memVars, sync, moved, syncs, up,
                   trusted, faults>>

\* Mutated form: only the last pass before the loop ends stamps the clock.
PassOverLastStamps(again, stamped) ==
    /\ phase' = IF again THEN "loop" ELSE "idle"
    /\ moved' = (moved \/ (stamped /\ ~again /\ sync = "waiting"))
    /\ sync' = IF ~again /\ sync = "waiting" THEN "settled" ELSE sync
    /\ UNCHANGED <<serverVars, up, faults, syncs>>

\* The pass is over: run again if a trigger came meanwhile, else settle the
\* promise, on which a pending syncNow() compares lastSyncedAtMs.
PassOver(again, stamped) ==
    /\ phase' = IF again THEN "loop" ELSE "idle"
    /\ moved' = (moved \/ (stamped /\ sync = "waiting"))
    /\ sync' = IF ~again /\ sync = "waiting" THEN "settled" ELSE sync
    /\ UNCHANGED <<serverVars, up, faults, syncs>>

\* No window to update: the pass ends before any request.
PollSkip ==
    /\ phase = "loop"
    /\ pollAgain' = FALSE /\ pending' = FALSE
    /\ PassOver(FALSE, FALSE)
    /\ Quiet
    /\ UNCHANGED <<diskVars, memVars, flight, credit, trusted>>

-----------------------------------------------------------------------------
(* What comes back.                                                        *)

Arrives(p, r) ==
    /\ ~p.answered
    /\ flight' = (flight \ {p}) \union
                    {[since |-> p.since, answered |-> TRUE, body |-> r]}
    /\ Quiet
    /\ UNCHANGED <<serverVars, diskVars, memVars, syncVars, phase, pollAgain,
                   pending, up, trusted>>

\* The delta endpoint: rows and tombstones newer than updated_since, and
\* server_time, which a reply may lack.
DeltaBodies(from) ==
    {[rows |-> [t \in Tasks |-> IF Touched(t) > from THEN server[t] ELSE NoRow],
      tombs |-> {t \in Tasks : server[t] = NoRow /\ gone[t] > from},
      time |-> time, envelope |-> TRUE] : time \in {0, now}}

\* updated_since = 1970: the whole inventory with server_time.
FullBody == [rows |-> server, tombs |-> {}, time |-> now, envelope |-> TRUE]

\* A server that ignores updated_since sends the inventory and no envelope.
PlainBody == [rows |-> server, tombs |-> {}, time |-> 0, envelope |-> FALSE]

Bodies(p) == {PlainBody} \union
             (IF p.since = 0 THEN {FullBody} ELSE DeltaBodies(p.since))

AnswerTo(p) == \E r \in Bodies(p) : Arrives(p, r) /\ UNCHANGED faults

\* A 200 whose body does not parse: res.json().catch(() => ({})).
AnswerGarbled(p) ==
    /\ faults < MaxFaults /\ Spare
    /\ faults' = faults + 1
    /\ Arrives(p, NoReply)

\* request() throws: offline, timeout, signed out. No stamp.
RequestFails(p) ==
    /\ ~p.answered
    /\ flight' = flight \ {p}
    /\ PassOver(pollAgain, FALSE)
    /\ Quiet
    /\ UNCHANGED <<diskVars, memVars, pollAgain, pending, credit, trusted>>

\* A status outside 2xx: pollFull and pollDelta return, and pollOnce stamps.
RequestRefused(p) ==
    /\ ~p.answered
    /\ flight' = flight \ {p}
    /\ PassOver(pollAgain, TRUE)
    /\ Quiet
    /\ UNCHANGED <<diskVars, memVars, pollAgain, pending, credit, trusted>>

-----------------------------------------------------------------------------
(* Handling a response: no await inside, so each is one step.              *)

Genuine(r) == r.envelope \/ Live(r.rows) # {}

Handled(p) ==
    /\ p.answered
    /\ flight' = flight \ {p}
    /\ credit' = IF sync = "waiting" /\ credit = "asked" /\ Genuine(p.body)
                 THEN "applied" ELSE credit
    /\ UNCHANGED <<pollAgain, pending>>
    /\ PassOver(pollAgain, TRUE)

\* Mutated form: the cursor becomes the time the reply is handled at.
AdvanceToReceipt(r) == cursor' = now

\* maybeAdvanceCursor
AdvanceCursor(r) ==
    cursor' \in Attempt(IF r.time = 0 THEN cursor ELSE r.time, cursor)

\* Mutated form: the signature of the rows before is kept.
ReconcileKeepsSig(rows) ==
    /\ skel' \in Attempt(rows, skel) /\ cache' = rows
    /\ UNCHANGED lastSig
    /\ notices' = Transitions(cache, rows, firstPoll)

\* Mutated form: the screen is loaded from the skeleton after the write.
ReconcileReloads(rows) ==
    /\ skel' \in Attempt(rows, skel) /\ cache' = skel'
    /\ lastSig' = SigOf(rows)
    /\ notices' = Transitions(cache, rows, firstPoll)

\* reconcileFromRows: the skeleton becomes the rows, and the cache does so even
\* when the skeleton could not be written.
Reconcile(rows) ==
    /\ skel' \in Attempt(rows, skel) /\ cache' = rows
    /\ lastSig' = SigOf(rows)
    /\ notices' = Transitions(cache, rows, firstPoll)

Unmoved(r) == SigOf(r.rows) = lastSig

\* An inventory is on disk when the skeleton shows the rows of the screen.
Trust(r) ==
    trusted' = \/ Genuine(r) /\ skel' = cache'
               \/ trusted /\ UNCHANGED diskVars

HandleFull(p) ==
    /\ p.since = 0
    /\ Handled(p)
    /\ pollCount' = 0
    /\ firstPoll' = FALSE
    /\ AdvanceCursor(p.body)
    /\ \/ Unmoved(p.body) /\ Quiet /\ UNCHANGED <<skel, cache, lastSig>>
       \/ ~Unmoved(p.body) /\ Reconcile(p.body.rows)
    /\ Trust(p.body)

\* A delta request answered without the envelope is taken for an inventory.
HandlePlain(p) ==
    /\ p.since # 0 /\ ~p.body.envelope
    /\ Handled(p)
    /\ pollCount' = 0
    /\ \/ /\ Unmoved(p.body)
          /\ Quiet
          /\ UNCHANGED <<skel, cache, lastSig, firstPoll>>
       \/ ~Unmoved(p.body) /\ Reconcile(p.body.rows) /\ firstPoll' = FALSE
    /\ UNCHANGED cursor
    /\ Trust(p.body)

EmptyDelta(r) == Live(r.rows) = {} /\ r.tombs = {}

\* Mutated form: empty deltas do not count towards the forced full pull.
CountedChanges(r) == IF EmptyDelta(r) THEN pollCount ELSE pollCount + 1

Counted(r) == pollCount + 1

HandleDelta(p) ==
    /\ p.since # 0 /\ p.body.envelope
    /\ Handled(p)
    /\ pollCount' = Counted(p.body)
    /\ AdvanceCursor(p.body)
    /\ \/ /\ EmptyDelta(p.body)
          /\ Quiet
          /\ UNCHANGED <<skel, cache, lastSig, firstPoll>>
       \/ /\ ~EmptyDelta(p.body)
          /\ skel' \in Attempt(Apply(skel, p.body), skel)
          /\ cache' = Apply(cache, p.body)
          /\ lastSig' = SigOf(Apply(cache, p.body))
          /\ notices' = Transitions(cache, p.body.rows, firstPoll)
          /\ firstPoll' = FALSE
    /\ trusted' = (trusted /\ (skel' = Apply(skel, p.body) \/ UNCHANGED cursor))

-----------------------------------------------------------------------------
ServerNext == \E t \in Tasks : Create(t) \/ Edit(t) \/ Delete(t)

Answer == \E p \in flight : AnswerTo(p)

Handle == \E p \in flight : HandleFull(p) \/ HandlePlain(p) \/ HandleDelta(p)

Next ==
    \/ ServerNext
    \/ Boot \/ Crash
    \/ \E p \in flight : CrashMidDelta(p) \/ CrashMidFull(p)
    \/ Trigger \/ SyncNow \/ SyncReturns \/ PollAsk \/ PollSkip
    \/ Answer
    \/ \E p \in flight : AnswerGarbled(p) \/ RequestFails(p) \/ RequestRefused(p)
    \/ Handle

Spec == Init /\ [][Next]_vars

(***************************************************************************)
(* The app is restarted, the timer keeps firing, and an answer is handled  *)
(* (setInterval, the microtask queue): of what is due something happens,   *)
(* and the timer's next ring during a pass changes nothing.  Neither "no   *)
(* window" nor a failing network lasts for ever.  Nothing is assumed of    *)
(* the server's writers or of the user.                                    *)
(***************************************************************************)
Fairness ==
    /\ WF_vars(Boot \/ Trigger \/ Handle)
    /\ SF_vars(PollAsk) /\ SF_vars(Answer)

FairSpec == Spec /\ Fairness

-----------------------------------------------------------------------------
(* Properties.                                                             *)

\* While a pass runs it is the only one: the guard poll() keeps so that two
\* pulls never race the cursor and the cache swap.  A pass that is at its
\* await has exactly one request out.
SingleFlight ==
    /\ phase # "busy" => flight = {}
    /\ phase = "busy" => \E p \in flight : flight = {p}

\* poll(): "a change that landed mid-poll is never missed".  A trigger whose
\* pass has not begun is never forgotten: a pass is about to start, or the
\* running one will run again.
NoTriggerLost == up /\ pending => phase = "loop" \/ pollAgain

\* The watermark covers what it claims: every server write up to the cursor
\* is on disk, as far as the signature sees.  It may be relied on (trusted)
\* except from one of three events until an inventory is on disk again: a
\* crash between a full pull's two transactions, a wipe by an unreadable body,
\* and a write of the rows that failed although the cursor then advanced (the
\* catch blocks of reconcileFromRows and reconcileDelta let it).
CursorSound ==
    trusted => \A t \in Tasks :
                  Touched(t) <= cursor => SameVisible(skel[t], server[t])

\* No visible divergence is beyond repair, whatever crashed, failed or came
\* back garbled: when some row on screen differs from the server's and the
\* next delta will not carry it, the next full pull does not take the
\* signature short-circuit of pollFull.
Repairable ==
    up => \/ \A t \in Tasks : \/ Touched(t) > cursor
                              \/ SameVisible(cache[t], server[t])
          \/ lastSig # SigOf(server)

\* Between two starts of the app the poll loop never puts an older version of
\* a task over a newer one: neither on screen nor on disk.
NeverOlder ==
    [][\A t \in Tasks :
          /\ cache[t] # NoRow /\ cache'[t] # NoRow => cache'[t].at >= cache[t].at
          /\ skel[t] # NoRow /\ skel'[t] # NoRow => skel'[t].at >= skel[t].at]_vars

\* A completion is announced only by a response that brings a version of the
\* task newer than the one on screen: replayed windows, full pulls and plain
\* inventories never announce it twice.
CompletionIsNews ==
    [][\A n \in notices' :
          n.kind = "completed" => cache'[n.task].at > cache[n.task].at]_vars

\* syncNow() never cries wolf: when it rejects with "sync did not complete",
\* no pull sent after the click was applied.
SyncRejectHonest == sync = "settled" /\ ~moved => credit # "applied"

\* Once the writers pause for good, every row on screen shows the server's
\* visible fields and stays so, in spite of crashes, lost, refused, garbled
\* and unstamped responses before: what the delta windows miss, the full
\* pull heals.
Converges ==
    <>[](up /\ \A t \in Tasks : SameVisible(cache[t], server[t]))

\* What the loop promises as a whole: copies of the server's rows, on disk and
\* on screen, that show only versions the server had and never an older one
\* after a newer one, and a disk that takes rows from the screen only, through
\* every crash and every failed read or write of the disk.
Promise == INSTANCE Replica WITH
              Keys <- Tasks, NoRow <- NoRow,
              truth <- server, stamp <- [t \in Tasks |-> Touched(t)],
              copy <- skel, open <- up, view <- cache

ImplementsReplica == Promise!Spec

=============================================================================
