# Verification of Breezefile's task core

TLA+ models of the parts of Breezefile that keep state consistent while several
actors work on it: the sync loop against the TypeBuild task server and what
else writes its cache, the scheduler that runs agents, interactive sessions and
their claims, the headless daemon and its change feed, sign-in and the stream
client, and in the window the task lists, the tabs and the editor.  TLC checks
them on small instances; TLAPS proves, for every instance, the safety of the
sync loop and that it implements an abstract replica, and the safety of the
scheduler, the sessions, sign-in, the daemon's heartbeat, the lists, the tabs
and the editor.  `PROJECT.json` lists runs, mutants, findings, hazards, theorems
and, under `map`, the source lines behind every definition.

## 1. The system

Breezefile is an Electron app (and a headless daemon, `breezed`) through which
people and coding agents work on shared tasks.

| Component | State it keeps | Operations | What is hard |
|---|---|---|---|
| Delta-sync loop (`electron/sources/typebuild.ts`, `task-skeleton-store.ts`, `typebuild-transitions.mjs`) | row cache, signature, counters, in-flight flags in memory; skeleton rows and sync cursor on disk | poll, delta pull, full pull, boot | triggers during a pass, death between two writes, lost, refused, garbled and unstamped answers, a short-circuit on a signature that sees only some fields |
| Rest of the task source (same file, `main.ts`) | the same cache and disk | listTasks, own writes with an optimistic patch, sign-out, sign-in | answers that arrive late, for another filter, or for a source that was dropped |
| Scheduler (`scheduler.ts`, `schedule-overlay.ts`, `cron.ts`) | one Timeout, the Set `inFlight`, retry timers | timer, dispatch, retry, roll forward, dispatch of remote tasks | awaits inside dispatch, retries beside the timer, death while the fire time is null on disk |
| Local task store (`tasks.ts`, `core/task-http.ts`) | tables tasks, task_runs, remote_schedule | create, update, delete, runs | a patch that implies another field; rows of runs nobody runs |
| Agent executor (`agents/execute.ts`, `interactive.ts`, `claude.ts`) | run rows, abort controllers, sessions | start, finish, cancel, launch in a window | refusing a second run, throwing half-way |
| Interactive claims (`typebuild.ts` 4047-4955, `agents/interactive.ts`, `browser/window.ts`, `typebuild/sessions.ts`) | keep-alive timers, `relaunching`, registry of sessions, the operator window's shell | run, relaunch, take over, renew, session exit, release | exits of old and new sessions told apart by one flag; a dialog in the middle of a takeover |
| breezed (`daemon/breezed.ts`, `agents/resume-on-answer.ts`, `claude-stop-backstop.ts`) | runs in flight, tracked sessions, change-feed counter and waiters | claim, heartbeat, complete, release, resume, long-poll | a heartbeat after release; a report that fails; a claim whose reply is lost; a counter that restarts |
| Remote attachment (`remoteDaemon.ts`, `sources.ts`) | connections and their counters | connect, poll, tear down | the daemon restarting under the tunnel, a tunnel that swallows polls |
| Authentication (`typebuild/auth.ts`, `browser-signin.ts`, wiring in `main.ts`) | session, refresh promise, encrypted file | sign in, refresh, restore, sign out | every one of them awaits; the source has to follow |
| Stream client (`typebuild-stream.ts`) | one AbortController, two timers, `stopped` | start, stop, connect, reconnect | stop and start during an await; changes nobody told it of |
| Task lists of a window (`src/tasks.ts`, `tasksMirror.mjs`, `ipc.ts` tasks:list and tasks:peek) | a mirror and a list per hook, one optimistic overlay | load, diff, peek, ping, answer a question | old lists that arrive after newer diffs |
| Tabs and shells of a window (`src/store.tsx`, `TerminalSplit.tsx`, `ChipPrompt.tsx`, `ipc.ts` term:*) | tabs, active index, closed tabs, marks, trails, ptys | open, close, restore, move, mark, spawn, kill | dispatches after an await, or from a callback of the mount, with an index of then |
| Editor (`EditShell.tsx`, `ipc.ts` editor:*) | buffer, seed, baseline, dirty mark, autosave timer, expected mtime | type, autosave, save, name, reload, refresh, close | answers that meet a buffer that moved on; other programs on the same file |
| Composer, task drawer, projects, operator browser (`electron/browser`), PHI store, reminders, file operations, platform adapters, copilot | | | mostly layout, I/O or pure functions |

How they interact: timers, the server's stream, window focus and mutations all
call `poll()`; poll, listTasks, mutations and sign-out share the cache and the
skeleton file; the scheduler, the HTTP API and the windows all reach
`executeTaskRun` and share the run table; every write to the task table calls
the scheduler's `rearm` hook; a fire of a remote task's schedule calls the
source's `runNow`, which launches a session; an exit of a pty reaches the
registry of sessions, the source and the tabs; a change of session registers or
drops the source, and with it the stream client; the source broadcasts pings
and diffs that every list hook answers with calls of its own; breezed claims
tasks at the same server, and tells attached laptops of its changes.

What makes each correct, in one line: the sync loop never skips a change for
good, never goes back, and ends up at the server's state; the source's other
writers leave only differences that a later pull repairs and sign-out leaves
nothing; the scheduler loses no due task, runs none twice at a time, and
revives no schedule a client took away; a live session keeps its claim, its
window and its place in the registry; the daemon renews while it works and
keeps no claim it does not work on, and a laptop misses none of its changes;
source, file and stream follow the session; a list that was told of a change
shows it; no shell outlives its tab, and marks stay in view; what was typed is
saved or the user hears of it, and nobody else's text is dropped unseen.

## 2. Modules

| Module | What it is |
|---|---|
| `Replica` | abstract: a copy of a server's rows on disk and one on screen, which only become newer |
| `DeltaPoll` | the sync loop against a changing server, with crashes and faults; implements `Replica` |
| `TaskSource` | EXTENDS `DeltaPoll`: lists, own writes, sign-out and sign-in around the loop |
| `Scheduler` | scheduler, task table, executor, retries, sessions, remote schedules |
| `Sessions` | interactive sessions: claim, launch, relaunch, takeover, keep-alive, exit, registry |
| `ChangeFeed` | the daemon's change counter and a laptop that long-polls it |
| `Breezed` | EXTENDS `ChangeFeed`: claim loop, runs, heartbeat, reports, resume, backstop, restart |
| `Auth` | session, refreshes, token file, sign-in and sign-out, with the source and its stream client |
| `Mirror` | the lists of a window over the source's cache and broadcasts |
| `Tabs` | tabs, shells, navigation and marks of a window |
| `Editor` | an editor tab, the file calls behind it, and others on the same files |
| `MC*` | instances for TLC |
| `DeltaPollProofs` | the sync loop: types, its safety, that it implements `Replica`; and `TaskSource` |
| `SchedulerProofs` | types, one headless run per task, the timer, recurring tasks, cleared schedules |
| `SessionsProofs` | types, the registry, the window, renewals, relaunches |
| `AuthProofs` | types, stopped clients, source and file that follow the session, a stream that never rests |
| `BreezedProofs` | types, renewals of the daemon's claims, the limit on its runs, the change feed |
| `MirrorProofs` | lists that were told, answered questions |
| `TabsProofs` | types, shells and marks |
| `EditorProofs` | types, typed text is kept and in hand, others' text is not dropped |

### DeltaPoll and the code

`server`, `gone`, `now` are the server: its rows, its tombstones' times and its
clock.  `skel` and `cursor` are what `task-skeleton-store.ts` has on disk;
`cache`, `lastSig`, `firstPoll`, `pollCount` are the fields of
`TypeBuildTaskSource` of (nearly) the same names.  `phase` is `pollInFlight`
plus the program counter of the do-while; `flight` holds the request that the
pass awaits.  One action is one run of JavaScript between two awaits:
`Trigger` enters `poll()`, `PollAsk` starts a pass, `HandleFull`, `HandlePlain`
and `HandleDelta` are the rest of the pass once the body is there.  Two
handlers write the disk twice, in the code's order; a death between the two
writes is an action of its own (`CrashMidDelta`, `CrashMidFull`).

Each access to the skeleton store stands in a try of its own, whose catch logs
and goes on: reading the rows at the start, writing them for an inventory or a
delta (1112-1125, 1160-1177), writing the cursor (5844-5848).  With `DiskFails`
any of them may fail (`Attempt`): the rows or the cursor on disk stay as they
are and the handler continues, so the cache is swapped and the cursor advanced
over rows that are not on disk.  `trusted` is history: whether the cursor may
be relied on (`CursorSound`, section 4).

A row is three values: `vis`, the fields `signatureOf` compares; `sil`, the
fields it leaves out; `at`, the server's `updated_at`.  Nothing in the loop
tells more apart.  Titles are left out although the signature includes them:
they exist only in memory, and after a start they come back from the encrypted
store before the first pull (`hydratePhi`) or with it; a title that changes is
a `vis` change that every write here also stamps.

### Replica and DeltaPoll

`Replica` says what a user may rely on, without cursors, pulls or signatures.
Its steps are: the server writes; any rows on screen come up to versions the
server has or had, or go, and of each row the disk follows or keeps its own
(`Sync`: a write of the disk may fail); the app starts and shows the copy,
whatever the server is, or nothing when the copy cannot be read; it stops, in
the middle of a sync perhaps.  A row is never replaced by one older than the
screen's or the disk's, and one version has one content.  `DeltaPoll` instantiates it with

    Keys <- Tasks, truth <- server, stamp <- Touched, copy <- skel,
    open <- up, view <- cache

and `ImplementsReplica` is checked as a property.  Starting a pass, asking and
failing are stutters; `HandleFull`, `HandlePlain` and `HandleDelta` are `Sync`
or a stutter; every death is a `Stop`, also one between the two writes.

### TaskSource and the code

`lists` and `writes` are the awaits of `listTasks` and `patchTask`; an own
write patches cache and skeleton (`Patched`) and starts the refresh of
`refreshAndBroadcast`, whose list calls have the numbers above `MaxLists`.
`SignOut` moves what the dropped source still awaits to `ghost`; those answers
arrive and are handled with the dropped source's memory, over the shared disk.
A list's 200 whose body does not parse is an empty list (`ListBodies`).  The
disk writes of lists, of own writes, of sign-out and of the dropped source fail
with `DiskFails` as those of the loop do.
An own write that is under way at sign-out is forgotten here; in the code its
answer finds an empty cache and only starts one more list call of the dropped
source, of the kind `GhostList` has.

### Scheduler and the code

Time is what a stored `next_run_at` says of it: never, later, or due; `Tick`
lets a fire time come.  `ahead` is the ORDER BY of `dueAutoTasks`: which of two
due tasks has the earlier fire time.  A `procs` record is one dispatch or client call at one of its awaits.
`dispatch` marks a task in flight and clears its fire time synchronously with
the timer (`OnTimer`); its remainder starts with the stage "begin".  In the
code a headless dispatch reaches `executeTaskRun`'s synchronous part without an
await; letting other steps in between adds behaviours and removes none.  A
retry leaves the Set `inFlight` and keeps a queued row, as in the code, and
`RetryFires` starts a dispatch past the limit, as in the code.  Ids of finished
run rows are used again, since no step reads a finished row.  A cancelled run
is one with `stopped`; it ends as any failed run does, because that is what
`agents/claude.ts` reports.  `dropped` and `lost` are history: they say which
tasks have no fire time because a client or a process death took it.

### Sessions and the code

A launch is a number, which is also its pty's id.  `step[l]` is where the
launch's promise waits: the claim, the mint of its tokens, the takeover dialog,
the liveness gate; then "up", "over".  `holder`, `age` are the server's claim
and its time since it was taken or renewed, `believed` what the cached row says;
`armed`, `timer` are the keep-alive intervals; `relaunching` and `registered`
the code's Set and Map; `hosted` the shell the one operator window mirrors.
Each sign-in makes a `TypeBuildTaskSource` of its own (`main.ts` 717-733), with
its own cache, timers and marks: sources have numbers, `current` is the one that
is registered, and what a source keeps is keyed by source and task (`Rows`).  A
launch belongs to the source that made it: its `onExit` and its keep-alive stay
with that one.  `SourceStops` is a sign-out and the next sign-in, of the same
account, in one step: the old source's timers end, the new one starts with an
empty cache, and shells, registry and marks stay.
`Start` and `ClaimRejected` are `runNow`, `Relaunch` is `relaunchSession`,
`Spawn`, `TakeOver`, `Decline` are `openBrowserWindow`, `GatePasses` and
`LaunchFails` the rest of the launcher, `Exits` and `HandleExit` the exit hook
and `onSessionExit` after its refresh.  The clock runs in half hours, and does
not pass a request, a mint or a gate, which take seconds; a dialog may stay
open.  What a teammate or the agent does with the task is `Elsewhere`.

### ChangeFeed, Breezed and the code

`ChangeFeed` keeps no numbers: only whether the daemon's `seq` is beyond 0
(`counted`), beyond the laptop's (`unseen`) and beyond the one in a reply on
its way (`after`), which is all the code compares.  `poll` is where the
laptop's request is, `failures` its count of failures in a row, `fresh` whether
it pulled its tasks since the last change.

`Breezed` has the loop (`phase`: sweep, claim, and the release of a browser
task), the runs in `Slots` (one more than the daemon may use: `MaxConcurrent`
is obeyed by `HasRoom`, not by construction), the agent's end, the three
awaits after it (track, report, finish), the heartbeat interval of every run
and the renewals on their way (`beats`), and the Stop hook's backstop.
`Restart` forgets the memory; renewals that were sent may still land.  The sweep
looks a task up (`SweepRead`) and acts on the answer later (`SweepTakes`), on
the entry of its snapshot: one that was tracked anew meanwhile goes with it.

### Auth and the code

A session, a stored token and a source are known by their account.  A refresh
is a record of where `doRefresh` is (`step`) and whose it is (`who`);
`inFlight` is `refreshInFlight`, which the `finally` of any refresh resets.
`coming` are the sign-ins whose answer is on its way, `saving` those being
written to the file.  `Notify` registers or
drops the source in the same step, as `main.ts` does.  A stream client `c` is
at one of the awaits of `connect()`; `halted` is its `stopped`, `armed` its
debounce timer.  The file's writes, removals and reads may fail, which the code
swallows (`auth.ts` 103-152): a failed write leaves the file as it was or
unreadable, a failed read is no token.  Two variables are history: `crossed`
(a sign-in or sign-out came while a refresh or a write of the file was under
way) and `unsaved` (the last write or removal of the file failed).

### Mirror and the code

A row has one field of each kind the code tells apart: `mine`, a routing field
that diffs and signatures compare and filters ask for, and `asked`, a pending
question, which neither sees.  `cache` and `skel` are the source's; `mirror[h]`
and `screen[h]` what the hook keeps and renders; `overlay` the pending patches
that all hooks share, `aged` those older than ten seconds; `calls`, `held`,
`peeks` what is on its way, `orphans` the list calls of a filter the hook left.  A peek whose hook was rendered with
another filter before the answer came stays in the queue without a hook, as the
code's `cancelled` flag leaves it: its answer is read and dropped.  An entry of
the overlay goes with the first hook that renders a row it agrees with; the
hooks render in any order, and `RendersAll` says what is left after all of them.
Every writer of the cache is an action with the broadcast the code sends:
`PollDelta`, `PollFull`, `OwnWrite`, `OwnDelete`, `Refreshed`, and the list
calls themselves.  `untold[h]` is history: rows whose last change `h` was not
told of in one of three ways the code has (see section 4).

### Tabs and the code

One action is one event with the reducer step and the render after it.  A
handler that dispatches after an await (`waiting`, `opening`) does so with the
index it saw, and `heard[p]` is the index the `onExit` of a mounted terminal
captured.  `:term-close` asks in a dialog, kills the shell it captured before
that and, when the kill has been answered, drops the terminal of the tab at the
index it captured (`AskCloseTerm`, `CancelCloseTerm`, `ConfirmCloseTerm`,
`TermKilled`); tab chords and what the main process sends go on meanwhile.
`stale` is history: an index that was captured (by a start, by the dialog, by a
mounted terminal) has come to mean another tab, or a shell was started for a
tab another start or `:term-close` was still to dispatch to.  The branch of
`closeTerminal` that removes a tab (`returnToTasksOnExit`, `store.tsx`
778-801) is left out because no state reaches it: its flag is set by
`App.tsx:930` when a session starts with a tab of kind "tasks" active; only the
reducer's `openTasksTab` makes such a tab, nothing dispatches it
(`fm:openTasksPage` opens New Home, `App.tsx` 1309-1317), and tabs are not
persisted.  Marks are known by the directory they are in; `strayed` are tabs
moved by the path bar or the quick find, which keep the marks.

### Editor and the code

A text is the set of edits it contains, the user's and others'.  The tab keeps
the code's refs: `buf` (what a save writes), `view` and `seed` (the text in the
widget, and what it was mounted with), `base` (for the dirty comparison),
`mtime` (what a save expects), `timer`, `dirty`.  `saves` are the doSave
calls under way, each at a step of the main process: write, last stat, and for
a dated note with a heading the walk over the names, the move and the stat
after it; `reads` are the file reads of a load, a reload and the watcher.
Others write between any two steps.  `asked` counts what the user does; a save
or a reload counts two.  History: `owed` are edits typed while no save or reload
was under way that the user has not taken out, agreed to lose or been told of.
`lost` are owed edits in a save that was refused, or failed, after the tab was
closed: `setStatusMsg` then reaches nobody (234-241).
`owed` leaves out an edit that the baseline wrongly has (`TakenForSaved`), and drops
those that a read removes which lands during a save or is of the path the tab
had before the note was named (`Overtaken`, `Stray`); section 6 has all three.
`known` are others' edits that the editor has shown, or that came
between a save's check and its last stat, where no check can see them.

## 3. Runs

| Run | Expected | Question |
|---|---|---|
| `poll_loop` | pass | all of the sync loop, with liveness and the refinement |
| `task_source` | pass | do lists and own writes leave only repairable differences? |
| `signed_out` | violated | does the disk stay empty after sign-out? |
| `scheduler` | pass | all of the scheduler, with liveness |
| `sessions` | pass | does a live session keep claim, window and registry entry through relaunch and takeover? |
| `breezed` | pass | are claims renewed in time and ended, and answered questions served? |
| `breezed_feed` | pass | does an attached laptop learn of every change? |
| `auth` | pass | do source, file and stream follow the session? |
| `mirror` | pass | do the lists show what they were told, and does an answered question stay answered? |
| `tabs` | pass | does every running shell have a tab, and are marks in view? |
| `editor` | pass | is typed text kept and saved, and others' text not dropped? |
| `editor_dirty` | violated | is a tab with unsaved changes marked so? |

Bounds and why they suffice:

- `poll_loop`: two tasks, one of which can be created and deleted; three
  server times, so that a write can fall before, between and after two pulls;
  a full pull after two deltas, so that both kinds and the counter's boundary
  occur; one fault, which can be a death at any point of a pass or an
  unreadable body, or else one press of "Sync now" (lost and refused answers
  are not counted and may come any number of times, and with `DiskFails` so may
  failed reads and writes of the disk).  A task is completed, reopened, or
  written so that only `at` moves (which leaves the signature as it is: that is
  what the short-circuit needs).  585,607 states.
- `task_source`: one task with three visible values ("open", held by this user,
  done), three server times, a full pull after each delta, and two events out
  of: list call, own write, fault, "Sync now".  Interference between a pull, a
  list and a write happens on one row.  The disk works (`DiskFails = FALSE`):
  both properties speak of the screen.  With a failing disk they hold as well,
  in an instance of two server times (2.1 million states, as many as the run).  A claim can be released, so that the
  row returns to a state whose signature was seen before.
- `scheduler`: a task that launches in a window and one without a folder, one
  remote schedule, two attempts, one slot, four run rows, one client call and
  one process death per behaviour.  A slot for one dispatch and two tasks is
  where waiting and overtaking happen; two attempts give a first, a retry and
  a last one.  With two client calls the safety properties hold as well (1.35
  million states); the run keeps to one for its liveness check.
- `sessions`: one task and three launches of it (a start, a relaunch, and a
  second start or relaunch beside them), claims that lapse after three units
  and are renewed after two, one sign-out and sign-in (`MaxSources`: two
  sources) at any point between the second launch and the third (`SignIns`), no
  launch that meets another one's open dialog (`Crowded`, see `NotStranded`
  below); 2.0 million states.  With the sign-in at any point at all everything
  holds, too (4.3 million).  What a
  second task adds is only contention for the window, by launches that no
  `relaunching` mark ties together; the theorems cover every set of tasks.
- `breezed`: one task, one slot and the second slot that must not be used;
  claims that lapse after three units, a heartbeat of two.  `breezed_feed`: two
  browser tasks, which the loop claims and gives back, with the laptop
  attached: the feed sees changes of both without the runs' state; three
  failures drop the source, as in the code.
- `auth`: one account, one refresh, two stream clients, so that one is stopped
  while the next one starts.  A refresh takes seconds and the next one is due
  an hour later: an instance that allows two at once reaches the same 51,694
  states.  The theorems cover several accounts.
- `mirror`: two tasks, two hooks of which one can switch its filter, a host
  that lists wait for, two changes at the server beyond what the user does, one
  waiting message more than the poll may add.
- `tabs`: two directories, a task, one shell, two tabs at a time and three
  made, one move; 1.5 million states.  Two instances with one directory and two
  shells were checked as well, one of two tabs with a move (6.1 million states)
  and one of three tabs without (837,805): there indices shift under two
  captured ones, and a tab may be given two shells.
- `editor`: the user's heading and one other edit; the text that was there and
  one an agent adds; four changes, two of them with a save or reload, or two
  of these; two saves under way (the second one is the flush of a close or a
  timer's, beside the naming of the first); one candidate name where the code
  tries 49, and one session of the tab.  Four changes are what it takes to type
  an edit during a save, take it out and type it again.  869,161 states.
  `Overlap` (":save" while a save is under way) is off in the run; the theorems
  hold with it on.

Type invariants that no run lists (`SourceTypeOK`, `BreezedTypeOK`,
`FeedTypeOK`, `MirrorTypeOK`, `EditorTypeOK`) were checked on the same instances
and hold; they document the state.

Deadlock is checked except in `scheduler`, `tabs` and the editor's runs, where
the system may really stop: nothing scheduled and no client left; all tabs and
moves used up; the tab closed and nobody else writing.

Fairness.  `poll_loop` assumes that of a start of the app, the interval timer and
the handler of an answer one that stays due happens (the timer's next ring
during a pass changes nothing, so that the others come, too), and (strong
fairness) that neither "no window" nor a failing network keeps every pass from
asking and being answered.  It assumes nothing of other writers: convergence is
claimed because their number is bounded, that is, once they pause.  `scheduler`
assumes that an armed Timeout fires and that awaits return, which includes
that agent processes end: the code has no timeout for them, so that part is an
assumption on the environment.  Interactive sessions may stay open for ever.
`breezed` assumes that its loop goes on, that a request is answered or times
out, that reading a task succeeds if it is tried again and again, and that time
passes; nothing makes an agent end, a user answer, or a report succeed.
`breezed_feed` adds that a tunnel does not swallow polls for ever without its
ssh giving up, and that a daemon that started again answers nobody who knows
its old port.
`auth` assumes that requests end, that a refresh and the stream's endpoint
succeed if they are tried again and again, and that timers fire.  `editor` assumes that the autosave timer fires and
the main process answers; nothing of the user, of others, or of the watcher,
which may fail silently.  `sessions`, `mirror` and `tabs` check safety only.

## 4. Properties worth reading

- `ImplementsReplica`: whatever the loop does with deltas, inventories, deaths
  and writes that fail, the screen takes only versions the server has or had,
  each at least as new as those it replaces on screen and on disk, and the disk
  takes only what the screen takes; a start shows what is on disk.
- `Repairable` is what lets the sync loop heal: if a row on screen differs from
  the server's and no later delta will carry it, then the remembered signature
  differs from the server's, so the next full pull is not short-circuited.
- `CursorSound`: every change up to the persisted cursor is on disk.  It holds
  in spite of deaths because the delta path advances the cursor last.  The
  full path advances it first.  `trusted` marks exactly when it is broken, until
  an inventory is on disk again: by a death in the full path's window, by an
  unreadable body, and by a write of the rows that fails.  The last needs no
  death: the failure is swallowed and the cursor advances all the same, although
  `typebuild.ts` 5832-5834 says "Advance the cursor LAST (after a successful
  apply)".  Then the screen is right and the disk is not, and stays so until an
  inventory with another signature is written: one with the remembered signature
  is short-circuited.  A start meanwhile shows the old rows, until the first full
  pull after it.  A
  cursor that is not written only makes the next delta longer.
- `SourceRepairable` weakens `Repairable` by what lists and own writes need: a
  refresh still under way, or one that failed (`unsure`).
- `SingleRunner`, `RecurringKept`, `DueIsServed` span the timer, the retry
  timers, the clients and the run table.  `RecurringKept` excuses exactly what
  a client gave up and what a death lost.
- `NotStranded`: a session that is up has its window, whatever is asked,
  declined, closed or taken over meanwhile, as long as no other launch reaches
  the window while a takeover dialog is open (`Crowded = FALSE`).  With
  `Crowded = TRUE` it fails: the dialog's answer goes to a window that has
  another session by then (section 6).
- `KeepAliveKept`, `RelaunchIsSilent`: the exit of the session a relaunch
  replaces neither disarms the renewals nor asks to release the claim, though
  it may come before, during or after the new one's launch, or after a sign-out
  and sign-in - if one source launched both.  When the source of a later sign-in
  relaunches a session of an earlier one, the mark is in the new source's set
  and the exit comes to the old one, which asks (section 6); `Continues` says
  which relaunches the properties are about.
- `StrandedEnds`: a claim of the daemon's that no run stands behind does not
  stay, whichever of report, reply, renewal and restart was lost or late.
  `BeatInTime` is the other half: a run that is renewed does not lapse.
- `ChangeReachesLaptop`: through polls that time out, fail, or are answered
  while the next change is made, and a daemon that counts from 0 again.
- `SourceFollows`, `StoredFollows`: a source is registered exactly when there is
  a session, and with a session the file has its account's newest token, outside
  the crossings that `crossed` names.  A write or removal of the file that fails
  (`unsaved`) excuses only the file, until the next one: after a refused write
  "it just won't survive a restart" (`auth.ts` 109-110), or restores an older
  token or account; after a removal that failed the next start signs in again.
- `MirrorTold`: when nothing is on its way a list equals the cache, but for the
  rows `untold` names: a diff that left out a change of their text, a list call
  that replaced the cache under other hooks, an old list that waited for a host.
- `NoOrphan`, `MarksInView` say what dispatches with old indices may not do, up
  to `stale` and `strayed`, which name the ways the code does it.  `stale` also
  covers the dialog of `:term-close`: behind it the shell may end and another be
  started, which the confirmation drops unseen, or a tab to the left may close,
  so that the confirmation takes another tab's terminal.
- `TypedKept`, `NoClobber`, `SavedOrTold`: the editor's promise to the user, to
  other programs, and that it is kept in the end.  Two of them except `lost`: the
  flush of a closing tab that is refused loses its text and nobody is told,
  although the flush is there "so we don't lose the last few keystrokes if the
  user closes the tab quickly" (`EditShell.tsx` 322-323).  Text typed while a save or
  reload is under way is excepted, too: `editor_dirty` shows what happens to it.  So
  is what such a save leaves behind it (`TakenForSaved`): only behaviours of four
  changes and more have it.

## 5. What is proved

For all sets of tasks, rows, accounts, hooks, directories and values and for all
bounds, from the assumptions that the modules name: `ConstantsAssumption` and
`NoRowAssumption` of `DeltaPoll`, `SourceAssumption` of `TaskSource`,
`SchedulerAssumption`, `NoTaskAssumption` and `NoRowAssumption` of `Scheduler`,
`SessionsAssumption`, `AuthAssumption`, `BreezedAssumption`,
`FailuresAssumption` of `ChangeFeed`, `MirrorAssumption` and `RowAssumption` of
`Mirror`, `TabsAssumption`, `EditorAssumption` and `NoneAssumption` of `Editor`.
They say that bounds are numbers, that a "none" is
none of the values, that the sets a proof counts are finite, that at least one
task of the server is never deleted (`Anchor`), and a fact of the code: claims
are renewed more often than they lapse (`KeepAlive < Ttl`, `Heartbeat < Ttl`: 90
minutes against two hours).

| Theorem | Statement |
|---|---|
| `TypeCorrect` | `Spec => []TypeOK` |
| `OnePassAtATime` | `Spec => []SingleFlight` |
| `TriggersAreServed` | `Spec => []NoTriggerLost` |
| `CursorNeverAhead` | `Spec => []CursorSound` |
| `DivergenceIsRepairable` | `Spec => []Repairable` |
| `RowsNeverOlder` | `Spec => NeverOlder` |
| `CompletionsAreNews` | `Spec => CompletionIsNews` |
| `RejectionsAreHonest` | `Spec => []SyncRejectHonest` |
| `LoopImplementsReplica` | `Spec => ImplementsReplica` |
| `SourceTypeCorrect` | `SourceSpec => []SourceTypeOK` |
| `StaysRepairable` | `SourceSpec => []SourceRepairable` |
| `RejectionsStayHonest` | `SourceSpec => []SyncRejectHonest` |
| `SchedulerTypes` | `SchedSpec => []SchedTypeOK` |
| `OneRunPerTask` | `SchedSpec => []SingleRunner` |
| `TimerNeverLost` | `SchedSpec => []TimerArmed` |
| `RecurringIsKept` | `SchedSpec => []RecurringKept` |
| `ClearedStaysCleared` | `SchedSpec => ClearedStays` |
| `SessionTypes` | `Spec => []SessTypeOK` |
| `RegistryIsTrue` | `Spec => []RegistryTrue` |
| `NobodyStranded` | `~Crowded` implies `Spec => []NotStranded` |
| `RenewalsInTime` | `Spec => []RenewedInTime` |
| `SilentRelaunch` | `Spec => RelaunchIsSilent` |
| `RenewalsKept` | `Spec => KeepAliveKept` |
| `AuthTypes` | `Spec => []AuthTypeOK` |
| `ClientsStayDown` | `Spec => []StoppedStaysDown` |
| `SourceFollowsSession` | `Spec => []SourceFollows` |
| `FileFollowsSession` | `Spec => []StoredFollows` |
| `StreamNeverRests` | `Spec => []ChangeInHand` |
| `ClaimsAreBeaten` | `Spec => []BeatInTime` |
| `BreezedTypes` | `Tasks # {}` implies `Spec => []BreezedTypeOK` |
| `RunsAreLimited` | `Spec => []WithinLimit` |
| `ChangesAreNoticed` | `Spec => []NothingMissed` |
| `MirrorTypeCorrect` | `Spec => []MirrorTypeOK` |
| `ListsShowTheCache` | `Spec => []MirrorTold` |
| `AnswersStayHidden` | `Spec => []AnsweredHidden` |
| `TabsAreTyped` | `Spec => []TabsTypeOK` |
| `NoShellIsOrphaned` | `Spec => []NoOrphan` |
| `MarksStayInView` | `Spec => []MarksInView` |
| `EditorTypeCorrect` | `Spec => []EditorTypeOK` |
| `TypedStays` | `Spec => []TypedKept` |
| `NothingClobbered` | `Spec => NoClobber` |
| `EditsAreInHand` | `Spec => []EditInHand` |

The sync loop.  The inductive invariant is `SyncInv` of `DeltaPollProofs`.  The safety
properties are not inductive by themselves, because an answer is computed in
one step and applied in a later one.  `SyncInv` therefore speaks about the
answers in flight:

- `Synced`: while the app runs the signature is either the initial one or that
  of the cache (the skeleton may hold other rows: a write of it may fail);
- `ServerSound`: no time on the server is ahead of its clock, nor is the cursor;
- `DeltaSound`: a delta answer under way, applied to the disk, covers every
  change up to the time it carries, because it was asked for with the present
  cursor and only one is under way;
- `InventorySound`: the same for a full answer, by itself;
- `Versions`: neither the cache nor the disk has a newer version of a row than
  the server, nor than an answer under way.

Single flight carries the rest: with two answers under way neither `DeltaSound`
nor `Versions` would survive handling one of them.  The step lemmas are one per
action; steps that leave server and disk alone share the lemma `CalmStep`.
The two action properties follow from the invariant by one more pass over the
actions.

The refinement.  `LoopImplementsReplica` maps every step of the loop to a step of
`Replica` or a stutter.  `Replica` lets a row on screen become any version the
server has or had that is no older than the screen's and the disk's, so each
answer has to be shown to carry such versions for both; what
`SyncInv` lacks for that is the deleted tasks, and `Outlived` adds it: a version
of a task that the server deleted, on disk or in an answer under way, was
written before the deletion.  The deaths in the middle of a pass are `Stop`
steps, and the start shows the copy whatever the server is by then.

The other writers.  In `TaskSource` the cursor may be ahead of the disk and rows
may go back, since a list may be answered before a pull and applied after it.
What survives is `InStep`: the signature is the initial one or that of the rows
on screen, or the refresh of an own write is under way or failed.  Since the
server is never empty (`Anchor`), a signature that equals the server's is then
that of the rows on screen.  Nothing is needed of the order in which the
server's values change.  `WritesCounted` (each own write is refreshed after at
most once) is what keeps a refresh's number within its bound.

The scheduler.  The inductive invariant is `SchedInv` of `SchedulerProofs`.
That two runs of one task never meet does not follow from the guard of
`executeTaskRun` alone: the guard looks at rows, and a retry goes past it.
`SchedInv` therefore says who holds what:

- `OneOwner`: a dispatch or run that has a row, and a pending retry, hold their
  task and their row; no two hold the same task or the same row; the row is in
  the table and names that task for as long as the task exists, and a task that
  is gone was deleted, so its id does not come back;
- `TabsApart`: the rows of interactive sessions, and of launches on their way
  to one, belong to none of these, so that the exit of a session frees no row
  of a run;
- `Down`: nothing is in memory while the app is down, so that `reapStaleRuns`
  takes nobody's row;
- `Keys`: an overlay key is in flight for as long as its dispatch lasts.

Even the types need it: a run that ends well writes its task's status, and that
the task is still there follows from its row.  `HeldEnd`, `HeldMove` and
`HeldBegin` show it for the three ways a dispatch changes, and each action is
one of them.  `TimerArmed` is inductive with the types alone.  `RecurringKept`
is proved through `Kept`, which says the same of closed tasks too, since a
client may open one again.

The sessions.  `SessTypes` (an age is below the time at which claims lapse) and
the registry are inductive by themselves.  `NotStranded` needs `Windows`: a
takeover dialog is about the session that the window shows, and there is one
dialog; under `~Crowded` no launch can change either while it is open.  The two
action properties are about the one flag by which exits of an old and a new
session are told apart, and need to know who set it: `Begun` (what has begun
and not ended), `Replaced` (a session is replaced once, and does not run after)
and `Marked` (the mark outlives the exit of the session that is replaced, and no
other relaunch of the task can take it away).  All three are about the launches
of one source: the marks and timers of another one are other rows, and a
sign-in, which adds a source, leaves them alone.

Sign-in.  The state has two halves that only meet in `Notify`.  For the source
and its stream clients `Stopped` says that every client but the source's own was
stopped.  For the session, `Sound` says what each await of a refresh may rely on
while no sign-in or sign-out crossed it (`~crossed`): one of them at a time
(`Alone`), the file as new as the session unless it is being written or the last
write failed (`Kept`),
and at each of its steps what the refresh knows of session, file and source
(`RefreshSound`).  `ChangeInHand` is the safety behind `StreamCatchesUp`: a source
that is behind has a client that is at work.  It needs `Awaited`: a `getToken()`
waits for a refresh that goes on, and not for that of `restoreSession()`, which
wakes nobody.

breezed.  `BeatInTime` is inductive with the types and `RunsBeat`: the heartbeat of
a run is armed for as long as the run lasts, which no other run, report, restart
or lost reply about the same task changes.  `WithinLimit` counts runs against
`MAX_CONCURRENT`.  `NothingMissed` is the safety behind `ChangeReachesLaptop`: a
laptop that has not pulled since the last change knows an older number than the
daemon, or a daemon that is gone.  `FeedSound` says what it rests on: a poll that
waits knows the daemon's number, and a reply without news is behind once a
change was made after it.

The lists.  `MirrorTold` speaks of hooks with nothing on their way.  `Told` says the
same while peeks are: a row that was announced is shown already, or a peek that
names it is under way.  `Filtered` (what was told of passes the hook's filter),
`AskedByAll` (peeks are for hooks without a filter) and `RemovedGone` (what a
diff removed does not come back) carry it through the peeks' answers, which are
merged in the order they were asked for.  `AnsweredHidden` needs the closed form
of what is left of the overlay after all hooks rendered, for every order.

The tabs.  The tabs do not depend on the shells; `TabsKnown` (an id is given once,
and all that a tab can go back to is a directory) carries `MarksInView`.  The
shells depend on the tabs only through the terminal of each: while no captured
index went stale, a shell on its way goes into a tab that has none and is the
only one (`Awaited`), a mounted terminal closes its own tab's (`Mounted`), and
the closed tab's shell was killed (`ClosedShell`).  `CloseInv` says of a
`:term-close` from its dialog to its dispatch that the tab at its index has the
shell it was asked for or none (`Closing`), and, once confirmed, that this shell
does not run.

The editor.  `EditorInv` of `EditorProofs` says first what can be said of the parts
alone: `Stamped` (an answer or a save whose stamp the file still has is about
the text that is there), `Placed` (where the tab, the saves and the reads are
while a note gets its name) and `Marked` (what the dirty mark and the timer say
of the buffer).  `Noted` carries `NoClobber`: whatever a save may replace without
its check seeing it was on the screen or came between check and last stat.
`TypedKept` needs `Kept` of every owed edit that is not `lost`: not only where it is, but that
every answer under way leaves it there.  `Carries` says that a save which was not
refused has the edit, and what of it is on disk after each step; `InSight` that the
widget shows it, or will be mounted again by the read that brings it; `Underway`
that an edit only the buffer has is in every save under way; `Behind` that a
buffer without it is older than the file that has it, so that every save of that
buffer is refused; `Vouched` that what counts as saved, or is given up for what
is on disk, is not missing there.  `EditInHand` adds what will act: an owed edit that is not
on disk has a timer that is due or a save that carries it, or the user was told.
With `Kept` such an edit is in the buffer and not in the baseline, so the tab is
dirty; `SavingMarked` (no due timer was set under a save) does the rest.

Only model-checked: liveness (`Converges`, `DueIsServed`, `StrandedEnds`,
`AnsweredIsServed`, `ChangeReachesLaptop`, `StreamCatchesUp`, `SavedOrTold`),
which is out of the prover's reach.  What has to hold in every state for it is
proved: `TimerArmed` and `RecurringKept` for `DueIsServed`, `Repairable` for
`Converges`, `BeatInTime` for the claims, `NothingMissed`, `ChangeInHand` and
`EditInHand` for the last three.  `WithinLimit` and these three are defined beside
their proofs and are in no run; TLC checked them as invariants of the same
instances.

## 6. Where code and documentation disagree

Two runs are violated, each with an entry under `findings` with the quoted claim:

1. `signed_out`: an answer that arrives after sign-out writes the old account's
   rows and cursor back to disk.
2. `editor_dirty`: what is typed while a save is under way is taken for saved
   when it is answered: unmarked, with no timer, and overwritten by the refresh
   that the tab's own save triggers.

The models below have these behaviours too; they are stated in no run because
no property is worth its run for each of them.

Sync and tasks: rows that could not be written are passed over by the cursor
(`typebuild.ts` 1160-1177 against 5832-5834); a full pull whose signature equals the remembered one drops a
change of another field (`typebuild.ts:5757`, `docs/typebuild-delta-sync.md`
49-51); a 200 with an unreadable body empties the list (5746, same document
67-68); "Sync now" counts a refused pull, and one asked for before the click
(5421 against 5413-5418); a text-only change is left out of a diff that names
other rows (5723 against `tasks.ts` 134-136); a list of one filter replaces the
whole cache (1306); an own write whose refresh fails leaves its patched row when
the server takes the change back before the next pull, whose signature then
equals the remembered one.

Scheduler: a recurring task that ran when the process died never fires again
(`scheduler.ts:263` against 13-15); a stopped run is retried (325 against
`execute.ts` 232-233); a run that throws after its row was written leaves a
live row that blocks the task (`execute.ts:198`); retries ignore the limit on
concurrent runs and whether the task is still wanted (346); reopening a
recurring task leaves it without a fire time (`tasks.ts:698`).

Sessions: a takeover dialog that is answered after a second one has changed the
window leaves a live session without it (`window.ts` 174, 230-237); the shell of
a relaunch may end while its takeover dialog is open, and its exit is then that
of no session; sign-out drops the keep-alive of live sessions, and the source of
the next sign-in does not take it up; when that source relaunches one of them,
the exit of the replaced session finds no mark at its own source and asks to
release the claim the new session works on (`typebuild.ts` 4719 and 4941
against 990-994).

breezed: a completed task is flagged by the Stop-hook backstop when the hook
read it before (`claude-stop-backstop.ts` 25-27, `breezed.ts` 179-182); a run
parked on a question that exits well is reported complete, and one that does
not is released and may be claimed while its session is resumed; a run that
parks anew while the sweep looks its task up is forgotten with the old entry
(`resume-on-answer.ts` 119-136); a disconnect
while connecting is ignored (`sources.ts:179`); a tunnel that swallows polls is
never counted as a failure (144); a daemon restart detaches the laptop until
somebody connects again.

Authentication: a refresh that lands after sign-out revives the session
(`auth.ts` 341-348); any refusal of a refresh signs out (318-323); a sign-in of
another account that crosses a refresh leaves the source with the old one
(`typebuild.ts` 5431-5437, `main.ts` 717-718); a removal of the token file that
fails is swallowed, and the next start restores the account that signed out
(`auth.ts` 140-152 against 295).

Tabs: a terminal's `onExit` keeps the index of its mount and closes another
tab's terminal (`TerminalSplit.tsx:56` against 11-12); the path bar and the
quick find keep the marks (`App.tsx` 1514, 2281 against `store.tsx` 1268-1269);
a shell started twice for one tab loses the first; `:term-close` drops whatever
terminal has the index when its dialog is confirmed (`ChipPrompt.tsx` 1600-1611);
`openPath` moves whichever
tab is active after its stat; a restored tab has a dead shell, and can double a
task's tab.

Editor: a save before the load has answered, or after it failed, writes an
empty file with no check (`EditShell.tsx:225`); a reload to a text equal to the
seed leaves the discarded text in the widget (380, 693); the flush when a note
gets its name writes the old path again (322-333); the last stat of a save
adopts another program's mtime (`ipc.ts` 2059, `EditShell.tsx` 297); a flush
on closing that conflicts or fails loses the text unseen (234-241 against
322-323), and one after "Discard" saves;
Cmd-W closes a dirty tab without asking; a doSave that outlives its tab
dispatches to an old index (302); a reload's answer takes edits typed since; an
edit typed during a save, taken out after it and typed again equals the baseline
the save's answer set, so it has no mark and no timer, and closing loses it
(208, 243); a refresh or reload asked for before a note got its name and
answered after it gives the buffer the old path's text (449-464, 371-388).

## 7. Not modelled

- `Mirror` leaves out new tasks, text search, and the overlay entries of the
  verbs other than an answer, which take the same path; what becomes of the
  lists at sign-out.
- `Tabs` leaves out browser, chat and filter tabs, and badges.  A session that
  starts always gets a tab there (`SessionStarts`); in the code one that mirrors
  the operator window gets none (`App.tsx` 906-912), and its shell is that
  window's, in `Sessions`.
- `Editor` leaves out the rich editor's own debounce of 200 ms, a second editor
  on the file, the window's closing and files that others delete.  Writes there
  are more than a millisecond apart: the check tolerates less (`ipc.ts:2048`).
  The closure a save runs in may be of the mount, when the home directory that
  naming needs was not yet known, or a later one: both are allowed (`names`).
- `Auth` and `Sessions` leave out the caches of minted tokens and the clock of
  their expiry; `ChangeFeed` has one host, and leaves out which are persisted.
- The composer (`TaskComposer.tsx`), the prompt's command line
  (`ChipPrompt.tsx`), the task drawer, projects, roster and settings: these are
  most of the repository's lines and are layout, text handling and calls whose
  effect is in the models above.  The file operations, previews and search of
  `ipc.ts` are calls of the operating system with nothing shared between them.
  A model of them would restate them line by line; the models cover the parts
  that keep state several actors work on, a small share of all lines.
- The PHI store (titles at rest, which no sync decision reads), reminders (a
  pure function, unit-tested), the projects resolver (pure, unit-tested), the
  operator browser's tools (their behaviour is that of the pages), installation
  over ssh, packaging, platform adapters and model calls.
- Cron arithmetic beyond "there is a next fire or the expression is invalid".
  Statuses are reduced to pending, done and cancelled in `Scheduler`; of error
  classes it keeps whether a failure is retried.  Two app profiles on one
  account are two schedulers over two databases and share nothing modelled.
- Disk faults other than those of the skeleton, the cursor and the token file.  In
  `Mirror` the skeleton is always written.

## 8. Plan

1. What stands behind `AnsweredIsServed` and `StrandedEnds` of `Breezed` in every
   state: a parked session is in the next sweep, a claim without a run ages.
