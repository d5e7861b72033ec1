-------------------------------- MODULE Tabs --------------------------------
(***************************************************************************)
(* The tabs of a Breeze window and the shells that run in them: the        *)
(* reducer of the renderer's store (src/store.tsx) with the handlers that  *)
(* dispatch to it, the terminal layer (src/components/TerminalSplit.tsx,   *)
(* Terminal.tsx) and the pty registry of the main process (electron/ipc.ts *)
(* spawnManagedPty, term:kill).                                            *)
(*                                                                         *)
(* A handler dispatches with the tab index it saw; the index may be old    *)
(* when the dispatch comes after an await, or from a callback registered   *)
(* once when a terminal was mounted.  A step is one event and the render   *)
(* after it.                                                               *)
(*                                                                         *)
(* Directories are model values; the marked entries of a tab are known by  *)
(* the directory they are in.                                              *)
(***************************************************************************)
EXTENDS Naturals, FiniteSets, Sequences, SequencesExt

CONSTANTS
    Dirs,      \* directories
    Tasks,     \* tasks whose tab can be opened
    Ptys,      \* shells that may be spawned
    MaxTabs,   \* bound: tabs at once
    MaxMade,   \* bound: tabs opened
    MaxMoves,  \* bound: moves to another directory, but for those back and forth
    None       \* no task, no shell, no closed tab, no dialog

ASSUME TabsAssumption ==
    /\ IsFiniteSet(Dirs) /\ Dirs # {} /\ IsFiniteSet(Tasks) /\ IsFiniteSet(Ptys)
    /\ MaxTabs \in Nat \ {0} /\ MaxMade \in Nat \ {0} /\ MaxMoves \in Nat
    /\ None \notin Tasks \union Ptys

\* What a call on the shell of a tab captured: the shell and the tab's index.
Call == [pty : Ptys, at : Nat]

Tab == [id : 1..MaxMade, kind : {"folder", "task", "newhome"}, task : Tasks \union {None},
        trail : Seq(Dirs), back : Seq(Seq(Dirs)), forward : Seq(Seq(Dirs)),
        marks : SUBSET Dirs, term : Ptys \union {None}]

VARIABLES
    tabs,     \* state.tabs
    active,   \* state.activeTab
    closed,   \* state.lastClosedTab
    shell,    \* of a shell: not spawned, running, killed or gone
    waiting,  \* termSpawn calls that wait, with the tab index captured
    heard,    \* of a mounted terminal: the index its onExit was made with
    asked,    \* the dialog of :term-close, with the shell and the index captured
    ending,   \* confirmed ones that await termKill
    opening,  \* directories openPath() awaits the stat of
    made,     \* tabs opened so far
    moves,    \* moves so far
    stale,    \* history: a captured index has come to mean another tab, or shell
    strayed   \* history: tabs moved in place with entries marked

closeVars == <<asked, ending>>
termVars == <<shell, waiting, heard, stale, closeVars>>
moveVars == <<opening, moves, strayed>>
vars == <<tabs, active, closed, made, termVars, moveVars>>

TabsTypeOK ==
    /\ tabs \in Seq(Tab) /\ active \in DOMAIN tabs
    /\ \A i, j \in DOMAIN tabs : tabs[i].id = tabs[j].id => i = j
    /\ \A i \in DOMAIN tabs : tabs[i].trail # <<>>
    /\ closed \in Tab \union {None}
    /\ shell \in [Ptys -> {"new", "running", "killed", "gone"}]
    /\ waiting \subseteq Call /\ ending \subseteq Call
    /\ asked = None \/ asked \in Call
    /\ heard \in [Ptys -> Nat]
    /\ opening \subseteq Dirs
    /\ made \in 1..MaxMade /\ moves \in 0..MaxMoves
    /\ stale \in BOOLEAN /\ strayed \subseteq 1..MaxMade

-----------------------------------------------------------------------------
(* The reducer.                                                            *)

Leaf(tab) == Last(tab.trail)
Here == tabs[active]

makeTab(id, kind, task, dir) ==
    [id |-> id, kind |-> kind, task |-> task, trail |-> <<dir>>,
     back |-> <<>>, forward |-> <<>>, marks |-> {}, term |-> None]

\* newTab: the tab goes last and gets the focus.
NewTab(kind, task, dir) ==
    /\ Len(tabs) < MaxTabs /\ made < MaxMade
    /\ made' = made + 1
    /\ tabs' = Append(tabs, makeTab(made', kind, task, dir))
    /\ active' = Len(tabs) + 1

\* openTaskTab, openNewHomeTab, openOrFocusFolderTab: the first tab that is
\* the one asked for is focused, else a new one is opened.
Focuses(i) == active' = i /\ UNCHANGED <<tabs, made>>

OpenOrFocus(same, kind, task, dir) ==
    \/ \E i \in same : (\A j \in same : i <= j) /\ Focuses(i)
    \/ same = {} /\ NewTab(kind, task, dir)

\* openTaskTab: a tab per task.
OpenTaskTab(t) ==
    \E dir \in Dirs :
        OpenOrFocus({i \in DOMAIN tabs : tabs[i].kind = "task" /\ tabs[i].task = t},
                    "task", t, dir)

\* updateTab
Update(i, tab) == tabs' = [tabs EXCEPT ![i] = tab]

\* closeTerminal of index i, over the tabs ts; no tab, no change.  The way back
\* to a tab of all tasks (returnToTasksOnExit) is taken by shells started from
\* such a tab, and nothing opens one (App.tsx onOpenTasksPage, "SUPPRESSED").
WithoutTerm(ts, i) == IF i \in DOMAIN ts THEN [ts EXCEPT ![i].term = None] ELSE ts

Shows(ts, p) == \E i \in DOMAIN ts : ts[i].term = p

\* The render after an event: a terminal no tab has any more is unmounted.
Unmounts(h) == heard' = [p \in Ptys |-> IF Shows(tabs', p) THEN h[p] ELSE 0]

\* Mutated form: the index that has the focus is kept.
FocusStays(n) == active

\* closeTab: the index that has the focus among the n tabs that are left.
FocusAfter(n) == IF active < n THEN active ELSE n

-----------------------------------------------------------------------------
(* Opening, selecting and closing tabs.                                    *)

\* The window opens on the task home, or on a folder without task management.
Init ==
    /\ \E kind \in {"newhome", "folder"}, dir \in Dirs :
           tabs = <<makeTab(1, kind, None, dir)>>
    /\ active = 1 /\ made = 1 /\ closed = None
    /\ shell = [p \in Ptys |-> "new"] /\ waiting = {} /\ heard = [p \in Ptys |-> 0]
    /\ asked = None /\ ending = {}
    /\ opening = {} /\ moves = 0
    /\ stale = FALSE /\ strayed = {}

\* Cmd-T and the + button.
OpenFolder ==
    /\ NewTab("folder", None, Leaf(Here))
    /\ UNCHANGED <<closed, termVars, moveVars>>

OpenTask(t) ==
    /\ OpenTaskTab(t)
    /\ UNCHANGED <<closed, termVars, moveVars>>

OpenHome ==
    /\ OpenOrFocus({i \in DOMAIN tabs : tabs[i].kind = "newhome"},
                   "newhome", None, Leaf(Here))
    /\ UNCHANGED <<closed, termVars, moveVars>>

Select(i) ==
    /\ i # active /\ active' = i
    /\ UNCHANGED <<tabs, closed, made, termVars, moveVars>>

\* Calls on the shell of a tab that will dispatch with the index they captured,
\* or that the open dialog will make.
Calls == waiting \union ending \union (IF asked = None THEN {} ELSE {asked})

\* An index another tab has from now on, or none: those captured beyond the
\* tab that is closed, and of those of a call its own.
Outdates(i) ==
    \/ \E c \in Calls : c.at >= i
    \/ \E j \in DOMAIN tabs : tabs[j].term # None /\ heard[tabs[j].term] > i

\* Mutated form: the tab goes and its shell goes on.
LeftRunning(p) == shell

\* termKill of the shell in a tab, if there is one.
Killed(p) ==
    IF p = None \/ shell[p] # "running" THEN shell ELSE [shell EXCEPT ![p] = "killed"]

\* The close buttons and Cmd-W: the shell in the tab is killed first.
Close(i) ==
    /\ Len(tabs) > 1
    /\ shell' = Killed(tabs[i].term)
    /\ tabs' = RemoveAt(tabs, i)
    /\ active' = FocusAfter(Len(tabs) - 1)
    /\ closed' = tabs[i]
    /\ Unmounts(heard)
    /\ stale' = (stale \/ Outdates(i))
    /\ UNCHANGED <<made, waiting, closeVars, moveVars>>

\* Cmd-Shift-T: the tab as it was, with an id of its own; a terminal in it is
\* mounted anew.
Restore ==
    /\ closed # None /\ Len(tabs) < MaxTabs /\ made < MaxMade
    /\ made' = made + 1
    /\ tabs' = Append(tabs, [closed EXCEPT !.id = made'])
    /\ active' = Len(tabs) + 1
    /\ closed' = None
    /\ heard' = [p \in Ptys |-> IF p = closed.term THEN Len(tabs) + 1 ELSE heard[p]]
    /\ strayed' = IF closed.id \in strayed THEN strayed \union {made'} ELSE strayed
    /\ UNCHANGED <<shell, waiting, closeVars, stale, opening, moves>>

-----------------------------------------------------------------------------
(* Shells.                                                                 *)

\* spawnTerminal() for the tab at index i; its result is awaited.
Spawns(i) ==
    \E p \in Ptys :
        /\ shell[p] = "new"
        /\ shell' = [shell EXCEPT ![p] = "running"]
        /\ waiting' = waiting \union {[pty |-> p, at |-> i]}
        /\ stale' = (stale \/ \E c \in Calls : c.at = i)
        /\ UNCHANGED <<heard, closeVars>>

\* :term, and the button of a task tab; a terminal that is open is enough.
StartTerm ==
    /\ Here.term = None
    /\ Spawns(active)
    /\ UNCHANGED <<tabs, active, closed, made, moveVars>>

\* "Open terminal" in the row of a task: its tab is opened or focused.
StartTaskTerm(t) ==
    /\ OpenTaskTab(t)
    /\ tabs'[active'].term = None
    /\ Spawns(active')
    /\ UNCHANGED <<closed, moveVars>>

\* "Resume in a tab" of a run.
StartResume(dir) ==
    /\ NewTab("folder", None, dir)
    /\ Spawns(active')
    /\ UNCHANGED <<closed, moveVars>>

\* openTerminal: the shell is shown in the tab that has the index now, in the
\* place of one that is there; without such a tab nothing shows it.
OpenTerminal(p, i) ==
    IF i \in DOMAIN tabs
    THEN Update(i, [tabs[i] EXCEPT !.term = p]) /\ Unmounts([heard EXCEPT ![p] = i])
    ELSE UNCHANGED <<tabs, heard>>

Spawned(w) ==
    /\ waiting' = waiting \ {w}
    /\ OpenTerminal(w.pty, w.at)
    /\ UNCHANGED <<active, closed, made, shell, stale, closeVars, moveVars>>

\* The shell could not be started.
SpawnFails(w) ==
    /\ shell[w.pty] = "running"
    /\ waiting' = waiting \ {w} /\ shell' = [shell EXCEPT ![w.pty] = "gone"]
    /\ UNCHANGED <<tabs, active, closed, made, heard, stale, closeVars, moveVars>>

\* tasks:interactiveRun: a session the main process started gets a tab, but for
\* those whose shell is in the operator window, which are not among these.
SessionStarts(dir) ==
    /\ \E p \in Ptys :
           /\ shell[p] = "new"
           /\ shell' = [shell EXCEPT ![p] = "running"]
           /\ Len(tabs) < MaxTabs /\ made < MaxMade
           /\ made' = made + 1
           /\ tabs' = Append(tabs, [makeTab(made', "folder", None, dir) EXCEPT !.term = p])
           /\ active' = Len(tabs) + 1
           /\ heard' = [heard EXCEPT ![p] = Len(tabs) + 1]
    /\ UNCHANGED <<closed, waiting, stale, closeVars, moveVars>>

\* term:exit, also of a shell that was killed.  A mounted terminal of this
\* shell calls the onExit it was mounted with: closeTerminal of that index.
Exits(p) ==
    /\ shell[p] \in {"running", "killed"}
    /\ shell' = [shell EXCEPT ![p] = "gone"]
    /\ tabs' = IF Shows(tabs, p) THEN WithoutTerm(tabs, heard[p]) ELSE tabs
    /\ Unmounts(heard)
    /\ UNCHANGED <<active, closed, made, waiting, stale, closeVars, moveVars>>

\* :term-close asks first, in the one dialog of the window; tab chords and what
\* the main process sends go on behind it.
AskCloseTerm ==
    /\ Here.term # None
    /\ asked' = [pty |-> Here.term, at |-> active]
    /\ UNCHANGED <<tabs, active, closed, made, shell, waiting, heard, stale, ending, moveVars>>

CancelCloseTerm ==
    /\ asked # None
    /\ asked' = None
    /\ UNCHANGED <<tabs, active, closed, made, shell, waiting, heard, stale, ending, moveVars>>

\* The shell that was in the tab when it was asked is killed.
ConfirmCloseTerm ==
    /\ asked # None
    /\ shell' = Killed(asked.pty)
    /\ ending' = ending \union {asked} /\ asked' = None
    /\ UNCHANGED <<tabs, active, closed, made, waiting, heard, stale, moveVars>>

\* Then the terminal of the tab that has the index by now is dropped.
TermKilled(c) ==
    /\ ending' = ending \ {c}
    /\ tabs' = WithoutTerm(tabs, c.at)
    /\ Unmounts(heard)
    /\ UNCHANGED <<active, closed, made, shell, waiting, stale, asked, moveVars>>

-----------------------------------------------------------------------------
(* Moving about in a folder tab.                                           *)

\* Mutated form: the marks are kept on a change of directory.
Unwiped(tab) == tab

\* Marks are scoped to the directory: every change of it wipes them.
Wiped(tab) == [tab EXCEPT !.marks = {}]

Moves == moves < MaxMoves /\ moves' = moves + 1

\* The trail is left behind on the back stack, the forward stack is cleared.
Goes(tab, trail) ==
    [Wiped(tab) EXCEPT !.trail = trail, !.back = Append(@, tab.trail), !.forward = <<>>]

Settles == strayed' = strayed \ {Here.id}

\* navigateTo: another kind of tab leaves it to a folder tab.
NavigateTo(dir) ==
    /\ Moves
    /\ IF Here.kind = "folder"
       THEN Update(active, Goes(Here, <<dir>>)) /\ Settles /\ UNCHANGED <<active, made>>
       ELSE /\ OpenOrFocus({i \in DOMAIN tabs : tabs[i].kind = "folder" /\ Leaf(tabs[i]) = dir},
                           "folder", None, dir)
            /\ UNCHANGED strayed
    /\ UNCHANGED <<closed, opening, termVars>>

\* openPath on a directory: the stat is awaited, then the tab that is active
\* by now goes there.
OpenPath(dir) ==
    /\ Here.kind = "folder" /\ Moves
    /\ opening' = opening \union {dir}
    /\ UNCHANGED <<tabs, active, closed, made, strayed, termVars>>

Opened(dir) ==
    /\ opening' = opening \ {dir}
    /\ Update(active, Goes(Here, Append(Here.trail, dir))) /\ Settles
    /\ UNCHANGED <<active, closed, made, moves, termVars>>

\* The directory was removed meanwhile.
OpenFails(dir) ==
    /\ opening' = opening \ {dir}
    /\ UNCHANGED <<tabs, active, closed, made, moves, strayed, termVars>>

GoBack ==
    /\ Here.back # <<>>
    /\ Update(active, [Wiped(Here) EXCEPT !.trail = Last(Here.back), !.back = Front(@),
                                          !.forward = <<Here.trail>> \o @])
    /\ Settles
    /\ UNCHANGED <<active, closed, made, opening, moves, termVars>>

GoForward ==
    /\ Here.forward # <<>>
    /\ Update(active, [Wiped(Here) EXCEPT !.trail = Head(Here.forward), !.forward = Tail(@),
                                          !.back = Append(@, Here.trail)])
    /\ Settles
    /\ UNCHANGED <<active, closed, made, opening, moves, termVars>>

\* goLeft: to the column before, or to the parent of the only one.
Parents == IF Len(Here.trail) > 1 THEN {Front(Here.trail)}
           ELSE {<<dir>> : dir \in Dirs \ {Leaf(Here)}}

GoLeft ==
    /\ Here.kind = "folder" /\ Moves
    /\ \E trail \in Parents : Update(active, Goes(Here, trail))
    /\ Settles
    /\ UNCHANGED <<active, closed, made, opening, termVars>>

\* The crumbs of the path bar and Enter in the quick find set the trail alone.
InPlace(trail) ==
    /\ Here.kind = "folder" /\ Moves
    /\ Update(active, [Here EXCEPT !.trail = trail])
    /\ strayed' = IF Here.marks # {} THEN strayed \union {Here.id} ELSE strayed
    /\ UNCHANGED <<active, closed, made, opening, termVars>>

PathbarGoes(dir) == InPlace(<<dir>>)
QuickFindGoes(dir) == InPlace(Append(Here.trail, dir))

\* toggleMark, toggleSelectAllCol, invertMarks: on the entries of the column.
ToggleMark ==
    /\ Here.kind = "folder"
    /\ LET dir == Leaf(Here)
           marks == IF dir \in Here.marks THEN Here.marks \ {dir} ELSE Here.marks \union {dir}
       IN Update(active, [Here EXCEPT !.marks = marks])
    /\ UNCHANGED <<active, closed, made, termVars, moveVars>>

\* uv, and after the marked entries were trashed: of the tab active by then.
ClearMarks ==
    /\ Here.marks # {}
    /\ Update(active, Wiped(Here)) /\ Settles
    /\ UNCHANGED <<active, closed, made, opening, moves, termVars>>

-----------------------------------------------------------------------------
TabStep ==
    \/ OpenFolder \/ OpenHome \/ Restore
    \/ \E t \in Tasks : OpenTask(t)
    \/ \E i \in DOMAIN tabs : Select(i) \/ Close(i)

ShellStep ==
    \/ StartTerm \/ AskCloseTerm \/ CancelCloseTerm \/ ConfirmCloseTerm
    \/ \E c \in ending : TermKilled(c)
    \/ \E t \in Tasks : StartTaskTerm(t)
    \/ \E dir \in Dirs : StartResume(dir) \/ SessionStarts(dir)
    \/ \E w \in waiting : Spawned(w) \/ SpawnFails(w)
    \/ \E p \in Ptys : Exits(p)

MoveStep ==
    \/ GoBack \/ GoForward \/ GoLeft \/ ToggleMark \/ ClearMarks
    \/ \E dir \in Dirs :
           \/ NavigateTo(dir) \/ OpenPath(dir) \/ PathbarGoes(dir) \/ QuickFindGoes(dir)
    \/ \E dir \in opening : Opened(dir) \/ OpenFails(dir)

Next == TabStep \/ ShellStep \/ MoveStep

Spec == Init /\ [][Next]_vars

-----------------------------------------------------------------------------
(* Safety.                                                                 *)

\* As long as no captured index has become another tab's and no shell was
\* started for a tab another call is still to dispatch to (a start, or a
\* :term-close), every running shell is in a tab or on its way into one: none
\* outlives its tab unseen (Tabbar.tsx: "otherwise the shell stays alive in the
\* main process until window close").
NoOrphan ==
    ~stale => \A p \in Ptys : shell[p] = "running" =>
                  Shows(tabs, p) \/ \E w \in waiting : w.pty = p

\* What is marked in a tab is in the directory it shows, so that a delete does
\* not take files out of sight (store.tsx navigateTo), except in a tab that
\* the path bar or the quick find moved with entries marked.
MarksInView ==
    \A i \in DOMAIN tabs :
        tabs[i].id \notin strayed => tabs[i].marks \subseteq {Leaf(tabs[i])}

=============================================================================
