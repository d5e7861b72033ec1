------------------------------- MODULE Editor -------------------------------
(***************************************************************************)
(* One editor tab of Breeze (src/components/EditShell.tsx) and the file    *)
(* calls behind it (electron/ipc.ts editor:openFile, editor:saveFile,      *)
(* editor:watch, fs:rename): autosave, save, reload, live refresh, the     *)
(* renaming of a dated note to its heading, and the flush when it closes.  *)
(*                                                                         *)
(* A text is the set of edits it contains: the user's (Edits) and those of *)
(* others (World: an agent, another program, what was there before).  The  *)
(* main process works in steps, so that others write in between; mtimes    *)
(* are stamps that grow with every write, 0 is `null`.  Writes are taken   *)
(* to be more than the millisecond apart that the check of a save lets     *)
(* pass.                                                                   *)
(*                                                                         *)
(* The editor is the only one on its file and its tab stays the active     *)
(* one; a tab that was closed is not opened again.                         *)
(***************************************************************************)
EXTENDS Naturals, FiniteSets

CONSTANTS
    Edits,       \* edits of the user
    World,       \* edits of others
    Heading,     \* the edit of the user that gives a note its heading
    Orig,        \* the edit of others that is there when the tab opens
    Note,        \* path of the file: a note named by its date
    Title,       \* the path its heading gives it
    MaxAsked,    \* bound: changes the user makes; a save or a reload counts for two
    MaxFlight,   \* bound: saves that wait at once
    Overlap,     \* bound: may the user ask for a save while one is under way?
    None         \* no file, no read

ASSUME EditorAssumption ==
    /\ Heading \in Edits /\ Orig \in World /\ Edits \intersect World = {}
    /\ IsFiniteSet(Edits \union World) /\ Note # Title
    /\ MaxAsked \in Nat /\ MaxFlight \in Nat \ {0} /\ Overlap \in BOOLEAN

Paths == {Note, Title}
Text == SUBSET (Edits \union World)
Kinds == {"load", "watch", "revert"}

VARIABLES
    disk,     \* of a path: the text and mtime of the file there
    clock,    \* the last mtime given
    saves,    \* editor:saveFile calls, and what doSave() does after them
    reads,    \* editor:openFile calls, one of a kind at a time
    pinged,   \* the watcher has an `editor:fileChanged` to send
    tab,      \* loading, ready, broken (the load failed) or closed
    path,     \* tab.editPath
    buf,      \* contentRef
    base,     \* baselineRef
    mtime,    \* mtimeRef
    seed,     \* the text the widget was last mounted with
    view,     \* the text in the widget
    dirty,    \* dirtyRef and tab.dirty
    timer,    \* autosaveRef: none, due, busy (set during a save) or spent
    saving,   \* the state `saving`
    status,   \* statusMsg: none, refused (a save or a reload) or changed
    made,     \* edits of others that were made
    asked,    \* changes, saves and reloads so far
    owed,     \* history: what the user typed and must not lose
    lost,     \* history: what was in a save refused when the tab was gone
    known     \* history: what others wrote and a save may drop

fileVars == <<disk, clock, made>>
bufVars == <<buf, base, mtime, seed, view>>
tabVars == <<tab, path, dirty, timer, saving, status>>
vars == <<fileVars, saves, reads, pinged, bufVars, tabVars, asked, owed, lost, known>>

File == [text : Text, at : Nat]
Save == [no : 1..MaxFlight, path : Paths, text : Text, expect : Nat, names : BOOLEAN,
         step : {"write", "stat", "refused", "name", "move", "restat"}]
Read == [path : Paths, at : Nat, text : Text, step : {"read", "answer"}]

ASSUME NoneAssumption == None \notin File \union Read

EditorTypeOK ==
    /\ disk \in [Paths -> File \union {None}] /\ clock \in Nat /\ made \subseteq World
    /\ saves \subseteq Save /\ \A r, s \in saves : r.no = s.no => r = s
    /\ reads \in [Kinds -> Read \union {None}] /\ pinged \in BOOLEAN
    /\ tab \in {"loading", "ready", "broken", "closed"} /\ path \in Paths
    /\ {buf, base, seed, view} \subseteq Text /\ mtime \in 0..clock
    /\ dirty \in BOOLEAN /\ saving \in BOOLEAN
    /\ timer \in {"none", "due", "busy", "spent"}
    /\ status \in {"none", "refused", "changed"}
    /\ asked \in 0..MaxAsked
    /\ owed \subseteq Edits /\ lost \subseteq Edits /\ known \subseteq World

-----------------------------------------------------------------------------
(* The renderer's part of a save.                                          *)

Mounted == tab # "closed"

\* editor:saveFile "rejects writes when the file changed on disk since open": a
\* file that is missing, or a save that knows no mtime, is not checked.
Clash(p, expect) == expect # 0 /\ disk[p] # None /\ disk[p].at # expect

\* A save with what the refs hold now; the check is the first thing the call
\* does.  `names` when its closure knows the home directory, which that of the
\* mount render does not.
NewSave(others, p, expect, names) ==
    LET free == {n \in 1..MaxFlight : \A s \in others : s.no # n} IN
    /\ free # {}
    /\ \E n \in free :
          /\ \A m \in free : n <= m
          /\ saves' = others \union {[no |-> n, path |-> p, text |-> buf, expect |-> expect,
                                      names |-> names,
                                      step |-> IF Clash(p, expect) THEN "refused" ELSE "write"]}

\* doSave() up to its call.
doSave(names) ==
    /\ NewSave(saves, path, mtime, names)
    /\ timer' = "none" /\ saving' = TRUE /\ status' = "none"

\* ":save" and Cmd-S.  The closure of the first is that of the mount, or of the
\* last switch to the tab, and finds no save under way; that of the second may
\* be as old when nothing was saved yet.
SaveCommand ==
    /\ Mounted /\ asked + 2 <= MaxAsked /\ (saving => Overlap)
    /\ asked' = asked + 2
    /\ \E names \in BOOLEAN : doSave(names)
    /\ UNCHANGED <<fileVars, reads, pinged, bufVars, tab, path, dirty, owed, lost, known>>

\* The debounce is over; a timer set while a save was under way has a closure
\* that finds `saving` and returns.
TimerFires ==
    /\ Mounted
    /\ \/ timer = "due" /\ doSave(TRUE)
       \/ timer = "busy" /\ timer' = "spent" /\ UNCHANGED <<saves, saving, status>>
    /\ UNCHANGED <<fileVars, reads, pinged, bufVars, tab, path, dirty, asked, owed, lost, known>>

-----------------------------------------------------------------------------
(* The main process's part.                                                *)

Goes(s, step) == saves' = (saves \ {s}) \union {[s EXCEPT !.step = step]}
MainOnly == UNCHANGED <<reads, bufVars, tabVars, asked, owed, lost, known>>

\* A write to p: a watcher on it will tell.
Wakes(p) == pinged' = (pinged \/ (Mounted /\ p = path))

\* The temporary file takes the place of the file.
SaveWrite(s) ==
    /\ s.step = "write"
    /\ clock' = clock + 1
    /\ disk' = [disk EXCEPT ![s.path] = [text |-> s.text, at |-> clock']]
    /\ Goes(s, "stat") /\ Wakes(s.path)
    /\ MainOnly /\ UNCHANGED made

-----------------------------------------------------------------------------
(* What doSave() does with the answer, up to its `finally`.                *)

\* A conflict, or an error of the write or of the stat after it: a message and
\* nothing else, and no message when the tab is gone.
Refused(s) ==
    /\ s.step \in {"refused", "write", "stat"}
    /\ saves' = saves \ {s}
    /\ saving' = FALSE
    /\ IF Mounted THEN status' = "refused" /\ UNCHANGED lost
                  ELSE lost' = lost \union (owed \intersect s.text) /\ UNCHANGED status
    /\ UNCHANGED <<fileVars, reads, pinged, bufVars, tab, path, dirty, timer, asked, owed,
                   known>>

\* The mtime is that of the file now, the baseline what the buffer holds now.
\* A dated note with a heading goes on to be named.
Saved(s) ==
    /\ s.step = "stat" /\ disk[s.path] # None
    /\ IF Mounted THEN mtime' = disk[s.path].at /\ base' = buf /\ dirty' = FALSE /\ status' = "none"
                  ELSE UNCHANGED <<mtime, base, dirty, status>>
    /\ \/ /\ s.names /\ s.path = Note /\ Heading \in buf
          /\ Goes(s, "name") /\ UNCHANGED saving
       \/ /\ ~(s.names /\ s.path = Note /\ Heading \in buf)
          /\ saves' = saves \ {s} /\ saving' = FALSE
    /\ UNCHANGED <<fileVars, reads, pinged, buf, seed, view, tab, path, timer, asked, owed, lost, known>>

\* Mutated form: nobody looks whether the name is free.
NameTaken(s) ==
    /\ s.step = "name"
    /\ Goes(s, "move")
    /\ UNCHANGED <<fileVars, reads, pinged, bufVars, tabVars, asked, owed, lost, known>>

\* The walk over the names and the pre-check of fs:rename: both look whether
\* the name is free.  With one name the walk gives up when it is taken.
Name(s) ==
    /\ s.step = "name"
    /\ \/ /\ disk[Title] = None
          /\ Goes(s, "move") /\ UNCHANGED saving
       \/ /\ disk[Title] # None
          /\ saves' = saves \ {s} /\ saving' = FALSE
    /\ UNCHANGED <<fileVars, reads, pinged, bufVars, tab, path, dirty, timer, status, asked,
                   owed, lost, known>>

Move(s) ==
    /\ s.step = "move" /\ disk[Note] # None
    /\ disk' = [disk EXCEPT ![Title] = disk[Note], ![Note] = None]
    /\ Goes(s, "restat") /\ Wakes(Note)
    /\ MainOnly /\ UNCHANGED <<clock, made>>

\* Another save's naming took the note away.
MoveFails(s) ==
    /\ s.step = "move" /\ disk[Note] = None
    /\ saves' = saves \ {s} /\ saving' = FALSE
    /\ UNCHANGED <<fileVars, reads, pinged, bufVars, tab, path, dirty, timer, status, asked,
                   owed, lost, known>>

\* The tab takes the new path and the watcher follows.  The cleanup of the
\* old path's effect flushes a pending autosave - to the old path.
Restat(s) ==
    /\ s.step = "restat"
    /\ IF Mounted
       THEN /\ mtime' = disk[Title].at /\ path' = Title /\ pinged' = FALSE
            /\ timer' = "none"
            /\ \/ /\ timer # "none" /\ dirty
                  /\ NewSave(saves \ {s}, path, mtime', FALSE)
                  /\ saving' = TRUE /\ status' = "none"
               \/ /\ ~(timer # "none" /\ dirty)
                  /\ saves' = saves \ {s} /\ saving' = FALSE
                  /\ UNCHANGED status
       ELSE /\ saves' = saves \ {s}
            /\ UNCHANGED <<mtime, path, pinged, timer, saving, status>>
    /\ UNCHANGED <<fileVars, reads, buf, base, seed, view, tab, dirty, asked, owed, lost, known>>

SaveStep ==
    \E s \in saves :
       \/ SaveWrite(s) \/ Refused(s)
       \/ Saved(s) \/ Name(s) \/ Move(s) \/ MoveFails(s) \/ Restat(s)

-----------------------------------------------------------------------------
(* Reading the file.                                                       *)

\* editor:openFile takes the mtime before the text.
Stat(p) == IF disk[p] = None THEN 0 ELSE disk[p].at

NewRead(kind) ==
    /\ reads[kind] = None
    /\ reads' = [reads EXCEPT ![kind] =
                    [path |-> path, at |-> Stat(path), text |-> {}, step |-> "read"]]

\* The watcher's debounce is over: the tab reads the file again.
Notify ==
    /\ Mounted /\ pinged
    /\ NewRead("watch") /\ pinged' = FALSE
    /\ UNCHANGED <<fileVars, saves, bufVars, tabVars, asked, owed, lost, known>>

\* ":revert", Cmd-R and the reload button.  A tab with unsaved changes asks
\* first, and the user agrees to lose them.
Revert ==
    /\ Mounted /\ asked + 2 <= MaxAsked
    /\ asked' = asked + 2
    /\ NewRead("revert")
    /\ owed' = IF dirty THEN {} ELSE owed
    /\ UNCHANGED <<fileVars, saves, pinged, bufVars, tabVars, lost, known>>

ReadFile(kind) ==
    /\ reads[kind] # None
    /\ LET r == reads[kind] IN
       /\ r.step = "read" /\ r.at # 0 /\ disk[r.path] # None
       /\ reads' = [reads EXCEPT ![kind] = [path |-> r.path, at |-> r.at,
                                            text |-> disk[r.path].text, step |-> "answer"]]
    /\ UNCHANGED <<fileVars, saves, pinged, bufVars, tabVars, asked, owed, lost, known>>

\* The file is gone; that of a load may also be unreadable.
ReadFails(kind) ==
    /\ reads[kind] # None /\ reads[kind].step = "read"
    /\ reads[kind].at = 0 \/ disk[reads[kind].path] = None \/ kind = "load"
    /\ reads' = [reads EXCEPT ![kind] = None]
    /\ tab' = IF kind = "load" THEN "broken" ELSE tab
    /\ status' = IF kind = "revert" THEN "refused" ELSE status
    /\ UNCHANGED <<fileVars, saves, pinged, bufVars, path, dirty, timer, saving, asked,
                   owed, lost, known>>

\* The buffer takes what was read.  The widget is mounted again when the seed
\* changes, and only then.
Reseed(r) ==
    /\ buf' = r.text /\ base' = r.text /\ mtime' = r.at /\ seed' = r.text
    /\ view' = IF r.text # seed \/ tab' # tab THEN r.text ELSE view
    /\ known' = known \union (r.text \intersect World)

\* Nobody looks which path a read was of.
Stray(r) == r.path # path

\* A read that lands while a save is under way: the save's last stat will
\* vouch for the text that was read, however old it is, and the next save
\* replaces what is newer.  So it is with a stray one.
Overtaken(r) == owed' = IF saves = {} /\ ~Stray(r) THEN owed ELSE owed \intersect r.text

Answered(kind) ==
    /\ reads[kind] # None /\ reads[kind].step = "answer"
    /\ reads' = [reads EXCEPT ![kind] = None]

\* The first load.
Loaded ==
    /\ Answered("load")
    /\ tab' = "ready" /\ Reseed(reads["load"])
    /\ UNCHANGED <<fileVars, saves, pinged, path, dirty, timer, saving, status, asked,
                   owed, lost>>

\* Whatever was typed since the reload was asked goes too.  The autosave timer
\* runs on.
Reverted ==
    /\ Answered("revert")
    /\ UNCHANGED tab /\ Reseed(reads["revert"]) /\ Overtaken(reads["revert"])
    /\ dirty' = FALSE /\ status' = "none"
    /\ UNCHANGED <<fileVars, saves, pinged, path, timer, saving, asked, lost>>

\* Mutated form: what is on disk takes the place of unsaved changes.
RefreshedOver ==
    /\ Answered("watch")
    /\ LET r == reads["watch"] IN
       \/ /\ r.text = buf
          /\ mtime' = r.at /\ owed' = IF Stray(r) THEN owed \intersect r.text ELSE owed
          /\ UNCHANGED <<buf, base, seed, view, tabVars, known>>
       \/ /\ r.text # buf
          /\ UNCHANGED tab /\ Reseed(r) /\ Overtaken(r)
          /\ dirty' = FALSE /\ status' = "none" /\ UNCHANGED <<path, timer, saving>>
    /\ UNCHANGED <<fileVars, saves, pinged, asked, lost>>

\* onEditorFileChanged: the tab's own save is no news; unsaved changes are
\* kept, with a notice; else the text on disk takes their place.
Refreshed ==
    /\ Answered("watch")
    /\ LET r == reads["watch"] IN
       \/ /\ r.text = buf
          /\ mtime' = r.at /\ owed' = IF Stray(r) THEN owed \intersect r.text ELSE owed
          /\ UNCHANGED <<buf, base, seed, view, tabVars, known>>
       \/ /\ r.text # buf /\ dirty
          /\ status' = "changed"
          /\ UNCHANGED <<bufVars, tab, path, dirty, timer, saving, owed, known>>
       \/ /\ r.text # buf /\ ~dirty
          /\ UNCHANGED tab /\ Reseed(r) /\ Overtaken(r)
          /\ status' = "none"
          /\ UNCHANGED <<path, dirty, timer, saving>>
    /\ UNCHANGED <<fileVars, saves, pinged, asked, lost>>

-----------------------------------------------------------------------------
(* The user and the others.                                                *)

\* No save is under way and no reload: what is typed now is the editor's to
\* keep.
Quiet == saves = {} /\ reads["revert"] = None

\* The baseline has e and the file has not: the save that set it was of an
\* older buffer.
TakenForSaved(e) == e \in base /\ (disk[path] = None \/ e \notin disk[path].text)

\* Mutated form: the first change starts the timer, the next one stops it.
onChangeStops(next) ==
    /\ view' = next /\ buf' = next
    /\ dirty' = (next # base)
    /\ timer' = IF timer # "none" THEN "spent" ELSE IF saving THEN "busy" ELSE "due"

onChange(next) ==
    /\ view' = next /\ buf' = next
    /\ dirty' = (next # base)
    /\ timer' = IF next # base THEN IF saving THEN "busy" ELSE "due"
                ELSE IF timer = "none" THEN "none" ELSE "spent"

\* The user types an edit, or takes one of theirs out.
Type(e) ==
    /\ tab = "ready" /\ asked < MaxAsked
    /\ asked' = asked + 1
    /\ \/ /\ e \notin view
          /\ onChange(view \union {e})
          /\ owed' = IF Quiet /\ ~TakenForSaved(e) THEN owed \union {e} ELSE owed
       \/ /\ e \in view
          /\ onChange(view \ {e})
          /\ owed' = owed \ {e}
    /\ UNCHANGED <<fileVars, saves, reads, pinged, base, mtime, seed, tab, path, saving, status,
                   lost, known>>

\* The tab goes, from its button, the tab bar, ":close" or Cmd-W; the first
\* and the last do not ask.  The button and the cleanup flush a pending
\* autosave, the cleanup also when the user agreed to lose the changes.  Only
\* what doSave() does after its awaits goes on, with the buffer as it is now.
Close(agreed) ==
    /\ Mounted /\ (agreed => dirty)
    /\ tab' = "closed" /\ timer' = "none" /\ pinged' = FALSE
    /\ dirty' = FALSE /\ saving' = FALSE /\ status' = "none"
    /\ base' = {} /\ mtime' = 0 /\ seed' = {} /\ view' = {}
    /\ reads' = [kind \in Kinds |-> None]
    /\ \/ /\ timer # "none" /\ dirty
          /\ \E names \in BOOLEAN :
                /\ names => ~saving /\ ~agreed
                /\ NewSave(saves, path, mtime, names)
       \/ /\ ~(timer # "none" /\ dirty)
          /\ UNCHANGED saves
    /\ owed' = IF agreed \/ status # "none" THEN {} ELSE owed
    /\ UNCHANGED <<fileVars, buf, path, asked, lost, known>>

\* No check of a save's sees what others write to p now: it is between the
\* check and the last stat after it, here or under the name it gets.
Unchecked(p) ==
    \E s \in saves :
       \/ s.step \in {"write", "stat"} /\ p = s.path
       \/ s.names /\ s.step \in {"name", "move"} /\ p = Note
       \/ s.step \in {"move", "restat"} /\ p = Title

\* Another program edits the file, or makes one that has the title.
Edited(a, p) ==
    /\ a \in World \ made /\ made' = made \union {a}
    /\ clock' = clock + 1
    /\ \/ /\ disk[p] # None
          /\ disk' = [disk EXCEPT ![p] = [text |-> @.text \union {a}, at |-> clock']]
       \/ /\ disk[p] = None /\ p = Title
          /\ disk' = [disk EXCEPT ![p] = [text |-> {a}, at |-> clock']]
    /\ Wakes(p)
    /\ known' = IF Unchecked(p) THEN known \union {a} ELSE known
    /\ UNCHANGED <<saves, reads, bufVars, tabVars, asked, owed, lost>>

-----------------------------------------------------------------------------
Init ==
    /\ disk = [p \in Paths |-> IF p = Note THEN [text |-> {Orig}, at |-> 1] ELSE None]
    /\ clock = 1 /\ made = {Orig}
    /\ saves = {} /\ pinged = FALSE
    /\ reads = [k \in Kinds |-> IF k = "load" THEN [path |-> Note, at |-> 1, text |-> {},
                                                    step |-> "read"] ELSE None]
    /\ tab = "loading" /\ path = Note
    /\ buf = {} /\ base = {} /\ seed = {} /\ view = {} /\ mtime = 0
    /\ dirty = FALSE /\ timer = "none" /\ saving = FALSE /\ status = "none"
    /\ asked = 0
    /\ owed = {} /\ lost = {} /\ known = {}

Next ==
    \/ SaveCommand \/ TimerFires \/ SaveStep
    \/ Notify \/ Revert
    \/ \E kind \in Kinds : ReadFile(kind) \/ ReadFails(kind)
    \/ Loaded \/ Reverted \/ Refreshed
    \/ \E e \in Edits : Type(e)
    \/ \E agreed \in BOOLEAN : Close(agreed)
    \/ \E a \in World : \E p \in Paths : Edited(a, p)

\* Timers fire and the main process answers.  Nothing is assumed of the user,
\* the others or the watcher, which may fail silently.
Fairness == WF_vars(TimerFires) /\ WF_vars(SaveStep)

Spec == Init /\ [][Next]_vars /\ Fairness

-----------------------------------------------------------------------------
(* Properties.                                                             *)

OnDisk(e) == \E p \in Paths : disk[p] # None /\ e \in disk[p].text

\* "so we don't lose the last few keystrokes": what the user typed, with no
\* save or reload under way, stays in the buffer, in a save or on disk until
\* the user takes it out or agrees to lose it, or closes the tab over a message
\* that a save was refused or the file changed.  The code does not keep the
\* promise for `lost`: the save was refused - the file had changed, or the
\* write failed - when the tab was gone; its text goes and nobody is told.
TypedKept ==
    \A e \in owed \ lost :
       \/ Mounted /\ e \in buf
       \/ OnDisk(e)
       \/ \E s \in saves : e \in s.text

\* "refuses to clobber a file modified on disk since open": a save drops no
\* edit of others but those the editor showed, those made between its check
\* and its last stat - and everything, when it knows no mtime.
NoClobber ==
    [][\A p \in Paths :
          disk[p] # None /\ disk'[p] # None
             => \/ (disk[p].text \ disk'[p].text) \intersect World \subseteq known
                \/ \E s \in saves \ saves' : s.step = "write" /\ s.expect = 0]_vars

\* Autosave: what is typed gets to the disk, or the user sees why not, or the
\* tab is closed and its last save is refused unseen (`lost`).
SavedOrTold ==
    \A e \in Edits :
       e \in owed ~> e \notin owed \/ OnDisk(e) \/ status # "none" \/ e \in lost

\* "true while the editor has unsaved changes" (types.ts): with nothing under
\* way, a tab that is not marked dirty has its edits on disk.
DirtyWhenUnsaved ==
    tab = "ready" /\ ~dirty /\ saves = {} => \A e \in buf \intersect Edits : OnDisk(e)

=============================================================================
