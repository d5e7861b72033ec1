------------------------------ MODULE Mirror ------------------------------
(***************************************************************************)
(* How a change of a task reaches the lists on screen: the TypeBuild       *)
(* source's cache and what it broadcasts (electron/sources/typebuild.ts),  *)
(* the tasks:list and tasks:peek calls of the main process                 *)
(* (electron/ipc.ts), and the mirror every useTasks() hook keeps of its    *)
(* slice, with the optimistic overlay shared by all hooks of a window      *)
(* (src/tasks.ts, src/tasksMirror.mjs).                                    *)
(*                                                                         *)
(* A row keeps one field of each kind the code tells apart:                *)
(*   mine   who claimed it: a routing field, compared by every diff and    *)
(*          signature, and what the filter claimedByMe asks the server for;*)
(*   asked  it has a pending question: in no diff and no signature.        *)
(* Messages from the main process arrive in the order they were sent.  The *)
(* window handles each when it is sent: the time it takes is part of the   *)
(* time the calls it makes take to be served.                              *)
(***************************************************************************)
EXTENDS Naturals, FiniteSets, Sequences, SequencesExt

CONSTANTS
    Tasks,       \* task ids
    Hooks,       \* mounted useTasks() hooks, all with the full list at first
    Togglers,    \* those of them whose filter the user can switch
    FirstRows,   \* rows the tasks may have at first
    Remote,      \* a host of the daemon federation is connected
    MaxChanges,  \* bound: changes of tasks and filters
    MaxWaiting,  \* bound: answers that wait while a pull is answered
    None         \* no row, no hook

ASSUME MirrorAssumption ==
    /\ IsFiniteSet(Tasks) /\ IsFiniteSet(Hooks) /\ Togglers \subseteq Hooks
    /\ Remote \in BOOLEAN /\ MaxChanges \in Nat /\ MaxWaiting \in Nat

Row == [mine : BOOLEAN, asked : BOOLEAN]
Rows == [Tasks -> Row \union {None}]
Live(rows) == {t \in Tasks : rows[t] # None}

ASSUME RowAssumption == FirstRows \subseteq Row /\ None \notin Row \union BOOLEAN \union Hooks

Filters == {"all", "mine"}

VARIABLES
    server,    \* the server's rows
    fresh,     \* rows the server changed since the sync cursor
    cache,     \* this.cache
    skel,      \* the routing field of the rows in the skeleton table
    lastSig,   \* this.lastSignature
    refreshes, \* refreshAndBroadcast() calls under way
    calls,     \* tasks:list calls under way, by hook
    orphans,   \* those whose hook has moved on, by filter
    held,      \* of a hook: answers that wait for the connected hosts
    peeks,     \* tasks:peek calls on their way to the main process
    filter,    \* of a hook: filterRef.current
    mirror,    \* of a hook: lastListRef.current
    screen,    \* of a hook: the rows it renders
    overlay,   \* pendingPatches: tasks whose question was just answered
    aged,      \* those of them older than PENDING_TTL_MS
    untold,    \* history: see MirrorTold
    changes    \* changes so far

serverVars == <<server, fresh, changes>>
cacheVars == <<cache, skel, lastSig, refreshes>>
callVars == <<calls, orphans, held, peeks>>
hookVars == <<filter, mirror, screen, overlay, aged>>
vars == <<serverVars, cacheVars, callVars, hookVars, untold>>

Peek == [hook : Hooks \union {None}, ids : SUBSET Tasks, removed : SUBSET Tasks]

MirrorTypeOK ==
    /\ server \in Rows /\ fresh \subseteq Tasks
    /\ cache \in Rows /\ skel \in [Tasks -> BOOLEAN \union {None}]
    /\ lastSig \in [Tasks -> BOOLEAN \union {None}] /\ refreshes \in Nat
    /\ calls \in [Hooks -> Nat] /\ orphans \in [Filters -> Nat]
    /\ held \in [Hooks -> SUBSET Rows]
    /\ peeks \in Seq(Peek)
    /\ filter \in [Hooks -> Filters]
    /\ mirror \in [Hooks -> Rows] /\ screen \in [Hooks -> Rows]
    /\ aged \subseteq overlay /\ overlay \subseteq Tasks
    /\ untold \in [Hooks -> SUBSET Tasks]
    /\ changes \in 0..MaxChanges

-----------------------------------------------------------------------------
(* Rows.                                                                   *)

\* cacheRowToSkeleton, and what signatureOf() keeps of a row.
Routing(rows) == [t \in Tasks |-> IF rows[t] = None THEN None ELSE rows[t].mine]

Only(rows, S) == [t \in Tasks |-> IF t \in S THEN rows[t] ELSE None]

\* The rows the server lists for a filter; a row of another's claim is None.
Claimed(rows) == Only(rows, {t \in Live(rows) : rows[t].mine})
Slice(f, rows) == IF f = "mine" THEN Claimed(rows) ELSE rows

Empty == [t \in Tasks |-> None]

\* The source was just registered: every hook has loaded the list once.
Init ==
    /\ server \in [Tasks -> FirstRows]
    /\ fresh = {} /\ changes = 0
    /\ cache = server /\ skel = Routing(server) /\ lastSig = Routing(server)
    /\ refreshes = 0
    /\ calls = [h \in Hooks |-> 0] /\ orphans = [f \in Filters |-> 0]
    /\ held = [h \in Hooks |-> {}] /\ peeks = <<>>
    /\ filter = [h \in Hooks |-> "all"]
    /\ mirror = [h \in Hooks |-> server] /\ screen = mirror
    /\ overlay = {} /\ aged = {}
    /\ untold = [h \in Hooks |-> {}]

-----------------------------------------------------------------------------
(* The hooks of the window.                                                *)

\* applyPendingPatches, first half: an entry goes when it is too old or the
\* list lacks its row.  A row without a question has the field undefined,
\* the patch sets null: no row satisfies it.
Pruned(entries, list) == (entries \ aged) \intersect Live(list)

\* Mutated form: a fetched list is shown as it is.
OverlaidFirst(list, entries) == list

\* The second half: the entries that are left are laid over the list.
Overlaid(list, entries) ==
    [t \in Tasks |-> IF t \in entries /\ list[t] # None
                     THEN [list[t] EXCEPT !.asked = FALSE] ELSE list[t]]

\* setTasks(applyPendingPatches(list)) in one hook.
Renders(h, list) ==
    LET entries == Pruned(overlay, list) IN
    /\ mirror' = [mirror EXCEPT ![h] = list]
    /\ screen' = [screen EXCEPT ![h] = Overlaid(list, entries)]
    /\ overlay' = entries /\ aged' = aged \intersect entries
    /\ UNCHANGED filter

\* Some hooks, one after another.
Turns(S) == Bijection(1..Cardinality(S), S)

\* The same in every hook, in the order they were mounted: what one of them
\* drops the later ones no longer see.
RendersAll(lists, entries) ==
    \E order \in Turns(Hooks) :
       LET left(i) == {t \in entries :
                         \A j \in 1..i : t \in Pruned(entries, lists[order[j]])}
           last == left(Cardinality(Hooks))
           turn(h) == CHOOSE i \in DOMAIN order : order[i] = h
       IN  /\ mirror' = lists
           /\ screen' = [h \in Hooks |-> Overlaid(lists[h], left(turn(h)))]
           /\ overlay' = last /\ aged' = aged \intersect last
           /\ UNCHANGED filter

\* A filter tasks:peek can apply.
Peekable(h) == filter[h] = "all"

\* load() in these hooks.
Loads(S) == calls' = [h \in Hooks |-> IF h \in S THEN calls[h] + 1 ELSE calls[h]]

-----------------------------------------------------------------------------
(* What the main process tells them.                                       *)

\* The rows of the cache that a step changes.
Moved == {t \in Tasks : cache'[t] # cache[t]}

\* A payload-free broadcast: every hook loads its list again.
Pings ==
    /\ Loads(Hooks)
    /\ untold' = [h \in Hooks |-> {}]
    /\ UNCHANGED <<peeks, hookVars>>

\* A diff of removals only: they are pruned in place.
Prunes(removed) ==
    /\ RendersAll([h \in Hooks |-> Only(mirror[h], Tasks \ removed)], overlay)
    /\ UNCHANGED <<calls, peeks>>

\* Any other diff: the hooks ask for its rows, or load their list.
Asks(asked, removed) ==
    /\ Loads({h \in Hooks : ~Peekable(h)})
    /\ LET all == {h \in Hooks : Peekable(h)} IN
       \E order \in Turns(all) :
          peeks' = peeks \o [i \in 1..Cardinality(all) |->
              [hook |-> order[i], ids |-> asked, removed |-> removed]]
    /\ UNCHANGED hookVars

\* broadcastDiff: the ids whose routing fields moved, or a ping.
Broadcasts(asked, removed) ==
    IF asked \union removed = {} THEN Pings
    ELSE /\ IF asked = {} THEN Prunes(removed) ELSE Asks(asked, removed)
         /\ untold' = [h \in Hooks |->
                          (untold[h] \union Moved) \ (asked \union removed)]

\* diffSkeleton, deltaSkeleton over the rows S of the new list.
Asked(rows, S) == {t \in S : rows[t] # None /\ skel[t] # Routing(rows)[t]}
Removed(rows, S) == {t \in S : rows[t] = None /\ skel[t] # None}

-----------------------------------------------------------------------------
(* The server, written to by other people and agents, and by the user.     *)

Change(t, row) ==
    /\ changes < MaxChanges /\ changes' = changes + 1
    /\ server' = [server EXCEPT ![t] = row]
    /\ fresh' = fresh \union {t}

\* A claim, a release, a question, a deletion.
OthersWrite(t) ==
    /\ server[t] # None
    /\ \E row \in Row \union {None} : row # server[t] /\ Change(t, row)
    /\ UNCHANGED <<cacheVars, callVars, hookVars, untold>>

\* patchTask, the task verbs: the server took the change; the cached row is
\* patched, and its skeleton with it, everyone is pinged and a refresh starts.
OwnWrite(t) ==
    /\ server[t] # None
    /\ \E mine \in BOOLEAN :
          /\ Change(t, [server[t] EXCEPT !.mine = mine])
          /\ IF cache[t] = None
             THEN UNCHANGED <<cache, skel>>
             ELSE /\ cache' = [cache EXCEPT ![t].mine = mine]
                  /\ skel' = IF skel[t] = None THEN skel
                             ELSE [skel EXCEPT ![t] = mine]
    /\ refreshes' = refreshes + 1
    /\ Pings
    /\ UNCHANGED <<lastSig, orphans, held>>

\* deleteTask drops the row from the cache only.
OwnDelete(t) ==
    /\ server[t] # None
    /\ Change(t, None)
    /\ cache' = [cache EXCEPT ![t] = None]
    /\ refreshes' = refreshes + 1
    /\ Pings
    /\ UNCHANGED <<skel, lastSig, orphans, held>>

-----------------------------------------------------------------------------
(* The poll.                                                               *)

Reconcile(rows) ==
    /\ cache' = rows /\ skel' = Routing(rows) /\ lastSig' = Routing(rows)

Polls == Len(peeks) + Cardinality({h \in Hooks : held[h] # {}}) <= MaxWaiting

\* pollDelta: the rows the server changed, and tombstones.
PollDelta ==
    /\ fresh # {} /\ fresh' = {} /\ Polls
    /\ cache' = [t \in Tasks |-> IF t \in fresh THEN server[t] ELSE cache[t]]
    /\ skel' = [t \in Tasks |-> IF t \in fresh THEN Routing(server)[t]
                                 ELSE skel[t]]
    /\ lastSig' = Routing(cache')
    /\ Broadcasts(Asked(server, fresh), Removed(server, fresh))
    /\ UNCHANGED <<server, changes, refreshes, orphans, held>>

\* pollFull: nothing is done when the signature is the last one.
PollFull ==
    /\ fresh' = {} /\ Polls
    /\ IF Routing(server) = lastSig
       THEN UNCHANGED <<cache, skel, lastSig, calls, peeks, hookVars, untold>>
       ELSE /\ Reconcile(server)
            /\ Broadcasts(Asked(server, Tasks), Removed(server, Tasks))
    /\ UNCHANGED <<server, changes, refreshes, orphans, held>>

\* refreshAndBroadcast: listTasks, which may fail, and a ping.
Refreshed ==
    /\ refreshes > 0 /\ refreshes' = refreshes - 1
    /\ \/ Reconcile(server)
       \/ UNCHANGED <<cache, skel, lastSig>>
    /\ Pings
    /\ UNCHANGED <<serverVars, orphans, held>>

-----------------------------------------------------------------------------
(* tasks:list and tasks:peek.                                              *)

\* listTasks for a filter: the server applies it and the answer becomes the
\* cache, or the request fails and the cache is served as it is.
Lists(f) ==
    \/ Reconcile(Slice(f, server))
    \/ UNCHANGED <<cache, skel, lastSig>>

\* The answer for a hook is what the cache holds then, and replaces its
\* mirror.  With a host connected it first waits for the host's rows.
ListServed(h) ==
    /\ calls[h] > 0 /\ calls' = [calls EXCEPT ![h] = @ - 1]
    /\ Lists(filter[h])
    /\ IF Remote
       THEN held' = [held EXCEPT ![h] = @ \union {cache'}] /\ UNCHANGED hookVars
       ELSE Renders(h, cache') /\ UNCHANGED held
    /\ untold' = [i \in Hooks |->
                     IF i = h
                     THEN {t \in Tasks : cache'[t] # Slice(filter[h], cache')[t]}
                     ELSE untold[i] \union Moved]
    /\ UNCHANGED <<serverVars, refreshes, orphans, peeks>>

\* The hosts answered, but the rows are those from before: they tell nothing
\* of what changed meanwhile.
HostsServed(h) ==
    \E rows \in held[h] :
       /\ held' = [held EXCEPT ![h] = @ \ {rows}]
       /\ Renders(h, rows)
       /\ untold' = [untold EXCEPT ![h] =
                        @ \union {t \in Tasks : rows[t] # cache[t]}]
       /\ UNCHANGED <<serverVars, cacheVars, calls, orphans, peeks>>

\* Nobody waits for this answer any more; the cache is replaced all the same.
OrphanServed(f) ==
    /\ orphans[f] > 0 /\ orphans' = [orphans EXCEPT ![f] = @ - 1]
    /\ Lists(f)
    /\ untold' = [h \in Hooks |-> untold[h] \union Moved]
    /\ UNCHANGED <<serverVars, refreshes, calls, held, peeks, hookVars>>

\* Mutated form: a row that was asked for and is gone stays in the mirror.
MergedKeeping(list, peek, rows) ==
    [t \in Tasks |-> IF t \in peek.removed THEN None
                     ELSE IF t \in peek.ids /\ rows[t] # None THEN rows[t]
                     ELSE list[t]]

\* computeRemovedIds and mergeTaskMirror: the rows that came back are put in,
\* those that did not, and those the diff removed, go.
Merged(list, peek, rows) ==
    [t \in Tasks |-> IF t \in peek.removed THEN None
                     ELSE IF t \in peek.ids THEN rows[t] ELSE list[t]]

\* peekTasks answers from the cache; a hook that has moved on ignores it.
PeekServed ==
    /\ peeks # <<>> /\ peeks' = Tail(peeks)
    /\ LET peek == Head(peeks) IN
       \/ /\ peek.hook = None /\ UNCHANGED <<hookVars, untold>>
       \/ /\ peek.hook # None
          /\ Renders(peek.hook, Merged(mirror[peek.hook], peek,
                                       Only(cache, peek.ids)))
          /\ untold' = [untold EXCEPT ![peek.hook] = @ \ peek.ids]
    /\ UNCHANGED <<serverVars, cacheVars, calls, orphans, held>>

-----------------------------------------------------------------------------
(* The user.                                                               *)

\* The effect of the hook runs anew with the other filter: answers to the old
\* one are ignored (cancelled), and the list is loaded.
Toggle(h) ==
    /\ h \in Togglers
    /\ changes < MaxChanges /\ changes' = changes + 1
    /\ filter' = [filter EXCEPT ![h] = IF @ = "all" THEN "mine" ELSE "all"]
    /\ calls' = [calls EXCEPT ![h] = 1]
    /\ orphans' = [orphans EXCEPT ![filter[h]] = @ + calls[h]]
    /\ held' = [held EXCEPT ![h] = {}]
    /\ peeks' = [i \in 1..Len(peeks) |->
                    [peeks[i] EXCEPT !.hook = IF @ = h THEN None ELSE @]]
    /\ UNCHANGED <<server, fresh, cacheVars, mirror, screen, overlay, aged, untold>>

\* The user answers a question some list shows.  The server clears it; on
\* success the overlay hides it at once.  The cache is left alone.
Answer(t) ==
    /\ \E h \in Hooks : screen[h][t] # None /\ screen[h][t].asked
    /\ server[t] # None /\ server[t].asked
    /\ Change(t, [server[t] EXCEPT !.asked = FALSE])
    /\ RendersAll(mirror, overlay \union {t})
    /\ UNCHANGED <<cacheVars, callVars, untold>>

Young == overlay \ aged

\* Ten seconds pass.
Ages(t) ==
    /\ t \in Young /\ aged' = aged \union {t}
    /\ UNCHANGED <<serverVars, cacheVars, callVars, filter, mirror, screen,
                   overlay, untold>>

-----------------------------------------------------------------------------
Next ==
    \/ \E t \in Tasks : OthersWrite(t) \/ OwnWrite(t) \/ OwnDelete(t)
    \/ \E t \in Tasks : Answer(t) \/ Ages(t)
    \/ PollDelta \/ PollFull \/ Refreshed
    \/ \E h \in Hooks : ListServed(h) \/ HostsServed(h) \/ Toggle(h)
    \/ \E f \in Filters : OrphanServed(f)
    \/ PeekServed

Spec == Init /\ [][Next]_vars

-----------------------------------------------------------------------------
\* Nothing is on its way.
Settled ==
    /\ peeks = <<>>
    /\ \A h \in Hooks : calls[h] = 0 /\ held[h] = {}

\* A diff names only rows whose routing fields moved, a list call replaces the
\* cache under the other hooks, and a list that waited for a host is old when
\* it arrives.  untold[h] are the rows whose last change h missed in one of
\* these ways; a ping, a diff that names them or an answer that carries them
\* takes them out.  With no message and no call under way, every other row of
\* every mirror is the cached one, a deleted row is on no screen, and no row
\* of an earlier filter is left, however diffs, pings, lists and switches of
\* the filter cross.
MirrorTold ==
    Settled =>
       \A h \in Hooks : \A t \in Tasks \ untold[h] :
          mirror[h][t] = Slice(filter[h], cache)[t]

\* A question the user answered: while its entry is young no list of the window
\* shows the question again, whichever old rows arrive.
AnsweredHidden ==
    \A h \in Hooks : \A t \in Young :
       screen[h][t] # None => ~screen[h][t].asked

=============================================================================
