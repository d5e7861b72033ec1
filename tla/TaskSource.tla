---------------------------- MODULE TaskSource ----------------------------
(***************************************************************************)
(* The poll loop of DeltaPoll among the other writers of the same cache    *)
(* and skeleton (electron/sources/typebuild.ts, wired in electron/main.ts):*)
(*                                                                         *)
(*   - listTasks(), called by the windows and by refreshAndBroadcast(),    *)
(*     which replaces the cache and the skeleton without waiting for the   *)
(*     poll, and with a filtered list when the "Mine" view asks;           *)
(*   - the app's own mutations, which patch one row once the server has    *)
(*     accepted them and then refresh;                                     *)
(*   - sign-out, which drops the source while its requests are in flight,  *)
(*     and sign-in, which makes a fresh source over the same skeleton.     *)
(*                                                                         *)
(* One account signs out and in again; the requests of the dropped source  *)
(* are in "ghost" until they come back.                                    *)
(***************************************************************************)
EXTENDS DeltaPoll

CONSTANTS
    Mine,         \* the visible values the filter claimed_by=me selects
    OwnMoves,     \* the moves this app asks for (claim, complete, ...)
    MaxLists,     \* bound: listTasks() calls
    MaxWrites     \* bound: own mutations (sign-outs count as faults)

ASSUME SourceAssumption ==
    /\ Mine \subseteq Vis /\ OwnMoves \subseteq Moves
    /\ MaxLists \in Nat /\ MaxWrites \in Nat

VARIABLES
    signedIn,  \* the auth state
    lists,     \* list requests of the current source
    writes,    \* own mutations sent and not answered yet
    ghost,     \* what a dropped source still has: memory and requests
    unsure,    \* history: the refresh that follows an own mutation failed
    used       \* how many list calls, refreshes and mutations there were

sourceVars == <<signedIn, lists, writes, ghost, unsure, used>>
allVars == <<vars, sourceVars>>

\* A list call: its filter, and its rows once the response is there.
List == [no : 1..(MaxLists + MaxWrites), filter : {"all", "mine"},
         answered : BOOLEAN, rows : Rows]

\* A mutation: the task, the value asked for, whether the server accepted it.
Write == [task : Tasks, to : Vis, done : BOOLEAN]

NoGhost == [cache |-> Nothing, sig |-> NoSig, flight |-> {}, lists |-> {}]

SourceTypeOK ==
    /\ TypeOK
    /\ signedIn \in BOOLEAN
    /\ lists \subseteq List /\ writes \subseteq Write
    /\ DOMAIN ghost = {"cache", "sig", "flight", "lists"}
    /\ ghost.cache \in Rows /\ ghost.flight \subseteq Pull
    /\ ghost.lists \subseteq List
    /\ ghost.sig \in UNION {[S -> Vis] : S \in SUBSET Tasks}
    /\ unsure \in BOOLEAN
    /\ used \in [lists : 0..MaxLists, refreshes : 0..MaxWrites,
                 writes : 0..MaxWrites]

SourceInit ==
    /\ Init
    /\ signedIn = FALSE
    /\ lists = {} /\ writes = {} /\ ghost = NoGhost /\ unsure = FALSE
    /\ used = [lists |-> 0, refreshes |-> 0, writes |-> 0]

-----------------------------------------------------------------------------
(* The steps of DeltaPoll. A new source is made only while signed in; a    *)
(* process death takes the dropped source's requests along.                *)

PollStep ==
    /\ \/ ServerNext \/ Trigger \/ SyncNow \/ SyncReturns \/ PollAsk \/ PollSkip
       \/ Answer \/ Handle
       \/ \E p \in flight : AnswerGarbled(p) \/ RequestFails(p) \/ RequestRefused(p)
       \/ Boot /\ signedIn
    /\ UNCHANGED sourceVars

ProcessDies ==
    /\ \/ Crash
       \/ \E p \in flight : CrashMidDelta(p) \/ CrashMidFull(p)
    /\ lists' = {} /\ writes' = {} /\ ghost' = NoGhost /\ unsure' = FALSE
    /\ UNCHANGED <<signedIn, used>>

-----------------------------------------------------------------------------
(* listTasks()                                                             *)

NewList(n, f) == [no |-> n, filter |-> f, answered |-> FALSE, rows |-> Nothing]

\* A window pulls the list.
ListAsk ==
    /\ up /\ used.lists < MaxLists
    /\ used' = [used EXCEPT !.lists = @ + 1]
    /\ \E f \in {"all", "mine"} : lists' = lists \union {NewList(used.lists + 1, f)}
    /\ Quiet
    /\ UNCHANGED <<serverVars, diskVars, memVars, flightVars, syncVars, up,
                   trusted, faults, signedIn, writes, ghost, unsure>>

Filtered(f) ==
    [t \in Tasks |-> IF server[t] # NoRow /\ (f = "all" \/ server[t].vis \in Mine)
                     THEN server[t] ELSE NoRow]

\* The rows, or none from a 200 whose body does not parse.
ListBodies(l) == {Filtered(l.filter), Nothing}

ListAnswer(l) ==
    /\ ~l.answered
    /\ \E rows \in ListBodies(l) :
          lists' = (lists \ {l}) \union
                      {[l EXCEPT !.answered = TRUE, !.rows = rows]}
    /\ Quiet
    /\ UNCHANGED <<serverVars, diskVars, memVars, flightVars, syncVars, up,
                   trusted, faults, signedIn, writes, ghost, unsure, used>>

\* The request failed: the last-known cache is served, nothing changes.
ListFails(l) ==
    /\ ~l.answered
    /\ lists' = lists \ {l}
    /\ unsure' = (unsure \/ l.no > MaxLists)
    /\ Quiet
    /\ UNCHANGED <<serverVars, diskVars, memVars, flightVars, syncVars, up,
                   trusted, faults, signedIn, writes, ghost, used>>

\* reconcileFromRows and the new signature; no transition is announced, the
\* cursor and firstPoll stay.
ListApply(l) ==
    /\ l.answered
    /\ lists' = lists \ {l}
    /\ skel' \in Attempt(l.rows, skel) /\ cache' = l.rows
    /\ lastSig' = SigOf(l.rows)
    /\ Quiet
    /\ UNCHANGED <<serverVars, cursor, firstPoll, pollCount, flightVars, syncVars,
                   up, trusted, faults, signedIn, writes, ghost, unsure, used>>

-----------------------------------------------------------------------------
(* The app's own mutations (claim, complete, ...).                         *)

WriteSend(t) ==
    /\ up /\ used.writes < MaxWrites
    /\ used' = [used EXCEPT !.writes = @ + 1]
    /\ \E m \in OwnMoves :
          writes' = writes \union {[task |-> t, to |-> m[2], done |-> FALSE]}
    /\ Quiet
    /\ UNCHANGED <<serverVars, diskVars, memVars, flightVars, syncVars, up,
                   trusted, faults, signedIn, lists, ghost, unsure>>

\* The server accepts it ...
WriteCommits(w) ==
    /\ ~w.done
    /\ server[w.task] # NoRow /\ <<server[w.task].vis, w.to>> \in OwnMoves
    /\ server' = [server EXCEPT ![w.task] =
                     [@ EXCEPT !.vis = w.to, !.at = now + 1]]
    /\ UNCHANGED gone
    /\ ServerWrite
    /\ writes' = (writes \ {w}) \union {[w EXCEPT !.done = TRUE]}
    /\ UNCHANGED <<signedIn, lists, ghost, unsure, used>>

\* ... or refuses (404, 409), or the answer never arrives.
WriteLost(w) ==
    /\ writes' = writes \ {w}
    /\ Quiet
    /\ UNCHANGED <<serverVars, diskVars, memVars, flightVars, syncVars, up,
                   trusted, faults, signedIn, lists, ghost, unsure, used>>

Patched(rows, w) ==
    IF rows[w.task] = NoRow THEN rows ELSE [rows EXCEPT ![w.task].vis = w.to]

\* Mutated form: no refresh follows the mutation.
NoRefresh == lists

\* refreshAndBroadcast: a list call of the app's own.
Refresh == lists \union {NewList(MaxLists + used.refreshes + 1, "all")}

\* patchCacheAndBroadcast: patch the row in the cache and on disk (where it is
\* written whole, as the cache has it), then start refreshAndBroadcast.
\* lastSignature is left as it was.
WriteLands(w) ==
    /\ w.done
    /\ writes' = writes \ {w}
    /\ cache' = Patched(cache, w)
    /\ skel' \in Attempt(IF NoRow \in {cache[w.task], skel[w.task]} THEN skel
                        ELSE [skel EXCEPT ![w.task] = cache'[w.task]], skel)
    /\ lists' = Refresh
    /\ used' = [used EXCEPT !.refreshes = @ + 1]
    /\ Quiet
    /\ UNCHANGED <<serverVars, cursor, lastSig, firstPoll, pollCount, flightVars,
                   syncVars, up, trusted, faults, signedIn, ghost, unsure>>

-----------------------------------------------------------------------------
(* Sign-out and sign-in.                                                   *)

\* unregister(): stopPolling() clears the timer, the memory and the skeleton
\* with its cursor, if that can be written. The requests in flight are not
\* aborted.
SignOut ==
    /\ up /\ faults < MaxFaults
    /\ ghost.flight = {} /\ ghost.lists = {}
    /\ faults' = faults + 1
    /\ signedIn' = FALSE /\ up' = FALSE
    /\ \E disk \in Attempt(<<Nothing, 0>>, diskVars) :
          skel' = disk[1] /\ cursor' = disk[2]
    /\ trusted' = (trusted \/ cursor' = 0)
    /\ cache' = Nothing /\ lastSig' = NoSig
    /\ firstPoll' = TRUE /\ pollCount' = 0
    /\ ghost' = [cache |-> Nothing, sig |-> NoSig, flight |-> flight,
                 lists |-> lists]
    /\ phase' = "idle" /\ pollAgain' = FALSE /\ flight' = {} /\ pending' = FALSE
    /\ sync' = "none" /\ moved' = FALSE /\ credit' = "none"
    /\ lists' = {} /\ writes' = {} /\ unsure' = FALSE
    /\ Quiet
    /\ UNCHANGED <<serverVars, syncs, used>>

SignIn ==
    /\ ~signedIn /\ ~up
    /\ signedIn' = TRUE
    /\ Quiet
    /\ UNCHANGED <<serverVars, diskVars, memVars, flightVars, syncVars, up,
                   trusted, faults, lists, writes, ghost, unsure, used>>

\* The dropped source handles what still comes back, as in Handle and
\* ListApply, on its own memory but on the common skeleton and cursor.
IsDelta(p) == p.since # 0 /\ p.body.envelope

Onto(base, p) == IF IsDelta(p) THEN Apply(base, p.body) ELSE p.body.rows

GhostIdle(p) == IF IsDelta(p) THEN EmptyDelta(p.body)
                ELSE SigOf(p.body.rows) = ghost.sig

GhostPull(p) ==
    /\ p.answered
    /\ IF p.since = 0 \/ IsDelta(p) THEN AdvanceCursor(p.body)
                                    ELSE UNCHANGED cursor
    /\ \/ /\ GhostIdle(p)
          /\ ghost' = [ghost EXCEPT !.flight = @ \ {p}]
          /\ Quiet
          /\ UNCHANGED skel
       \/ /\ ~GhostIdle(p)
          /\ skel' \in Attempt(Onto(skel, p), skel)
          /\ ghost' = [ghost EXCEPT !.flight = @ \ {p}, !.cache = Onto(@, p),
                                    !.sig = SigOf(Onto(ghost.cache, p))]
          /\ notices' = Transitions(ghost.cache, p.body.rows, TRUE)
    /\ trusted' = FALSE
    /\ UNCHANGED <<serverVars, memVars, flightVars, syncVars, up, faults,
                   signedIn, lists, writes, unsure, used>>

GhostList(l) ==
    /\ l.answered
    /\ skel' \in Attempt(l.rows, skel)
    /\ ghost' = [ghost EXCEPT !.lists = @ \ {l}, !.cache = l.rows,
                              !.sig = SigOf(l.rows)]
    /\ Quiet
    /\ UNCHANGED <<serverVars, cursor, memVars, flightVars, syncVars, up, faults,
                   trusted, signedIn, lists, writes, unsure, used>>

\* A request of the dropped source is answered, or fails as the token is gone.
GhostAnswer ==
    /\ \/ \E p \in ghost.flight :
             /\ ~p.answered
             /\ \E q \in {[p EXCEPT !.answered = TRUE, !.body = r] : r \in Bodies(p)} :
                   ghost' = [ghost EXCEPT !.flight = (@ \ {p}) \union {q}]
       \/ \E l \in ghost.lists :
             /\ ~l.answered
             /\ \E rows \in ListBodies(l) :
                   ghost' = [ghost EXCEPT !.lists = (@ \ {l}) \union
                                {[l EXCEPT !.answered = TRUE, !.rows = rows]}]
       \/ \E p \in ghost.flight :
             ~p.answered /\ ghost' = [ghost EXCEPT !.flight = @ \ {p}]
       \/ \E l \in ghost.lists :
             ~l.answered /\ ghost' = [ghost EXCEPT !.lists = @ \ {l}]
    /\ Quiet
    /\ UNCHANGED <<serverVars, diskVars, memVars, flightVars, syncVars, up, faults,
                   trusted, signedIn, lists, writes, unsure, used>>

-----------------------------------------------------------------------------
\* Here MaxLoad bounds list calls and mutations as well.
Load == used.lists + used.writes + faults + syncs

SourceStep ==
    \/ PollStep \/ ProcessDies
    \/ ListAsk
    \/ \E l \in lists : ListAnswer(l) \/ ListFails(l) \/ ListApply(l)
    \/ \E t \in Tasks : WriteSend(t)
    \/ \E w \in writes : WriteCommits(w) \/ WriteLost(w) \/ WriteLands(w)
    \/ SignOut \/ SignIn
    \/ \E p \in ghost.flight : GhostPull(p)
    \/ \E l \in ghost.lists : GhostList(l)
    \/ GhostAnswer

SourceNext == SourceStep /\ Load' <= MaxLoad

SourceSpec == SourceInit /\ [][SourceNext]_allVars

-----------------------------------------------------------------------------
(* Properties.                                                             *)

\* What a mutation or a list response does to the cache behind the poll's back
\* can always be undone: a row on screen that differs from the server's and
\* that the next delta will not carry is corrected by the next full pull
\* (which then does not take the signature short-circuit), or by the refresh
\* that follows an own mutation, unless that refresh fails.
SourceRepairable ==
    up => \/ \A t \in Tasks : \/ Touched(t) > cursor
                              \/ SameVisible(cache[t], server[t])
          \/ lastSig # SigOf(server)
          \/ \E l \in lists : l.no > MaxLists
          \/ unsure

\* stopPolling(): wipe the skeleton "so a different principal signing in on
\* this machine never sees the prior account's routing skeleton", and the
\* cursor.  While nobody is signed in both are empty.
SignedOutClean == ~signedIn => skel = Nothing /\ cursor = 0

=============================================================================
