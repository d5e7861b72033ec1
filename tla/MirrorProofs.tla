--------------------------- MODULE MirrorProofs ---------------------------
(***************************************************************************)
(* Safety of the lists of a window: a list that was told of a change shows *)
(* it, and an answered question stays off the screen.                      *)
(***************************************************************************)
EXTENDS Mirror, FiniteSetTheorems, SequenceTheorems, TLAPS

USE RowAssumption, MirrorAssumption

-----------------------------------------------------------------------------
(* The inductive invariant.                                                *)

RowTypes ==
    /\ server \in Rows /\ fresh \subseteq Tasks
    /\ cache \in Rows /\ skel \in [Tasks -> BOOLEAN \union {None}]
    /\ lastSig \in [Tasks -> BOOLEAN \union {None}] /\ refreshes \in Nat
    /\ changes \in 0..MaxChanges

CallTypes ==
    /\ calls \in [Hooks -> Nat] /\ orphans \in [Filters -> Nat]
    /\ held \in [Hooks -> SUBSET Rows]
    /\ peeks \in Seq(Peek)

HookTypes ==
    /\ filter \in [Hooks -> Filters]
    /\ mirror \in [Hooks -> Rows] /\ screen \in [Hooks -> Rows]
    /\ aged \subseteq overlay /\ overlay \subseteq Tasks

\* A list is on its way to h.
Busy(h) == calls[h] > 0 \/ held[h] # {}

\* A peek on its way will tell h of t.
Coming(h, t) ==
    \E i \in 1..Len(peeks) :
        peeks[i].hook = h /\ t \in peeks[i].ids \union peeks[i].removed

\* What MirrorTold says of h, while peeks are under way too.
Told(h) ==
    ~Busy(h) => \A t \in Tasks \ untold[h] :
                   Coming(h, t) \/ mirror[h][t] = cache[t]

Passes(f, row) == f = "mine" /\ row # None => row.mine

\* The rows of the cache that h was told of are rows of its filter.
Filtered(h) ==
    calls[h] = 0 => \A t \in Tasks \ untold[h] : Passes(filter[h], cache[t])

\* Only hooks with the full list wait for peeks.
AskedByAll ==
    \A i \in 1..Len(peeks) : peeks[i].hook # None => filter[peeks[i].hook] = "all"

\* What a diff removed does not come back.
RemovedGone ==
    \A i \in 1..Len(peeks) : \A t \in peeks[i].removed :
        server[t] = None /\ cache[t] = None

Knows == \A h \in Hooks : Told(h) /\ Filtered(h)

ListInv ==
    /\ CallTypes /\ HookTypes /\ untold \in [Hooks -> SUBSET Tasks]
    /\ AnsweredHidden
    /\ Knows /\ AskedByAll /\ RemovedGone

Inv == RowTypes /\ ListInv

-----------------------------------------------------------------------------
(* Rows.                                                                   *)

LEMMA RoutingType ==
    ASSUME NEW rows \in Rows
    PROVE  Routing(rows) \in [Tasks -> BOOLEAN \union {None}]
  BY DEF Routing, Rows, Row

LEMMA OnlyType ==
    ASSUME NEW rows \in Rows, NEW S
    PROVE  Only(rows, S) \in Rows
  BY DEF Only, Rows

\* A slice of the rows keeps those that pass the filter.
LEMMA SliceRows ==
    ASSUME NEW rows \in Rows, NEW f \in Filters
    PROVE  /\ Slice(f, rows) \in Rows
           /\ \A t \in Tasks : /\ Slice(f, rows)[t] \in {rows[t], None}
                               /\ Slice(f, rows)[t] = rows[t] <=> Passes(f, rows[t])
  <1>1. \A t \in Tasks : rows[t] # None => rows[t].mine \in BOOLEAN
    BY DEF Rows, Row
  <1>2. Slice(f, rows) \in Rows
    BY OnlyType DEF Slice, Claimed
  <1>3. CASE f = "all"
    BY <1>2, <1>3 DEF Slice, Passes
  <1>4. CASE f = "mine"
    <2>1. Slice(f, rows) = Only(rows, {t \in Live(rows) : rows[t].mine})
      BY <1>4 DEF Slice, Claimed
    <2>2. \A t \in Tasks : Slice(f, rows)[t] =
                              IF rows[t] # None /\ rows[t].mine THEN rows[t] ELSE None
      BY <2>1 DEF Only, Live
    <2> QED BY <1>1, <1>2, <1>4, <2>2 DEF Passes
  <1> QED BY <1>3, <1>4 DEF Filters

\* No question is left where an entry of the overlay lies.
LEMMA OverlaidHides ==
    ASSUME NEW list \in Rows, NEW entries
    PROVE  /\ Overlaid(list, entries) \in Rows
           /\ \A t \in Tasks \intersect entries :
                 Overlaid(list, entries)[t] # None => ~Overlaid(list, entries)[t].asked
  <1> DEFINE hushed(row) == [row EXCEPT !.asked = FALSE]
  <1>1. \A row \in Row : hushed(row) \in Row /\ hushed(row).asked = FALSE
    BY DEF Row
  <1>2. \A t \in Tasks :
            Overlaid(list, entries)[t] =
                IF t \in entries /\ list[t] # None THEN hushed(list[t]) ELSE list[t]
    BY DEF Overlaid
  <1> HIDE DEF hushed
  <1>3. \A t \in Tasks : list[t] = None \/ list[t] \in Row
    BY DEF Rows
  <1>4. ASSUME NEW t \in Tasks
        PROVE  /\ Overlaid(list, entries)[t] \in Row \union {None}
               /\ t \in entries /\ Overlaid(list, entries)[t] # None
                     => ~Overlaid(list, entries)[t].asked
    BY <1>1, <1>2, <1>3
  <1>5. Overlaid(list, entries) \in Rows
    BY <1>4 DEF Overlaid, Rows
  <1> QED BY <1>4, <1>5

LEMMA MergedType ==
    ASSUME NEW list \in Rows, NEW peek, NEW rows \in Rows
    PROVE  Merged(list, peek, rows) \in Rows
  BY DEF Merged, Rows

-----------------------------------------------------------------------------
(* The hooks.                                                              *)

\* A list that one hook renders shows no answered question, and takes none of
\* them out of the overlay for the other hooks.
LEMMA RendersOne ==
    ASSUME HookTypes, AnsweredHidden,
           NEW h \in Hooks, NEW list \in Rows, Renders(h, list)
    PROVE  /\ HookTypes' /\ AnsweredHidden'
           /\ mirror' = [mirror EXCEPT ![h] = list] /\ filter' = filter
  <1> DEFINE entries == Pruned(overlay, list)
  <1>1. /\ screen' = [screen EXCEPT ![h] = Overlaid(list, entries)]
        /\ mirror' = [mirror EXCEPT ![h] = list] /\ filter' = filter
        /\ overlay' = entries /\ aged' = aged \intersect entries
    BY DEF Renders
  <1>2. entries \subseteq overlay /\ entries \intersect aged = {}
    BY DEF Pruned
  <1> HIDE DEF entries
  <1>3. Overlaid(list, entries) \in Rows
    BY OverlaidHides
  <1>4. HookTypes'
    BY <1>1, <1>2, <1>3 DEF HookTypes
  <1>5. Young' \subseteq Young /\ Young' \subseteq entries \intersect Tasks
    BY <1>1, <1>2 DEF Young, HookTypes
  <1>6. AnsweredHidden'
    <2> SUFFICES ASSUME NEW i \in Hooks, NEW t \in Young', screen'[i][t] # None
                 PROVE  ~screen'[i][t].asked
      BY DEF AnsweredHidden
    <2>1. CASE i = h
      <3>1. screen'[h] = Overlaid(list, entries)
        BY <1>1 DEF HookTypes
      <3> QED BY <2>1, <3>1, <1>5, OverlaidHides
    <2>2. CASE i # h
      <3>1. screen'[i] = screen[i]
        BY <1>1, <2>2 DEF HookTypes
      <3> QED BY <3>1, <1>5 DEF AnsweredHidden
    <2> QED BY <2>1, <2>2
  <1> QED BY <1>1, <1>4, <1>6

\* The same when all hooks render in turn: the last one's entries are among
\* those each of them laid over its list.
LEMMA RendersEach ==
    ASSUME HookTypes,
           NEW lists \in [Hooks -> Rows], NEW entries \in SUBSET Tasks,
           RendersAll(lists, entries)
    PROVE  HookTypes' /\ AnsweredHidden' /\ mirror' = lists /\ filter' = filter
  <1> DEFINE N == Cardinality(Hooks)
  <1>1. N \in Nat
    BY FS_CardinalityType
  <1> HIDE DEF N
  <1>2. PICK order \in Turns(Hooks) :
           LET left(i) == {t \in entries :
                             \A j \in 1..i : t \in Pruned(entries, lists[order[j]])}
               last == left(N)
               turn(h) == CHOOSE i \in DOMAIN order : order[i] = h
           IN  /\ mirror' = lists
               /\ screen' = [h \in Hooks |-> Overlaid(lists[h], left(turn(h)))]
               /\ overlay' = last /\ aged' = aged \intersect last
               /\ UNCHANGED filter
    BY DEF RendersAll, N
  <1> DEFINE left(i) == {t \in entries :
                           \A j \in 1..i : t \in Pruned(entries, lists[order[j]])}
             turn(h) == CHOOSE i \in DOMAIN order : order[i] = h
  <1>3. /\ mirror' = lists /\ filter' = filter
        /\ screen' = [h \in Hooks |-> Overlaid(lists[h], left(turn(h)))]
        /\ overlay' = left(N) /\ aged' = aged \intersect left(N)
    BY <1>2
  <1>4. \A h \in Hooks : turn(h) \in 1..N
    <2>1. /\ DOMAIN order = 1..N
          /\ \A h \in Hooks : \E i \in 1..N : order[i] = h
      BY DEF Turns, Bijection, Surjection, N
    <2> QED BY <2>1
  <1>5. \A h \in Hooks : left(N) \subseteq left(turn(h))
    BY <1>1, <1>4
  <1>6. left(N) \subseteq Tasks
    OBVIOUS
  <1> HIDE DEF left, turn
  <1>7. \A h \in Hooks : Overlaid(lists[h], left(turn(h))) \in Rows
    BY OverlaidHides
  <1>8. HookTypes'
    BY <1>3, <1>6, <1>7 DEF HookTypes
  <1>9. AnsweredHidden'
    <2> SUFFICES ASSUME NEW h \in Hooks, NEW t \in Young', screen'[h][t] # None
                 PROVE  ~screen'[h][t].asked
      BY DEF AnsweredHidden
    <2>1. screen'[h] = Overlaid(lists[h], left(turn(h)))
      BY <1>3
    <2>2. t \in Tasks \intersect left(turn(h))
      BY <1>3, <1>5, <1>6 DEF Young
    <2> QED BY <2>1, <2>2, OverlaidHides
  <1> QED BY <1>3, <1>8, <1>9

-----------------------------------------------------------------------------
(* What the hooks know.                                                    *)

\* A hook whose list and calls a step leaves alone knows what it knew, but for
\* the rows that moved.
LEMMA KnowsAsBefore ==
    ASSUME NEW h \in Hooks, Told(h), Filtered(h),
           mirror'[h] = mirror[h], filter'[h] = filter[h],
           calls'[h] = calls[h], held'[h] = held[h],
           untold[h] \union Moved \subseteq untold'[h],
           \A t \in Tasks : Coming(h, t) => Coming(h, t)'
    PROVE  Told(h)' /\ Filtered(h)'
  <1>1. \A t \in Tasks \ untold'[h] : t \in Tasks \ untold[h] /\ cache'[t] = cache[t]
    BY DEF Moved
  <1>2. Told(h)'
    BY <1>1 DEF Told, Busy
  <1>3. Filtered(h)'
    BY <1>1 DEF Filtered
  <1> QED BY <1>2, <1>3

LEMMA PeekTypes ==
    ASSUME CallTypes
    PROVE  \A i \in 1..Len(peeks) :
              /\ peeks[i] \in Peek
              /\ peeks[i].ids \subseteq Tasks /\ peeks[i].removed \subseteq Tasks
  <1>1. \A p \in Peek : p.ids \subseteq Tasks /\ p.removed \subseteq Tasks
    BY DEF Peek
  <1>2. \A i \in 1..Len(peeks) : peeks[i] \in Peek
    BY ElementOfSeq DEF CallTypes
  <1> QED BY <1>1, <1>2

\* A sequence and another one behind it.
LEMMA Behind ==
    ASSUME NEW S, NEW first \in Seq(S), NEW more \in Seq(S)
    PROVE  /\ first \o more \in Seq(S) /\ Len(first \o more) = Len(first) + Len(more)
           /\ \A i \in 1..Len(first) : (first \o more)[i] = first[i]
           /\ \A i \in 1..Len(more) : (first \o more)[Len(first) + i] = more[i]
  <1>1. Len(first) \in Nat /\ Len(more) \in Nat
    OBVIOUS
  <1>2. ASSUME NEW i \in 1..Len(more)
        PROVE  (first \o more)[Len(first) + i] = more[i]
    <2>1. Len(first) + i \in 1..Len(first) + Len(more) /\ ~(Len(first) + i <= Len(first))
      BY <1>1
    <2>2. (Len(first) + i) - Len(first) = i
      BY <1>1
    <2> QED BY <2>1, <2>2, ConcatProperties
  <1> QED BY <1>1, <1>2, ConcatProperties

\* What is gone stays so while no peek is sent.
LEMMA GoneAsBefore ==
    ASSUME RemovedGone, peeks' = peeks, CallTypes,
           \A t \in Tasks : server[t] = None /\ cache[t] = None
                               => server'[t] = None /\ cache'[t] = None
    PROVE  RemovedGone'
  <1> QED BY PeekTypes DEF RemovedGone

LEMMA AskedAsBefore ==
    ASSUME AskedByAll, peeks' = peeks, filter' = filter
    PROVE  AskedByAll'
  BY DEF AskedByAll

\* After a ping every hook has a list on its way.
LEMMA PingsAll ==
    ASSUME ListInv, Pings, held' = held, orphans' = orphans,
           \A t \in Tasks : server[t] = None /\ cache[t] = None
                               => server'[t] = None /\ cache'[t] = None
    PROVE  ListInv'
  <1> USE DEF ListInv
  <1>1. /\ calls' = [h \in Hooks |-> calls[h] + 1] /\ untold' = [h \in Hooks |-> {}]
        /\ peeks' = peeks /\ UNCHANGED hookVars
    BY DEF Pings, Loads
  <1>2. CallTypes' /\ HookTypes' /\ untold' \in [Hooks -> SUBSET Tasks]
    BY <1>1 DEF CallTypes, HookTypes, hookVars
  <1>3. AnsweredHidden'
    BY <1>1 DEF AnsweredHidden, Young, hookVars
  <1>4. \A h \in Hooks : calls'[h] > 0 /\ calls'[h] # 0
    BY <1>1 DEF CallTypes
  <1>5. Knows'
    BY <1>4 DEF Knows, Told, Busy, Filtered
  <1>6. AskedByAll' /\ RemovedGone'
    BY <1>1, GoneAsBefore, AskedAsBefore DEF hookVars
  <1> QED BY <1>2, <1>3, <1>5, <1>6

\* A diff of removals is applied at once.
LEMMA PrunesAll ==
    ASSUME ListInv, RowTypes', NEW removed \in SUBSET Tasks,
           Prunes(removed), held' = held, orphans' = orphans,
           untold' = [h \in Hooks |-> (untold[h] \union Moved) \ removed],
           \A t \in removed : cache'[t] = None,
           \A t \in Tasks : server[t] = None /\ cache[t] = None
                               => server'[t] = None /\ cache'[t] = None
    PROVE  ListInv'
  <1> USE DEF ListInv
  <1> DEFINE pruned == [h \in Hooks |-> Only(mirror[h], Tasks \ removed)]
  <1>1. calls' = calls /\ peeks' = peeks /\ RendersAll(pruned, overlay)
    BY DEF Prunes
  <1>2. pruned \in [Hooks -> Rows] /\ overlay \in SUBSET Tasks
    BY OnlyType DEF HookTypes
  <1>3. HookTypes' /\ AnsweredHidden' /\ mirror' = pruned /\ filter' = filter
    BY <1>1, <1>2, RendersEach
  <1>4. CallTypes' /\ untold' \in [Hooks -> SUBSET Tasks]
    BY <1>1 DEF CallTypes, Moved
  <1>5. AskedByAll' /\ RemovedGone'
    BY <1>1, <1>3, GoneAsBefore, AskedAsBefore
  <1>6. ASSUME NEW h \in Hooks
        PROVE  Told(h)' /\ Filtered(h)'
    <2>1. \A t \in Tasks : mirror'[h][t] = IF t \in removed THEN None ELSE mirror[h][t]
      BY <1>3 DEF Only
    <2>2. \A t \in Tasks \ untold'[h] :
             t \in removed \/ (t \in Tasks \ untold[h] /\ cache'[t] = cache[t])
      BY DEF Moved
    <2>3. Told(h) /\ Filtered(h)
      BY DEF Knows
    <2>4. \A t \in Tasks : Coming(h, t)' = Coming(h, t)
      BY <1>1 DEF Coming
    <2>5. Told(h)'
      BY <1>1, <2>1, <2>2, <2>3, <2>4 DEF Told, Busy
    <2>6. Filtered(h)'
      BY <1>1, <1>3, <2>2, <2>3 DEF Filtered, Passes
    <2> QED BY <2>5, <2>6
  <1> QED BY <1>3, <1>4, <1>5, <1>6 DEF Knows

\* After any other diff a peek that names the rows, or a list, is on its way to
\* every hook.
LEMMA AsksAll ==
    ASSUME ListInv, RowTypes', NEW asked \in SUBSET Tasks, NEW removed \in SUBSET Tasks,
           Asks(asked, removed), held' = held, orphans' = orphans,
           untold' = [h \in Hooks |-> (untold[h] \union Moved) \ (asked \union removed)],
           \A t \in removed : server'[t] = None /\ cache'[t] = None,
           \A t \in asked : Passes("all", cache'[t]),
           \A t \in Tasks : server[t] = None /\ cache[t] = None
                               => server'[t] = None /\ cache'[t] = None
    PROVE  ListInv'
  <1> USE DEF ListInv
  <1> DEFINE all == {h \in Hooks : Peekable(h)}
             N == Cardinality(all)
  <1>1. N \in Nat
    BY FS_CardinalityType, FS_Subset
  <1>2. PICK order \in Turns(all) :
           peeks' = peeks \o [i \in 1..N |->
                        [hook |-> order[i], ids |-> asked, removed |-> removed]]
    BY DEF Asks
  <1>3. /\ order \in [1..N -> all]
        /\ \A h \in all : \E i \in 1..N : order[i] = h
    BY <1>2 DEF Turns, Bijection, Surjection, Injection
  <1>4. /\ calls' = [h \in Hooks |-> IF ~Peekable(h) THEN calls[h] + 1 ELSE calls[h]]
        /\ UNCHANGED hookVars
    BY DEF Asks, Loads
  <1>5. \A h \in all : h \in Hooks /\ filter[h] = "all"
    BY DEF Peekable
  <1>6. \A h \in Hooks \ all : ~Peekable(h)
    OBVIOUS
  <1> DEFINE news == [i \in 1..N |->
                        [hook |-> order[i], ids |-> asked, removed |-> removed]]
             L == Len(peeks)
  <1> HIDE DEF all, N
  <1>7. news \in Seq(Peek) /\ Len(news) = N
    <2>1. \A i \in 1..N : [hook |-> order[i], ids |-> asked, removed |-> removed] \in Peek
      BY <1>3, <1>5 DEF Peek
    <2> QED BY <2>1, <1>1
  <1>8. \A i \in 1..N : /\ news[i].hook = order[i] /\ news[i].ids = asked
                        /\ news[i].removed = removed
    OBVIOUS
  <1> HIDE DEF news
  <1>9. /\ peeks' \in Seq(Peek) /\ Len(peeks') = L + N /\ L \in Nat
        /\ \A i \in 1..L : peeks'[i] = peeks[i]
        /\ \A i \in 1..N : peeks'[L + i] = news[i]
    <2>1. peeks \in Seq(Peek) /\ peeks' = peeks \o news
      BY <1>2 DEF CallTypes, news
    <2> QED BY <1>7, <2>1, Behind
  <1> HIDE DEF L
  <1>10. \A i \in 1..Len(peeks') :
            \/ i \in 1..L /\ peeks'[i] = peeks[i]
            \/ \E j \in 1..N : peeks'[i] = news[j]
    <2> SUFFICES ASSUME NEW i \in 1..Len(peeks'), i \notin 1..L
                 PROVE  \E j \in 1..N : peeks'[i] = news[j]
      BY <1>9
    <2>1. i \in 1..(L + N)
      BY <1>9
    <2>2. i - L \in 1..N /\ L + (i - L) = i
      BY <1>1, <1>9, <2>1
    <2>3. peeks'[i] = news[i - L]
      BY <1>9, <2>2
    <2> QED BY <2>2, <2>3
  <1>11. CallTypes' /\ HookTypes' /\ untold' \in [Hooks -> SUBSET Tasks]
    BY <1>4, <1>9 DEF CallTypes, HookTypes, hookVars, Moved
  <1>12. AnsweredHidden'
    BY <1>4 DEF AnsweredHidden, Young, hookVars
  <1>13. AskedByAll'
    BY <1>3, <1>4, <1>5, <1>8, <1>10 DEF AskedByAll, hookVars, L
  <1>14. RemovedGone'
    <2>1. \A i \in 1..L : peeks[i].removed \subseteq Tasks
      BY PeekTypes DEF L
    <2> QED BY <1>8, <1>10, <2>1 DEF RemovedGone, L
  <1>15. ASSUME NEW h \in Hooks
         PROVE  Told(h)' /\ Filtered(h)'
    <2>1. CASE h \in all
      <3>1. \A t \in asked \union removed : Coming(h, t)'
        <4>1. PICK i \in 1..N : order[i] = h
          BY <1>3, <2>1
        <4>2. L + i \in 1..Len(peeks')
          BY <1>1, <1>9
        <4> QED BY <1>8, <1>9, <4>1, <4>2 DEF Coming
      <3>2. \A t \in Tasks : Coming(h, t) => Coming(h, t)'
        <4>1. \A i \in 1..L : i \in 1..Len(peeks')
          BY <1>1, <1>9
        <4> QED BY <1>9, <4>1 DEF Coming, L
      <3>3. \A t \in Tasks \ untold'[h] :
               t \in asked \union removed \/ (t \in Tasks \ untold[h] /\ cache'[t] = cache[t])
        BY DEF Moved
      <3>4. /\ calls'[h] = calls[h] /\ held'[h] = held[h]
            /\ mirror'[h] = mirror[h] /\ filter'[h] = "all"
        BY <1>4, <1>5, <2>1 DEF hookVars, Peekable
      <3>5. Told(h)'
        BY <3>1, <3>2, <3>3, <3>4 DEF Knows, Told, Busy
      <3>6. Filtered(h)'
        BY <3>4 DEF Filtered, Passes
      <3> QED BY <3>5, <3>6
    <2>2. CASE h \notin all
      <3>1. calls'[h] > 0 /\ calls'[h] # 0
        BY <1>4, <1>6, <2>2 DEF CallTypes
      <3> QED BY <3>1 DEF Told, Busy, Filtered
    <2> QED BY <2>1, <2>2
  <1> QED BY <1>11, <1>12, <1>13, <1>14, <1>15 DEF Knows

\* Whatever a poll broadcasts, every hook is told of it.
LEMMA BroadcastsAll ==
    ASSUME ListInv, RowTypes', NEW asked \in SUBSET Tasks, NEW removed \in SUBSET Tasks,
           Broadcasts(asked, removed), held' = held, orphans' = orphans,
           \A t \in removed : server'[t] = None /\ cache'[t] = None,
           \A t \in Tasks : server[t] = None /\ cache[t] = None
                               => server'[t] = None /\ cache'[t] = None
    PROVE  ListInv'
  <1>1. CASE asked \union removed = {}
    BY <1>1, PingsAll DEF Broadcasts
  <1>2. CASE asked = {} /\ removed # {}
    <2>1. /\ Prunes(removed)
          /\ untold' = [h \in Hooks |-> (untold[h] \union Moved) \ removed]
      BY <1>2 DEF Broadcasts
    <2> QED BY <2>1, PrunesAll
  <1>3. CASE asked # {}
    <2>1. /\ Asks(asked, removed)
          /\ untold' = [h \in Hooks |-> (untold[h] \union Moved) \ (asked \union removed)]
      BY <1>3 DEF Broadcasts
    <2>2. \A t \in asked : Passes("all", cache'[t])
      BY DEF Passes
    <2> QED BY <2>1, <2>2, AsksAll
  <1> QED BY <1>1, <1>2, <1>3

-----------------------------------------------------------------------------
(* The steps.                                                              *)

\* A row that is gone at the server and in the cache stays gone.
StaysGone ==
    \A t \in Tasks : server[t] = None /\ cache[t] = None
                        => server'[t] = None /\ cache'[t] = None

\* A change of one task that exists.
LEMMA ChangeTypes ==
    ASSUME RowTypes, NEW t \in Tasks, NEW row \in Row \union {None},
           server[t] # None, Change(t, row)
    PROVE  /\ server' \in Rows /\ fresh' \subseteq Tasks /\ changes' \in 0..MaxChanges
           /\ \A u \in Tasks : server[u] = None => server'[u] = None
  <1>1. changes' \in 0..MaxChanges
    BY DEF Change, RowTypes
  <1>2. server' = [server EXCEPT ![t] = row] /\ fresh' = fresh \union {t}
    BY DEF Change
  <1> QED BY <1>1, <1>2 DEF RowTypes, Rows

\* The cache takes rows that are no more than the server's.
LEMMA ReconcileTypes ==
    ASSUME RowTypes, NEW rows \in Rows, Reconcile(rows)
    PROVE  /\ cache' \in Rows /\ skel' \in [Tasks -> BOOLEAN \union {None}]
           /\ lastSig' \in [Tasks -> BOOLEAN \union {None}]
  BY RoutingType DEF Reconcile

LEMMA ListsTypes ==
    ASSUME RowTypes, NEW f \in Filters, Lists(f), UNCHANGED <<serverVars, refreshes>>
    PROVE  RowTypes' /\ StaysGone
  <1>1. Slice(f, server) \in Rows
    BY SliceRows DEF RowTypes
  <1>2. CASE Reconcile(Slice(f, server))
    <2>1. RowTypes'
      BY <1>1, <1>2, ReconcileTypes DEF RowTypes, serverVars
    <2>2. \A t \in Tasks : server[t] = None => cache'[t] = None
      BY <1>2, SliceRows DEF Reconcile, RowTypes, Filters
    <2> QED BY <2>1, <2>2 DEF StaysGone, serverVars
  <1>3. CASE UNCHANGED <<cache, skel, lastSig>>
    BY <1>3 DEF RowTypes, StaysGone, serverVars
  <1> QED BY <1>2, <1>3 DEF Lists

\* A step that only the rows see.
LEMMA ListsIdle ==
    ASSUME ListInv, UNCHANGED <<callVars, hookVars, untold, cache>>, StaysGone
    PROVE  ListInv'
  <1> USE DEF ListInv
  <1>1. CallTypes' /\ HookTypes' /\ untold' \in [Hooks -> SUBSET Tasks]
    BY DEF CallTypes, HookTypes, callVars, hookVars
  <1>2. AnsweredHidden'
    BY DEF AnsweredHidden, Young, hookVars
  <1>3. Knows'
    BY DEF Knows, Told, Busy, Coming, Filtered, callVars, hookVars
  <1>4. AskedByAll' /\ RemovedGone'
    BY GoneAsBefore, AskedAsBefore DEF callVars, hookVars, StaysGone
  <1> QED BY <1>1, <1>2, <1>3, <1>4

LEMMA OthersWriteStep ==
    ASSUME Inv, NEW t \in Tasks, OthersWrite(t)
    PROVE  Inv'
  <1>1. PICK row \in Row \union {None} : Change(t, row)
    BY DEF OthersWrite
  <1>2. server[t] # None /\ UNCHANGED <<cacheVars, callVars, hookVars, untold>>
    BY DEF OthersWrite
  <1>3. RowTypes' /\ StaysGone
    BY <1>1, <1>2, ChangeTypes DEF Inv, RowTypes, cacheVars, StaysGone
  <1> QED BY <1>2, <1>3, ListsIdle DEF Inv, cacheVars

LEMMA OwnWriteStep ==
    ASSUME Inv, NEW t \in Tasks, OwnWrite(t)
    PROVE  Inv'
  <1> USE DEF Inv
  <1>1. PICK mine \in BOOLEAN :
          /\ Change(t, [server[t] EXCEPT !.mine = mine])
          /\ IF cache[t] = None
             THEN UNCHANGED <<cache, skel>>
             ELSE /\ cache' = [cache EXCEPT ![t].mine = mine]
                  /\ skel' = IF skel[t] = None THEN skel
                             ELSE [skel EXCEPT ![t] = mine]
    BY DEF OwnWrite
  <1>2. /\ server[t] # None /\ refreshes' = refreshes + 1 /\ Pings
        /\ UNCHANGED <<lastSig, orphans, held>>
    BY DEF OwnWrite
  <1>3. \A row \in Row : [row EXCEPT !.mine = mine] \in Row
    BY DEF Row
  <1>4. [server[t] EXCEPT !.mine = mine] \in Row
    BY <1>2, <1>3 DEF RowTypes, Rows
  <1>5. cache[t] # None => [cache[t] EXCEPT !.mine = mine] \in Row
    BY <1>3 DEF RowTypes, Rows
  <1>6. CASE cache[t] = None
    <2>1. UNCHANGED <<cache, skel>>
      BY <1>1, <1>6
    <2>2. RowTypes' /\ StaysGone
      BY <1>1, <1>2, <1>4, <2>1, ChangeTypes DEF RowTypes, StaysGone
    <2> QED BY <1>2, <2>2, PingsAll DEF StaysGone
  <1>7. CASE cache[t] # None
    <2>1. /\ cache' = [cache EXCEPT ![t] = [cache[t] EXCEPT !.mine = mine]]
          /\ skel' = IF skel[t] = None THEN skel ELSE [skel EXCEPT ![t] = mine]
      BY <1>1, <1>7
    <2>2. cache' \in Rows /\ skel' \in [Tasks -> BOOLEAN \union {None}]
      BY <1>5, <1>7, <2>1 DEF RowTypes, Rows
    <2>3. RowTypes' /\ StaysGone
      BY <1>1, <1>2, <1>4, <1>7, <2>1, <2>2, ChangeTypes DEF RowTypes, Rows, StaysGone
    <2> QED BY <1>2, <2>3, PingsAll DEF StaysGone
  <1> QED BY <1>6, <1>7

LEMMA OwnDeleteStep ==
    ASSUME Inv, NEW t \in Tasks, OwnDelete(t)
    PROVE  Inv'
  <1> USE DEF Inv
  <1>1. /\ server[t] # None /\ Change(t, None)
        /\ cache' = [cache EXCEPT ![t] = None]
        /\ refreshes' = refreshes + 1 /\ Pings
        /\ UNCHANGED <<skel, lastSig, orphans, held>>
    BY DEF OwnDelete
  <1>2. RowTypes' /\ StaysGone
    BY <1>1, ChangeTypes DEF RowTypes, Rows, StaysGone
  <1> QED BY <1>1, <1>2, PingsAll DEF StaysGone

LEMMA RefreshedStep ==
    ASSUME Inv, Refreshed
    PROVE  Inv'
  <1> USE DEF Inv
  <1>1. /\ refreshes > 0 /\ refreshes' = refreshes - 1 /\ Pings
        /\ UNCHANGED <<serverVars, orphans, held>>
        /\ Reconcile(server) \/ UNCHANGED <<cache, skel, lastSig>>
    BY DEF Refreshed
  <1>2. refreshes' \in Nat
    BY <1>1 DEF RowTypes
  <1>3. CASE Reconcile(server)
    <2>1. RowTypes'
      BY <1>1, <1>2, <1>3, ReconcileTypes DEF RowTypes, serverVars
    <2>2. StaysGone
      BY <1>1, <1>3 DEF StaysGone, Reconcile, serverVars
    <2> QED BY <1>1, <2>1, <2>2, PingsAll DEF StaysGone
  <1>4. CASE UNCHANGED <<cache, skel, lastSig>>
    <2>1. RowTypes' /\ StaysGone
      BY <1>1, <1>2, <1>4 DEF RowTypes, serverVars, StaysGone
    <2> QED BY <1>1, <2>1, PingsAll DEF StaysGone
  <1> QED BY <1>1, <1>3, <1>4

\* A delta takes the rows of the server that changed.
LEMMA PollDeltaStep ==
    ASSUME Inv, PollDelta
    PROVE  Inv'
  <1> USE DEF Inv
  <1>1. /\ fresh' = {}
        /\ cache' = [t \in Tasks |-> IF t \in fresh THEN server[t] ELSE cache[t]]
        /\ skel' = [t \in Tasks |-> IF t \in fresh THEN Routing(server)[t] ELSE skel[t]]
        /\ lastSig' = Routing(cache')
        /\ Broadcasts(Asked(server, fresh), Removed(server, fresh))
        /\ UNCHANGED <<server, changes, refreshes, orphans, held>>
    BY DEF PollDelta
  <1>2. cache' \in Rows
    BY <1>1 DEF RowTypes, Rows
  <1>3. Routing(server) \in [Tasks -> BOOLEAN \union {None}]
    BY RoutingType DEF RowTypes
  <1>4. lastSig' \in [Tasks -> BOOLEAN \union {None}]
    BY <1>1, <1>2, RoutingType
  <1>5. skel' \in [Tasks -> BOOLEAN \union {None}]
    BY <1>1, <1>3 DEF RowTypes
  <1>6. RowTypes'
    BY <1>1, <1>2, <1>4, <1>5 DEF RowTypes
  <1>7. StaysGone
    BY <1>1 DEF StaysGone
  <1>8. /\ Asked(server, fresh) \in SUBSET Tasks /\ Removed(server, fresh) \in SUBSET Tasks
        /\ \A t \in Removed(server, fresh) : server'[t] = None /\ cache'[t] = None
    BY <1>1 DEF Asked, Removed, RowTypes
  <1> QED BY <1>1, <1>6, <1>7, <1>8, BroadcastsAll DEF StaysGone

\* A full pull takes all of them, or none when the signature is the last one.
LEMMA PollFullStep ==
    ASSUME Inv, PollFull
    PROVE  Inv'
  <1> USE DEF Inv
  <1>1. fresh' = {} /\ UNCHANGED <<server, changes, refreshes, orphans, held>>
    BY DEF PollFull
  <1>2. CASE Routing(server) = lastSig
    <2>1. UNCHANGED <<cache, skel, lastSig, calls, peeks, hookVars, untold>>
      BY <1>2 DEF PollFull
    <2>2. RowTypes' /\ StaysGone
      BY <1>1, <2>1 DEF RowTypes, StaysGone
    <2> QED BY <1>1, <2>1, <2>2, ListsIdle DEF callVars
  <1>3. CASE Routing(server) # lastSig
    <2>1. /\ Reconcile(server)
          /\ Broadcasts(Asked(server, Tasks), Removed(server, Tasks))
      BY <1>3 DEF PollFull
    <2>2. RowTypes'
      BY <1>1, <2>1, ReconcileTypes DEF RowTypes
    <2>3. StaysGone
      BY <1>1, <2>1 DEF Reconcile, StaysGone
    <2>4. /\ Asked(server, Tasks) \in SUBSET Tasks /\ Removed(server, Tasks) \in SUBSET Tasks
          /\ \A t \in Removed(server, Tasks) : server'[t] = None /\ cache'[t] = None
      BY <1>1, <2>1 DEF Asked, Removed, Reconcile
    <2> QED BY <1>1, <2>1, <2>2, <2>3, <2>4, BroadcastsAll DEF StaysGone
  <1> QED BY <1>2, <1>3

\* The answer of a list call.
LEMMA ListServedStep ==
    ASSUME Inv, NEW h \in Hooks, ListServed(h)
    PROVE  Inv'
  <1> USE DEF Inv, ListInv
  <1>1. /\ calls[h] > 0 /\ calls' = [calls EXCEPT ![h] = @ - 1]
        /\ Lists(filter[h])
        /\ IF Remote
           THEN held' = [held EXCEPT ![h] = @ \union {cache'}] /\ UNCHANGED hookVars
           ELSE Renders(h, cache') /\ UNCHANGED held
        /\ untold' = [i \in Hooks |->
                     IF i = h
                     THEN {t \in Tasks : cache'[t] # Slice(filter[h], cache')[t]}
                     ELSE untold[i] \union Moved]
        /\ UNCHANGED <<serverVars, refreshes, orphans, peeks>>
    BY DEF ListServed
  <1>2. filter[h] \in Filters
    BY DEF HookTypes
  <1>3. RowTypes' /\ StaysGone
    BY <1>1, <1>2, ListsTypes
  <1>4. cache' \in Rows
    BY <1>3 DEF RowTypes
  <1>5. /\ held' \in [Hooks -> SUBSET Rows]
        /\ HookTypes' /\ AnsweredHidden' /\ filter' = filter
        /\ held'[h] # {} \/ mirror'[h] = cache'
        /\ \A i \in Hooks \ {h} : held'[i] = held[i] /\ mirror'[i] = mirror[i]
    <2>1. CASE Remote
      <3>1. held' = [held EXCEPT ![h] = @ \union {cache'}] /\ UNCHANGED hookVars
        BY <1>1, <2>1
      <3>2. HookTypes' /\ filter' = filter /\ mirror' = mirror
        BY <3>1 DEF HookTypes, hookVars
      <3>3. AnsweredHidden'
        BY <3>1 DEF AnsweredHidden, Young, hookVars
      <3>4. /\ held' \in [Hooks -> SUBSET Rows] /\ held'[h] # {}
            /\ \A i \in Hooks \ {h} : held'[i] = held[i]
        BY <1>4, <3>1 DEF CallTypes
      <3> QED BY <3>2, <3>3, <3>4
    <2>2. CASE ~Remote
      <3>1. Renders(h, cache') /\ held' = held
        BY <1>1, <2>2
      <3>2. /\ HookTypes' /\ AnsweredHidden'
            /\ mirror' = [mirror EXCEPT ![h] = cache'] /\ filter' = filter
        BY <1>4, <3>1, RendersOne
      <3> QED BY <3>1, <3>2 DEF CallTypes, HookTypes
    <2> QED BY <2>1, <2>2
  <1>6. CallTypes' /\ untold' \in [Hooks -> SUBSET Tasks]
    <2>1. calls' \in [Hooks -> Nat]
      BY <1>1 DEF CallTypes
    <2> QED BY <1>1, <1>5, <2>1 DEF CallTypes, Moved
  <1>7. AskedByAll' /\ RemovedGone'
    BY <1>1, <1>3, <1>5, GoneAsBefore, AskedAsBefore DEF StaysGone
  <1>8. Told(h)' /\ Filtered(h)'
    <2>1. \A t \in Tasks \ untold'[h] : cache'[t] = Slice(filter[h], cache')[t]
      BY <1>1
    <2>2. \A t \in Tasks \ untold'[h] : Passes(filter'[h], cache'[t])
      BY <1>2, <1>4, <1>5, <2>1, SliceRows
    <2> QED BY <1>5, <2>2 DEF Told, Busy, Filtered
  <1>9. ASSUME NEW i \in Hooks, i # h
        PROVE  Told(i)' /\ Filtered(i)'
    <2>1. /\ calls'[i] = calls[i] /\ held'[i] = held[i] /\ mirror'[i] = mirror[i]
          /\ filter'[i] = filter[i] /\ untold'[i] = untold[i] \union Moved
      BY <1>1, <1>5, <1>9 DEF CallTypes
    <2>2. \A t \in Tasks : Coming(i, t) => Coming(i, t)'
      BY <1>1 DEF Coming
    <2> QED BY <2>1, <2>2, KnowsAsBefore DEF Knows
  <1> QED BY <1>3, <1>5, <1>6, <1>7, <1>8, <1>9 DEF Knows

\* A list that waited for the hosts.
LEMMA HostsServedStep ==
    ASSUME Inv, NEW h \in Hooks, HostsServed(h)
    PROVE  Inv'
  <1> USE DEF Inv, ListInv
  <1>1. PICK rows \in held[h] :
           /\ held' = [held EXCEPT ![h] = @ \ {rows}]
           /\ Renders(h, rows)
           /\ untold' = [untold EXCEPT ![h] = @ \union {t \in Tasks : rows[t] # cache[t]}]
           /\ UNCHANGED <<serverVars, cacheVars, calls, orphans, peeks>>
    BY DEF HostsServed
  <1>2. rows \in Rows
    BY DEF CallTypes
  <1>3. /\ HookTypes' /\ AnsweredHidden'
        /\ mirror' = [mirror EXCEPT ![h] = rows] /\ filter' = filter
    BY <1>1, <1>2, RendersOne
  <1>4. RowTypes' /\ StaysGone /\ cache' = cache
    BY <1>1 DEF RowTypes, StaysGone, serverVars, cacheVars
  <1>5. CallTypes' /\ untold' \in [Hooks -> SUBSET Tasks]
    BY <1>1 DEF CallTypes
  <1>6. AskedByAll' /\ RemovedGone'
    BY <1>1, <1>3, <1>4, GoneAsBefore, AskedAsBefore DEF StaysGone
  <1>7. Told(h)' /\ Filtered(h)'
    <2>1. \A t \in Tasks \ untold'[h] : rows[t] = cache[t] /\ t \notin untold[h]
      BY <1>1
    <2>2. mirror'[h] = rows /\ calls'[h] = calls[h] /\ filter'[h] = filter[h]
      BY <1>1, <1>3 DEF HookTypes
    <2> QED BY <1>4, <2>1, <2>2 DEF Knows, Told, Filtered
  <1>8. ASSUME NEW i \in Hooks, i # h
        PROVE  Told(i)' /\ Filtered(i)'
    <2>1. /\ calls'[i] = calls[i] /\ held'[i] = held[i] /\ mirror'[i] = mirror[i]
          /\ filter'[i] = filter[i] /\ untold'[i] = untold[i]
      BY <1>1, <1>3, <1>8 DEF CallTypes, HookTypes
    <2>2. \A t \in Tasks : Coming(i, t) => Coming(i, t)'
      BY <1>1 DEF Coming
    <2>3. Moved = {}
      BY <1>4 DEF Moved
    <2> QED BY <2>1, <2>2, <2>3, KnowsAsBefore DEF Knows
  <1> QED BY <1>3, <1>4, <1>5, <1>6, <1>7, <1>8 DEF Knows

LEMMA OrphanServedStep ==
    ASSUME Inv, NEW f \in Filters, OrphanServed(f)
    PROVE  Inv'
  <1> USE DEF Inv, ListInv
  <1>1. /\ orphans[f] > 0 /\ orphans' = [orphans EXCEPT ![f] = @ - 1]
        /\ Lists(f)
        /\ untold' = [h \in Hooks |-> untold[h] \union Moved]
        /\ UNCHANGED <<serverVars, refreshes, calls, held, peeks, hookVars>>
    BY DEF OrphanServed
  <1>2. RowTypes' /\ StaysGone
    BY <1>1, ListsTypes
  <1>3. orphans' \in [Filters -> Nat]
    BY <1>1 DEF CallTypes
  <1>4. CallTypes' /\ HookTypes' /\ untold' \in [Hooks -> SUBSET Tasks]
    BY <1>1, <1>3 DEF CallTypes, HookTypes, hookVars, Moved
  <1>5. AnsweredHidden'
    BY <1>1 DEF AnsweredHidden, Young, hookVars
  <1>6. AskedByAll' /\ RemovedGone'
    BY <1>1, <1>2, GoneAsBefore, AskedAsBefore DEF StaysGone, hookVars
  <1>7. ASSUME NEW h \in Hooks
        PROVE  Told(h)' /\ Filtered(h)'
    <2>1. /\ calls'[h] = calls[h] /\ held'[h] = held[h] /\ mirror'[h] = mirror[h]
          /\ filter'[h] = filter[h] /\ untold'[h] = untold[h] \union Moved
      BY <1>1 DEF hookVars
    <2>2. \A t \in Tasks : Coming(h, t) => Coming(h, t)'
      BY <1>1 DEF Coming
    <2> QED BY <2>1, <2>2, KnowsAsBefore DEF Knows
  <1> QED BY <1>2, <1>4, <1>5, <1>6, <1>7 DEF Knows

\* The answer of a peek: the rows it names are those of the cache now, or gone.
LEMMA PeekServedStep ==
    ASSUME Inv, PeekServed
    PROVE  Inv'
  <1> USE DEF Inv, ListInv
  <1> DEFINE peek == Head(peeks)
  <1>1. /\ peeks # <<>> /\ peeks' = Tail(peeks)
        /\ UNCHANGED <<serverVars, cacheVars, calls, orphans, held>>
    BY DEF PeekServed
  <1>2. /\ Len(peeks) \in Nat /\ 1 \in 1..Len(peeks) /\ peek = peeks[1]
        /\ peeks' \in Seq(Peek) /\ Len(peeks') = Len(peeks) - 1
        /\ \A i \in 1..Len(peeks') : peeks'[i] = peeks[i + 1]
    <2>1. peeks \in Seq(Peek) /\ peeks # <<>>
      BY <1>1 DEF CallTypes
    <2> QED BY <1>1, <2>1
  <1>3. \A i \in 1..Len(peeks') : i + 1 \in 1..Len(peeks) /\ peeks'[i] = peeks[i + 1]
    BY <1>2
  <1>4. ASSUME NEW i \in 1..Len(peeks), i # 1
        PROVE  i - 1 \in 1..Len(peeks') /\ peeks'[i - 1] = peeks[i]
    <2>1. i - 1 \in 1..Len(peeks') /\ (i - 1) + 1 = i
      BY <1>2, <1>4
    <2> QED BY <1>2, <2>1
  <1>5. RowTypes' /\ CallTypes' /\ cache' = cache /\ server' = server
    BY <1>1, <1>2 DEF RowTypes, CallTypes, serverVars, cacheVars
  <1>6. RemovedGone'
    BY <1>3, <1>5 DEF RemovedGone
  <1>7. \A h \in Hooks : \A t \in Tasks :
            h # peek.hook /\ Coming(h, t) => Coming(h, t)'
    BY <1>2, <1>4 DEF Coming
  <1>8. \A h \in Hooks : \A t \in Tasks :
            t \notin peek.ids \union peek.removed /\ Coming(h, t) => Coming(h, t)'
    BY <1>2, <1>4 DEF Coming
  <1>9. Moved = {}
    BY <1>5 DEF Moved
  <1>10. peek \in Peek /\ peek.ids \subseteq Tasks
    BY <1>2, PeekTypes
  <1>11. CASE peek.hook = None
    <2>1. UNCHANGED <<hookVars, untold>>
      BY <1>11 DEF PeekServed
    <2>2. HookTypes' /\ untold' \in [Hooks -> SUBSET Tasks] /\ AnsweredHidden' /\ filter' = filter
      BY <2>1 DEF HookTypes, hookVars, AnsweredHidden, Young
    <2>3. AskedByAll'
      BY <1>3, <2>2 DEF AskedByAll
    <2>4. ASSUME NEW h \in Hooks
          PROVE  Told(h)' /\ Filtered(h)'
      <3>1. h # peek.hook
        BY <1>11
      <3>2. \A t \in Tasks : Coming(h, t) => Coming(h, t)'
        BY <1>7, <3>1
      <3>3. /\ calls'[h] = calls[h] /\ held'[h] = held[h] /\ mirror'[h] = mirror[h]
            /\ filter'[h] = filter[h] /\ untold'[h] = untold[h]
        BY <1>1, <2>1 DEF hookVars
      <3> QED BY <1>9, <3>2, <3>3, KnowsAsBefore DEF Knows
    <2> QED BY <1>5, <1>6, <2>2, <2>3, <2>4 DEF Knows
  <1>12. CASE peek.hook # None
    <2>2. PICK h \in Hooks : h = peek.hook
      BY <1>10, <1>12 DEF Peek
    <2> DEFINE list == Merged(mirror[h], peek, Only(cache, peek.ids))
    <2>1. Renders(h, list) /\ untold' = [untold EXCEPT ![h] = @ \ peek.ids]
      BY <1>12, <2>2 DEF PeekServed
    <2>3. list \in Rows
      BY <2>2, OnlyType, MergedType DEF HookTypes, RowTypes
    <2>4. \A t \in Tasks : list[t] = IF t \in peek.removed THEN None
                                     ELSE IF t \in peek.ids THEN cache[t]
                                     ELSE mirror[h][t]
      BY DEF Merged, Only
    <2> HIDE DEF list
    <2>5. /\ HookTypes' /\ AnsweredHidden'
          /\ mirror' = [mirror EXCEPT ![h] = list] /\ filter' = filter
      BY <2>1, <2>2, <2>3, RendersOne
    <2>6. untold' \in [Hooks -> SUBSET Tasks]
      BY <2>1
    <2>7. AskedByAll'
      BY <1>3, <2>5 DEF AskedByAll
    <2>8. filter[h] = "all"
      BY <1>2, <1>12, <2>2 DEF AskedByAll
    <2>9. Told(h)' /\ Filtered(h)'
      <3>1. /\ calls'[h] = calls[h] /\ held'[h] = held[h] /\ mirror'[h] = list
            /\ filter'[h] = "all" /\ untold'[h] = untold[h] \ peek.ids
        BY <1>1, <2>1, <2>2, <2>5, <2>8 DEF HookTypes
      <3>2. \A t \in peek.removed : cache[t] = None
        BY <1>2 DEF RemovedGone
      <3>3. Told(h)
        BY <2>2 DEF Knows
      <3>4. Told(h)'
        <4> SUFFICES ASSUME ~Busy(h)', NEW t \in Tasks \ untold'[h]
                     PROVE  Coming(h, t)' \/ mirror'[h][t] = cache'[t]
          BY DEF Told
        <4>1. ~Busy(h)
          BY <3>1 DEF Busy
        <4>2. CASE t \in peek.ids \union peek.removed
          BY <1>5, <2>4, <3>1, <3>2, <4>2
        <4>3. CASE t \notin peek.ids \union peek.removed
          <5>1. Coming(h, t) \/ mirror[h][t] = cache[t]
            BY <3>1, <3>3, <4>1, <4>3 DEF Told
          <5> QED BY <1>5, <1>8, <2>2, <2>4, <3>1, <4>3, <5>1
        <4> QED BY <4>2, <4>3
      <3>5. Filtered(h)'
        BY <3>1 DEF Filtered, Passes
      <3> QED BY <3>4, <3>5
    <2>10. ASSUME NEW i \in Hooks, i # h
           PROVE  Told(i)' /\ Filtered(i)'
      <3>1. /\ calls'[i] = calls[i] /\ held'[i] = held[i] /\ mirror'[i] = mirror[i]
            /\ filter'[i] = filter[i] /\ untold'[i] = untold[i]
        BY <1>1, <2>1, <2>5, <2>10 DEF HookTypes
      <3>2. \A t \in Tasks : Coming(i, t) => Coming(i, t)'
        BY <1>7, <2>2, <2>10
      <3> QED BY <1>9, <3>1, <3>2, KnowsAsBefore DEF Knows
    <2> QED BY <1>5, <1>6, <2>5, <2>6, <2>7, <2>9, <2>10 DEF Knows
  <1> QED BY <1>11, <1>12

\* A hook that changes its filter has a list on its way and hears no peek.
LEMMA ToggleStep ==
    ASSUME Inv, NEW h \in Hooks, Toggle(h)
    PROVE  Inv'
  <1> USE DEF Inv, ListInv
  <1>1. /\ changes < MaxChanges /\ changes' = changes + 1
        /\ filter' = [filter EXCEPT ![h] = IF @ = "all" THEN "mine" ELSE "all"]
        /\ calls' = [calls EXCEPT ![h] = 1]
        /\ orphans' = [orphans EXCEPT ![filter[h]] = @ + calls[h]]
        /\ held' = [held EXCEPT ![h] = {}]
        /\ peeks' = [i \in 1..Len(peeks) |->
                        [peeks[i] EXCEPT !.hook = IF @ = h THEN None ELSE @]]
        /\ UNCHANGED <<server, fresh, cacheVars, mirror, screen, overlay, aged, untold>>
    BY DEF Toggle
  <1>2. RowTypes' /\ StaysGone /\ cache' = cache /\ server' = server
    BY <1>1 DEF RowTypes, StaysGone, cacheVars
  <1>3. filter' \in [Hooks -> Filters]
    BY <1>1 DEF HookTypes, Filters
  <1>4. HookTypes' /\ untold' \in [Hooks -> SUBSET Tasks]
    BY <1>1, <1>3 DEF HookTypes
  <1>5. AnsweredHidden'
    BY <1>1 DEF AnsweredHidden, Young
  <1> DEFINE moved(p) == [p EXCEPT !.hook = IF @ = h THEN None ELSE @]
  <1>6. \A p \in Peek : /\ moved(p) \in Peek
                        /\ moved(p).ids = p.ids /\ moved(p).removed = p.removed
                        /\ moved(p).hook = IF p.hook = h THEN None ELSE p.hook
    BY DEF Peek
  <1>7. Len(peeks) \in Nat /\ \A i \in 1..Len(peeks) : peeks[i] \in Peek
    BY PeekTypes DEF CallTypes
  <1>8. /\ peeks' \in Seq(Peek) /\ Len(peeks') = Len(peeks)
        /\ \A i \in 1..Len(peeks) :
              /\ peeks'[i].ids = peeks[i].ids /\ peeks'[i].removed = peeks[i].removed
              /\ peeks'[i].hook = IF peeks[i].hook = h THEN None ELSE peeks[i].hook
    <2>1. peeks' = [i \in 1..Len(peeks) |-> moved(peeks[i])]
      BY <1>1
    <2> HIDE DEF moved
    <2> QED BY <1>6, <1>7, <2>1
  <1>9. CallTypes'
    <2>1. calls[h] \in Nat /\ filter[h] \in Filters
      BY DEF CallTypes, HookTypes
    <2>2. orphans' \in [Filters -> Nat]
      BY <1>1, <2>1 DEF CallTypes
    <2> QED BY <1>1, <1>8, <2>2 DEF CallTypes
  <1>10. AskedByAll'
    <2> SUFFICES ASSUME NEW i \in 1..Len(peeks'), peeks'[i].hook # None
                 PROVE  filter'[peeks'[i].hook] = "all"
      BY DEF AskedByAll
    <2>1. /\ i \in 1..Len(peeks) /\ peeks[i].hook # h /\ peeks'[i].hook = peeks[i].hook
          /\ peeks[i] \in Peek
      BY <1>7, <1>8
    <2>2. peeks[i].hook \in Hooks
      BY <2>1 DEF Peek
    <2> QED BY <1>1, <2>1, <2>2 DEF AskedByAll, HookTypes
  <1>11. RemovedGone'
    BY <1>2, <1>8 DEF RemovedGone
  <1>12. Told(h)' /\ Filtered(h)'
    <2>1. calls'[h] = 1
      BY <1>1 DEF CallTypes
    <2> QED BY <2>1 DEF Told, Busy, Filtered
  <1>13. ASSUME NEW i \in Hooks, i # h
         PROVE  Told(i)' /\ Filtered(i)'
    <2>1. /\ calls'[i] = calls[i] /\ held'[i] = held[i] /\ mirror'[i] = mirror[i]
          /\ filter'[i] = filter[i] /\ untold'[i] = untold[i]
      BY <1>1, <1>13 DEF CallTypes, HookTypes
    <2>2. \A t \in Tasks : Coming(i, t) => Coming(i, t)'
      BY <1>8, <1>13 DEF Coming
    <2>3. Moved = {}
      BY <1>2 DEF Moved
    <2> QED BY <2>1, <2>2, <2>3, KnowsAsBefore DEF Knows
  <1> QED BY <1>2, <1>4, <1>5, <1>9, <1>10, <1>11, <1>12, <1>13 DEF Knows

LEMMA AnswerStep ==
    ASSUME Inv, NEW t \in Tasks, Answer(t)
    PROVE  Inv'
  <1> USE DEF Inv, ListInv
  <1>1. /\ server[t] # None /\ Change(t, [server[t] EXCEPT !.asked = FALSE])
        /\ RendersAll(mirror, overlay \union {t})
        /\ UNCHANGED <<cacheVars, callVars, untold>>
    BY DEF Answer
  <1>2. \A row \in Row : [row EXCEPT !.asked = FALSE] \in Row
    BY DEF Row
  <1>3. [server[t] EXCEPT !.asked = FALSE] \in Row
    BY <1>1, <1>2 DEF RowTypes, Rows
  <1>4. RowTypes' /\ StaysGone /\ cache' = cache
    BY <1>1, <1>3, ChangeTypes DEF RowTypes, StaysGone, cacheVars
  <1>5. mirror \in [Hooks -> Rows] /\ overlay \union {t} \in SUBSET Tasks
    BY DEF HookTypes
  <1>6. HookTypes' /\ AnsweredHidden' /\ mirror' = mirror /\ filter' = filter
    BY <1>1, <1>5, RendersEach
  <1>7. CallTypes' /\ untold' \in [Hooks -> SUBSET Tasks]
    BY <1>1 DEF CallTypes, callVars
  <1>8. AskedByAll' /\ RemovedGone'
    BY <1>1, <1>4, <1>6, GoneAsBefore, AskedAsBefore DEF StaysGone, callVars
  <1>9. Knows'
    BY <1>1, <1>4, <1>6 DEF Knows, Told, Busy, Coming, Filtered, callVars
  <1> QED BY <1>4, <1>6, <1>7, <1>8, <1>9

LEMMA AgesStep ==
    ASSUME Inv, NEW t \in Tasks, Ages(t)
    PROVE  Inv'
  <1> USE DEF Inv, ListInv
  <1>1. /\ t \in Young /\ aged' = aged \union {t}
        /\ UNCHANGED <<serverVars, cacheVars, callVars, filter, mirror, screen, overlay, untold>>
    BY DEF Ages
  <1>2. RowTypes' /\ CallTypes' /\ untold' \in [Hooks -> SUBSET Tasks]
    BY <1>1 DEF RowTypes, CallTypes, serverVars, cacheVars, callVars
  <1>3. HookTypes' /\ AnsweredHidden'
    BY <1>1 DEF HookTypes, AnsweredHidden, Young
  <1>4. Knows' /\ AskedByAll' /\ RemovedGone'
    BY <1>1 DEF Knows, Told, Busy, Coming, Filtered, AskedByAll, RemovedGone,
                serverVars, cacheVars, callVars
  <1> QED BY <1>2, <1>3, <1>4

-----------------------------------------------------------------------------
(* The theorems.                                                           *)

LEMMA InitInv == Init => Inv
  <1> SUFFICES ASSUME Init
               PROVE  Inv
    OBVIOUS
  <1>1. server \in Rows
    BY DEF Init, Rows
  <1>2. Routing(server) \in [Tasks -> BOOLEAN \union {None}]
    BY <1>1, RoutingType
  <1>3. RowTypes
    BY <1>1, <1>2 DEF Init, RowTypes
  <1>4. CallTypes /\ HookTypes /\ untold \in [Hooks -> SUBSET Tasks]
    BY <1>1 DEF Init, CallTypes, HookTypes, Filters
  <1>5. AnsweredHidden
    BY DEF Init, AnsweredHidden, Young
  <1>6. Knows
    BY DEF Init, Knows, Told, Filtered, Passes
  <1>7. AskedByAll /\ RemovedGone
    <2>1. 1..Len(peeks) = {}
      BY DEF Init
    <2> QED BY <2>1 DEF AskedByAll, RemovedGone
  <1> QED BY <1>3, <1>4, <1>5, <1>6, <1>7 DEF Inv, ListInv

LEMMA NextInv == Inv /\ [Next]_vars => Inv'
  <1> SUFFICES ASSUME Inv, [Next]_vars
               PROVE  Inv'
    OBVIOUS
  <1>1. ASSUME NEW t \in Tasks, OthersWrite(t) \/ OwnWrite(t) \/ OwnDelete(t)
        PROVE  Inv'
    BY <1>1, OthersWriteStep, OwnWriteStep, OwnDeleteStep
  <1>2. ASSUME NEW t \in Tasks, Answer(t) \/ Ages(t)
        PROVE  Inv'
    BY <1>2, AnswerStep, AgesStep
  <1>3. CASE PollDelta \/ PollFull \/ Refreshed
    BY <1>3, PollDeltaStep, PollFullStep, RefreshedStep
  <1>4. ASSUME NEW h \in Hooks, ListServed(h) \/ HostsServed(h) \/ Toggle(h)
        PROVE  Inv'
    BY <1>4, ListServedStep, HostsServedStep, ToggleStep
  <1>5. ASSUME NEW f \in Filters, OrphanServed(f)
        PROVE  Inv'
    BY <1>5, OrphanServedStep
  <1>6. CASE PeekServed
    BY <1>6, PeekServedStep
  <1>7. CASE UNCHANGED vars
    <2>1. RowTypes' /\ StaysGone
      BY <1>7 DEF Inv, RowTypes, StaysGone, vars, serverVars, cacheVars
    <2> QED BY <1>7, <2>1, ListsIdle DEF Inv, vars, cacheVars
  <1> QED BY <1>1, <1>2, <1>3, <1>4, <1>5, <1>6, <1>7 DEF Next

LEMMA Invariance == Spec => []Inv
  <1> QED BY InitInv, NextInv, PTL DEF Spec

\* Whatever arrives and in which order, a list on screen, its mirror and the
\* cache have a row or nothing for each task, and the overlay only tasks.
THEOREM MirrorTypeCorrect == Spec => []MirrorTypeOK
  <1>1. Inv => MirrorTypeOK
    BY DEF Inv, RowTypes, ListInv, CallTypes, HookTypes, MirrorTypeOK
  <1> QED BY <1>1, Invariance, PTL

\* However pings, diffs, peeks, lists and switches of the filter cross, a list
\* with nothing on its way shows the cache's row of every task it was told of.
THEOREM ListsShowTheCache == Spec => []MirrorTold
  <1>1. Inv => MirrorTold
    <2> SUFFICES ASSUME Inv, Settled, NEW h \in Hooks, NEW t \in Tasks \ untold[h]
                 PROVE  mirror[h][t] = Slice(filter[h], cache)[t]
      BY DEF MirrorTold
    <2>1. ~Busy(h) /\ calls[h] = 0
      BY DEF Settled, Busy
    <2>2. ~Coming(h, t)
      <3>1. 1..Len(peeks) = {}
        BY DEF Settled
      <3> QED BY <3>1 DEF Coming
    <2>3. mirror[h][t] = cache[t] /\ Passes(filter[h], cache[t])
      BY <2>1, <2>2 DEF Inv, ListInv, Knows, Told, Filtered
    <2>4. cache \in Rows /\ filter[h] \in Filters
      BY DEF Inv, ListInv, RowTypes, HookTypes
    <2> QED BY <2>3, <2>4, SliceRows
  <1> QED BY <1>1, Invariance, PTL

\* A question the user answered stays off every list of the window while its
\* entry of the overlay is young, whichever old rows arrive and in which order
\* the hooks render.
THEOREM AnswersStayHidden == Spec => []AnsweredHidden
  <1>1. Inv => AnsweredHidden
    BY DEF Inv, ListInv
  <1> QED BY <1>1, Invariance, PTL

=============================================================================
