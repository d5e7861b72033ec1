-------------------------- MODULE DeltaPollProofs --------------------------
(***************************************************************************)
(* Proofs about the poll loop of DeltaPoll, for every set of tasks, every  *)
(* number of polls between two full pulls and every bound: types and       *)
(* single flight; what it keeps in step; that it implements Replica; and,  *)
(* about TaskSource, what survives the other writers of the same cache.    *)
(***************************************************************************)
EXTENDS TaskSource, TLAPS, FiniteSetTheorems

Sigs == UNION {[S -> Vis] : S \in SUBSET Tasks}

-----------------------------------------------------------------------------
(* What the operators of the model return.                                 *)

\* A signature is a function from some task ids to visible values.
LEMMA SigType ==
    ASSUME NEW rows \in Rows
    PROVE  SigOf(rows) \in Sigs
<1>1. Live(rows) \in SUBSET Tasks
    BY DEF Live
<1>2. \A t \in Live(rows) : rows[t].vis \in Vis
    BY NoRowAssumption DEF Live, Rows, Row
<1>3. SigOf(rows) \in [Live(rows) -> Vis]
    BY <1>2 DEF SigOf
<1> QED BY <1>1, <1>3 DEF Sigs

\* An attempt on the disk yields what it should or leaves what there was.
LEMMA Attempted ==
    ASSUME NEW done, NEW failed
    PROVE  Attempt(done, failed) \subseteq {done, failed}
BY DEF Attempt

LEMMA NothingType == Nothing \in Rows
BY DEF Nothing, Rows

\* Applying a delta to rows yields rows.
LEMMA ApplyType ==
    ASSUME NEW base \in Rows, NEW r \in Reply
    PROVE  Apply(base, r) \in Rows
BY DEF Apply, Rows, Reply

LEMMA TransitionsType ==
    ASSUME NEW before, NEW fresh \in Rows, NEW first
    PROVE  Transitions(before, fresh, first) \subseteq Notice
BY DEF Transitions, Notice, Live

LEMMA NoReplyType == NoReply \in Reply
BY NothingType, ConstantsAssumption DEF NoReply, Reply, Time

\* The server answers a pull with a reply.
LEMMA BodiesType ==
    ASSUME server \in Rows, now \in 1..MaxTime, NEW p \in Pull
    PROVE  Bodies(p) \subseteq Reply
<1>1. now \in Time /\ 0 \in Time
    BY ConstantsAssumption DEF Time
<1>2. PlainBody \in Reply
    BY <1>1 DEF PlainBody, Reply
<1>3. FullBody \in Reply
    BY <1>1 DEF FullBody, Reply
<1>4. DeltaBodies(p.since) \subseteq Reply
    <2> SUFFICES ASSUME NEW time \in {0, now}
                 PROVE  [rows |-> [t \in Tasks |-> IF Touched(t) > p.since
                                                   THEN server[t] ELSE NoRow],
                         tombs |-> {t \in Tasks : server[t] = NoRow
                                                  /\ gone[t] > p.since},
                         time |-> time, envelope |-> TRUE] \in Reply
        BY DEF DeltaBodies
    <2>1. [t \in Tasks |-> IF Touched(t) > p.since THEN server[t] ELSE NoRow]
             \in Rows
        BY DEF Rows
    <2> QED BY <2>1, <1>1 DEF Reply
<1> QED BY <1>2, <1>3, <1>4 DEF Bodies

\* The union of the pulls in flight changes one pull at a time.
LEMMA ArriveType ==
    ASSUME flight \subseteq Pull, NEW p \in flight, NEW r \in Reply
    PROVE  (flight \ {p}) \union
              {[since |-> p.since, answered |-> TRUE, body |-> r]} \subseteq Pull
<1>1. p.since \in Time
    BY DEF Pull
<1>2. [since |-> p.since, answered |-> TRUE, body |-> r] \in Pull
    BY <1>1 DEF Pull
<1> QED BY <1>2

-----------------------------------------------------------------------------
(* Type correctness.  pollCount stays within ReconcileEvery because a      *)
(* delta is only asked for below it, and because no other pass can count   *)
(* a delta between that request and its response (SingleFlight).           *)

DeltaBudget == \A p \in flight : p.since # 0 => pollCount < ReconcileEvery

TypeInv == TypeOK /\ SingleFlight /\ DeltaBudget

LEMMA InitType == Init => TypeInv
<1> SUFFICES ASSUME Init PROVE TypeInv
    OBVIOUS
<1> USE ConstantsAssumption DEF Init
<1>1. TypeOK
    <2>1. NoSig \in Sigs
        BY NothingType, SigType DEF NoSig
    <2>2. gone \in [Tasks -> Time] /\ now \in 1..MaxTime
        BY DEF Time
    <2>3. cursor \in Time /\ pollCount \in 0..ReconcileEvery
        BY DEF Time
    <2>4. server \in Rows /\ skel \in Rows /\ cache \in Rows
        BY NothingType
    <2>5. faults \in 0..MaxFaults /\ syncs \in 0..MaxSyncs
        OBVIOUS
    <2>6. lastSig \in UNION {[S -> Vis] : S \in SUBSET Tasks}
        BY <2>1 DEF Sigs
    <2> QED BY <2>2, <2>3, <2>4, <2>5, <2>6 DEF TypeOK
<1>2. SingleFlight /\ DeltaBudget
    BY DEF SingleFlight, DeltaBudget
<1> QED BY <1>1, <1>2 DEF TypeInv

\* Steps of the server and of the process.
LEMMA ServerType == TypeOK /\ ServerNext => TypeOK'
<1> SUFFICES ASSUME TypeOK, NEW t \in Tasks, Create(t) \/ Edit(t) \/ Delete(t)
             PROVE  TypeOK'
    BY DEF ServerNext
<1>1. now' \in 1..MaxTime /\ now' \in Time /\ now' = now + 1 /\ notices' = {}
    BY ConstantsAssumption DEF TypeOK, Create, Edit, Delete, ServerWrite, Time, Quiet
<1>2. server' \in Rows
    <2>1. CASE Delete(t)
        BY <2>1 DEF TypeOK, Delete, Rows
    <2>2. CASE Create(t) \/ Edit(t)
        <3>1. PICK v \in Vis, s \in Sil :
                 server' = [server EXCEPT ![t] = [vis |-> v, sil |-> s, at |-> now + 1]]
            BY <2>2 DEF Create, Edit
        <3>2. [vis |-> v, sil |-> s, at |-> now + 1] \in Row
            BY <1>1 DEF Row
        <3> QED BY <3>1, <3>2 DEF TypeOK, Rows
    <2> QED BY <2>1, <2>2
<1>3. gone' \in [Tasks -> Time]
    BY <1>1 DEF TypeOK, Create, Edit, Delete
<1>4. UNCHANGED <<diskVars, memVars, flightVars, syncVars, up, trusted, faults>>
    BY DEF Create, Edit, Delete, ServerWrite
<1> QED BY <1>1, <1>2, <1>3, <1>4 
        DEF TypeOK, diskVars, memVars, flightVars, syncVars

LEMMA ProcessType ==
    TypeOK /\ (Boot \/ Crash \/ \E p \in flight : CrashMidDelta(p) \/ CrashMidFull(p))
        => TypeOK'
<1>1. ASSUME TypeOK, Boot PROVE TypeOK'
    <2>1. cache' \in Rows
        BY <1>1, NothingType, Attempted DEF TypeOK, Boot, diskVars
    <2> QED BY <1>1, <2>1
            DEF TypeOK, Boot, Quiet, serverVars, diskVars, flightVars, syncVars
<1>2. ASSUME TypeOK, Die, skel' \in Rows, cursor' \in Time, trusted' \in BOOLEAN
      PROVE TypeOK'
    <2>1. lastSig' \in Sigs /\ cache' \in Rows
        BY <1>2, NothingType, SigType DEF Die, NoSig
    <2>2. faults' \in 0..MaxFaults /\ pollCount' \in 0..ReconcileEvery
        BY <1>2, ConstantsAssumption DEF Die, TypeOK
    <2> QED BY <1>2, <2>1, <2>2 DEF TypeOK, Die, Quiet, serverVars, Sigs
<1>3. ASSUME TypeOK, Crash PROVE TypeOK'
    BY <1>2, <1>3 DEF Crash, TypeOK, diskVars
<1>4. ASSUME TypeOK, NEW p \in flight, CrashMidDelta(p) PROVE TypeOK'
    BY <1>2, <1>4, ApplyType DEF CrashMidDelta, TypeOK, Pull
<1>5. ASSUME TypeOK, NEW p \in flight, CrashMidFull(p) PROVE TypeOK'
    BY <1>2, <1>5 DEF CrashMidFull, TypeOK, Pull, Reply
<1> QED BY <1>1, <1>3, <1>4, <1>5

\* Steps that start, end or skip a pass.
LEMMA LoopType ==
    TypeOK /\ (Trigger \/ SyncNow \/ SyncReturns \/ PollAsk \/ PollSkip) => TypeOK'
<1>1. ASSUME TypeOK, PollTriggered, syncs' \in 0..MaxSyncs, moved' \in BOOLEAN,
             sync' \in {"none", "waiting", "settled"},
             credit' \in {"none", "asked", "applied"}
      PROVE  TypeOK'
    BY <1>1 DEF TypeOK, PollTriggered, Entered, Again, Quiet, serverVars, diskVars,
                memVars
<1>2. ASSUME TypeOK, Trigger PROVE TypeOK'
    BY <1>1, <1>2 DEF Trigger, syncVars, TypeOK
<1>3. ASSUME TypeOK, SyncNow PROVE TypeOK'
    <2>1. syncs' \in 0..MaxSyncs
        BY <1>3, ConstantsAssumption DEF SyncNow, TypeOK
    <2> QED BY <1>1, <1>3, <2>1 DEF SyncNow
<1>4. ASSUME TypeOK, SyncReturns PROVE TypeOK'
    BY <1>4 DEF TypeOK, SyncReturns, Quiet, serverVars, diskVars, memVars, flightVars
<1>5. ASSUME TypeOK, PollAsk PROVE TypeOK'
    <2>1. Since \in Time /\ 0 \in Time
        BY <1>5, ConstantsAssumption DEF Since, TypeOK, Time
    <2>2. \A from \in Attempt(Since, 0) :
             [since |-> from, answered |-> FALSE, body |-> NoReply] \in Pull
        BY <2>1, NoReplyType, Attempted DEF Pull
    <2>3. flight' \subseteq Pull
        BY <1>5, <2>2 DEF PollAsk, TypeOK
    <2>4. credit' \in {"none", "asked", "applied"}
        BY <1>5 DEF PollAsk, TypeOK
    <2>5. phase' = "busy" /\ pollAgain' = FALSE /\ pending' = FALSE /\ notices' = {}
          /\ UNCHANGED <<serverVars, diskVars, memVars, sync, moved, syncs, up,
                         trusted, faults>>
        BY <1>5 DEF PollAsk, Quiet
    <2> QED BY <1>5, <2>3, <2>4, <2>5 DEF TypeOK, serverVars, diskVars, memVars
<1>6. ASSUME TypeOK, PollSkip PROVE TypeOK'
    BY <1>6 DEF TypeOK, PollSkip, PassOver, Quiet, serverVars, diskVars, memVars
<1> QED BY <1>2, <1>3, <1>4, <1>5, <1>6

\* Steps by which a request is answered or fails.
LEMMA ReplyType ==
    ASSUME TypeOK, NEW p \in flight,
           AnswerTo(p) \/ AnswerGarbled(p) \/ RequestFails(p) \/ RequestRefused(p)
    PROVE  TypeOK'
<1>1. p \in Pull
    BY DEF TypeOK
<1>2. ASSUME NEW r \in Reply, Arrives(p, r), faults' \in 0..MaxFaults PROVE TypeOK'
    <2>1. flight' \subseteq Pull
        BY <1>2, ArriveType DEF Arrives, TypeOK
    <2> QED BY <1>2, <2>1
            DEF TypeOK, Arrives, Quiet, serverVars, diskVars, memVars, syncVars
<1>3. CASE AnswerTo(p)
    BY <1>1, <1>2, <1>3, BodiesType DEF AnswerTo, TypeOK
<1>4. CASE AnswerGarbled(p)
    BY <1>2, <1>4, NoReplyType, ConstantsAssumption DEF AnswerGarbled, TypeOK
<1>5. CASE RequestFails(p)
    BY <1>5 DEF TypeOK, RequestFails, PassOver, Quiet, serverVars, diskVars, memVars
<1>6. CASE RequestRefused(p)
    BY <1>6 DEF TypeOK, RequestRefused, PassOver, Quiet, serverVars, diskVars, memVars
<1> QED BY <1>3, <1>4, <1>5, <1>6

\* Steps that handle a response.
LEMMA HandleType ==
    ASSUME TypeOK, DeltaBudget, NEW p \in flight,
           HandleFull(p) \/ HandlePlain(p) \/ HandleDelta(p)
    PROVE  TypeOK'
<1> DEFINE r == p.body
<1>1. r \in Reply /\ r.rows \in Rows /\ r.time \in Time
    BY DEF TypeOK, Pull, Reply
<1>2. ASSUME Handled(p), pollCount' \in 0..ReconcileEvery, cursor' \in Time,
             skel' \in Rows, cache' \in Rows, lastSig' \in Sigs,
             notices' \subseteq Notice, firstPoll' \in BOOLEAN, trusted' \in BOOLEAN
      PROVE  TypeOK'
    BY <1>2 DEF TypeOK, Handled, PassOver, serverVars, Sigs
<1>3. AdvanceCursor(r) => cursor' \in Time
    BY <1>1, Attempted DEF AdvanceCursor, TypeOK
<1>4. ASSUME Reconcile(r.rows)
      PROVE  skel' \in Rows /\ cache' \in Rows /\ lastSig' \in Sigs
             /\ notices' \subseteq Notice
    BY <1>1, <1>4, SigType, TransitionsType, Attempted DEF Reconcile, TypeOK
<1>5. ASSUME Quiet, UNCHANGED <<skel, cache, lastSig>>
      PROVE  skel' \in Rows /\ cache' \in Rows /\ lastSig' \in Sigs
             /\ notices' \subseteq Notice
    BY <1>5 DEF Quiet, TypeOK, Sigs
<1>6. Trust(r) => trusted' \in BOOLEAN
    BY DEF Trust, TypeOK, Genuine
<1>7. 0 \in 0..ReconcileEvery
    BY ConstantsAssumption
<1>8. CASE HandleFull(p)
    BY <1>2, <1>3, <1>4, <1>5, <1>6, <1>7, <1>8 DEF HandleFull
<1>9. CASE HandlePlain(p)
    BY <1>2, <1>4, <1>5, <1>6, <1>7, <1>9 DEF HandlePlain, TypeOK
<1>10. CASE HandleDelta(p)
    <2>1. pollCount' \in 0..ReconcileEvery
        BY <1>10, ConstantsAssumption DEF HandleDelta, DeltaBudget, TypeOK, Counted
    <2>2. CASE EmptyDelta(r)
        BY <1>2, <1>3, <1>5, <1>10, <2>1, <2>2 DEF HandleDelta, TypeOK
    <2>3. CASE ~EmptyDelta(r)
        <3>1. skel' \in Rows /\ cache' \in Rows /\ lastSig' \in Sigs
            BY <1>1, <1>10, <2>3, ApplyType, SigType, Attempted DEF HandleDelta, TypeOK
        <3> QED BY <1>1, <1>2, <1>3, <1>10, <2>1, <2>3, <3>1, TransitionsType
                DEF HandleDelta, TypeOK
    <2> QED BY <2>2, <2>3
<1> QED BY <1>8, <1>9, <1>10

-----------------------------------------------------------------------------
(* One pass at a time.                                                     *)

LEMMA FlightStep == TypeOK /\ SingleFlight /\ DeltaBudget /\ [Next]_vars
                       => SingleFlight' /\ DeltaBudget'
<1> SUFFICES ASSUME TypeOK, SingleFlight, DeltaBudget, [Next]_vars
             PROVE  SingleFlight' /\ DeltaBudget'
    OBVIOUS
<1> USE DEF SingleFlight, DeltaBudget
<1>1. ASSUME UNCHANGED <<phase, flight, pollCount>>
      PROVE  SingleFlight' /\ DeltaBudget'
    BY <1>1
<1>2. ASSUME phase' # "busy", flight' = {}
      PROVE  SingleFlight' /\ DeltaBudget'
    BY <1>2
<1>3. CASE ServerNext
    BY <1>1, <1>3 DEF ServerNext, Create, Edit, Delete, ServerWrite, flightVars, memVars
<1>4. CASE Boot
    BY <1>1, <1>4 DEF Boot, flightVars
<1>5. CASE Crash \/ \E p \in flight : CrashMidDelta(p) \/ CrashMidFull(p)
    BY <1>2, <1>5 DEF Crash, CrashMidDelta, CrashMidFull, Die
<1>6. CASE Trigger \/ SyncNow
    BY <1>6 DEF Trigger, SyncNow, PollTriggered, Entered, memVars, TypeOK
<1>7. CASE SyncReturns
    BY <1>1, <1>7 DEF SyncReturns, flightVars, memVars
<1>8. CASE PollAsk
    <2>1. PICK from \in {Since, 0} :
             /\ flight' = {[since |-> from, answered |-> FALSE, body |-> NoReply]}
             /\ phase' = "busy" /\ pollCount' = pollCount
        BY <1>8, Attempted DEF PollAsk, memVars
    <2>2. from # 0 => pollCount < ReconcileEvery
        BY DEF Since
    <2> QED BY <2>1, <2>2
<1>9. CASE PollSkip
    BY <1>2, <1>9 DEF PollSkip, PassOver
<1>10. ASSUME NEW p \in flight, NEW r, Arrives(p, r)
       PROVE  SingleFlight' /\ DeltaBudget'
    <2>1. phase = "busy" /\ flight = {p}
        BY <1>10
    <2>2. flight' = {[since |-> p.since, answered |-> TRUE, body |-> r]}
          /\ phase' = phase /\ pollCount' = pollCount
        BY <1>10, <2>1 DEF Arrives, memVars
    <2> QED BY <2>1, <2>2
<1>11. CASE Answer \/ \E p \in flight : AnswerGarbled(p)
    BY <1>10, <1>11 DEF Answer, AnswerTo, AnswerGarbled
<1>12. ASSUME NEW p \in flight, flight' = flight \ {p},
              NEW again, NEW stamped, PassOver(again, stamped)
       PROVE  SingleFlight' /\ DeltaBudget'
    BY <1>2, <1>12 DEF PassOver
<1>13. CASE \E p \in flight : RequestFails(p) \/ RequestRefused(p)
    BY <1>12, <1>13 DEF RequestFails, RequestRefused
<1>14. CASE Handle
    BY <1>12, <1>14 DEF Handle, HandleFull, HandlePlain, HandleDelta, Handled
<1>15. CASE UNCHANGED vars
    BY <1>1, <1>15 DEF vars, flightVars, memVars
<1> QED BY <1>3, <1>4, <1>5, <1>6, <1>7, <1>8, <1>9, <1>11, <1>13, <1>14, <1>15
        DEF Next

LEMMA TypeStep == TypeInv /\ [Next]_vars => TypeInv'
<1> SUFFICES ASSUME TypeOK, SingleFlight, DeltaBudget, [Next]_vars PROVE TypeOK'
    BY FlightStep DEF TypeInv
<1>1. CASE UNCHANGED vars
    BY <1>1 DEF TypeOK, vars, serverVars, diskVars, memVars, flightVars, syncVars
<1>2. CASE Next
    BY <1>2, ServerType, ProcessType, LoopType, ReplyType, HandleType
       DEF Next, Answer, Handle
<1> QED BY <1>1, <1>2

\* The variables keep their types; in particular no more than ReconcileEvery
\* deltas are counted between two full pulls (pollCount, FULL_RECONCILE_EVERY).
THEOREM TypeCorrect == Spec => []TypeOK
<1>1. TypeInv => TypeOK
    BY DEF TypeInv
<1> QED BY <1>1, InitType, TypeStep, PTL DEF Spec

\* poll() keeps its promise of a single flight: one pass at a time.
THEOREM OnePassAtATime == Spec => []SingleFlight
<1>1. TypeInv => SingleFlight
    BY DEF TypeInv
<1> QED BY <1>1, InitType, TypeStep, PTL DEF Spec

(***************************************************************************)
(* What the loop keeps in step: the signature with the cache, the cursor   *)
(* with the skeleton, and the versions of a row with each other.           *)
(***************************************************************************)

Answered == {p \in flight : p.answered}

\* One version of a task against another: not newer, and the same if as new.
NotNewer(r, s) ==
    r # NoRow /\ s # NoRow => r.at <= s.at /\ (r.at = s.at => r = s)

-----------------------------------------------------------------------------
(* The inductive invariant.                                                *)

\* The signature agrees with the cache unless it is the initial one; a process
\* that is not up has nothing in memory.
Synced ==
    /\ up => lastSig \in {NoSig, SigOf(cache)}
    /\ ~up => phase = "idle" /\ ~pending /\ cache = Nothing /\ lastSig = NoSig

\* The server's clock bounds what it has written, and its anchors exist.
ServerSound ==
    /\ \A t \in Tasks : Touched(t) <= now
    /\ \A t \in Anchor : server[t] # NoRow
    /\ cursor <= now

\* A delta is asked from the cursor, and its reply brings all writes after the
\* cursor that are not later than its server_time, and no others.
DeltaSoundOf(p) ==
    /\ p.since \in {0, cursor}
    /\ p.answered /\ IsDelta(p) =>
          \A t \in Tasks :
             /\ p.body.rows[t] # NoRow \/ t \in p.body.tombs => Touched(t) > p.since
             /\ Touched(t) > p.since /\ Touched(t) <= p.body.time
                   => /\ p.body.rows[t] = server[t]
                      /\ t \in p.body.tombs <=> server[t] = NoRow
             /\ t \in p.body.tombs => p.body.rows[t] = NoRow

DeltaSound == \A p \in flight : DeltaSoundOf(p)

\* Any other genuine reply is the inventory, as far as the cursor and its own
\* server_time go.
InventorySoundOf(p) ==
    /\ p.body.time <= now
    /\ ~p.body.envelope => p.body.time = 0
    /\ Genuine(p.body) /\ ~IsDelta(p) =>
          /\ \A t \in Anchor : p.body.rows[t] # NoRow
          /\ \A t \in Tasks : Touched(t) <= cursor \/ Touched(t) <= p.body.time
                             => p.body.rows[t] = server[t]

InventorySound == \A p \in Answered : InventorySoundOf(p)

\* A version of a task that is not newer than the server's nor than a reply's.
Version(row, t) ==
    /\ row # NoRow => row.at <= now
    /\ NotNewer(row, server[t])
    /\ \A p \in Answered : NotNewer(row, p.body.rows[t])

\* Disk and screen, replies, and server hold versions in this order.
Versions ==
    \A t \in Tasks :
        /\ Version(skel[t], t) /\ Version(cache[t], t)
        /\ \A p \in Answered :
              /\ p.body.rows[t] # NoRow => p.body.rows[t].at <= now
              /\ NotNewer(p.body.rows[t], server[t])

SyncInv ==
    /\ TypeInv /\ NoTriggerLost /\ Synced /\ ServerSound
    /\ DeltaSound /\ InventorySound /\ Versions /\ CursorSound

-----------------------------------------------------------------------------
(* Signatures and versions.                                                *)

LEMMA NothingRows == \A t \in Tasks : Nothing[t] = NoRow
BY DEF Nothing

\* Equal signatures mean equal visible fields, row by row.
LEMMA SigSame ==
    ASSUME NEW x \in Rows, NEW y \in Rows, SigOf(x) = SigOf(y), NEW t \in Tasks
    PROVE  SameVisible(x[t], y[t])
<1>1. DOMAIN SigOf(x) = Live(x) /\ DOMAIN SigOf(y) = Live(y)
    BY DEF SigOf
<1>2. x[t] # NoRow <=> y[t] # NoRow
    BY <1>1 DEF Live
<1>3. ASSUME x[t] # NoRow PROVE x[t].vis = y[t].vis
    <2>1. t \in Live(x) /\ t \in Live(y)
        BY <1>2, <1>3 DEF Live
    <2>2. SigOf(x)[t] = x[t].vis /\ SigOf(y)[t] = y[t].vis
        BY <2>1 DEF SigOf
    <2> QED BY <2>2
<1> QED BY <1>2, <1>3 DEF SameVisible

\* Only the empty list has the initial signature.
LEMMA SigEmpty ==
    ASSUME NEW x \in Rows, SigOf(x) = NoSig, NEW t \in Tasks
    PROVE  x[t] = NoRow
BY SigSame, NothingType, NothingRows DEF NoSig, SameVisible

LEMMA SameAsSelf == ASSUME NEW r PROVE SameVisible(r, r)
BY DEF SameVisible

\* A row of rows carries a time.
LEMMA RowTime ==
    ASSUME NEW x \in Rows, NEW t \in Tasks, x[t] # NoRow
    PROVE  x[t] \in Row /\ x[t].at \in Nat /\ x[t].at > 0
BY DEF Rows, Row

\* What the typing gives about the numbers of a state.
LEMMA Numbers ==
    ASSUME TypeOK
    PROVE  /\ now \in Nat /\ cursor \in Nat /\ now > 0
           /\ \A t \in Tasks : Touched(t) \in Nat
           /\ \A p \in flight : /\ p.since \in Nat /\ p.body.time \in Nat
                                 /\ p.body.rows \in Rows /\ p.body \in Reply
<1>1. now \in Nat /\ cursor \in Nat /\ now > 0
    BY ConstantsAssumption DEF TypeOK, Time
<1>2. \A t \in Tasks : gone[t] \in Nat
    BY ConstantsAssumption DEF TypeOK, Time
<1>3. \A t \in Tasks : server[t] # NoRow => server[t].at \in Nat
    BY RowTime DEF TypeOK
<1>4. \A t \in Tasks : Touched(t) \in Nat
    BY <1>2, <1>3 DEF Touched
<1>5. \A p \in flight : p.since \in Time /\ p.body \in Reply
    BY DEF TypeOK, Pull
<1>6. \A p \in flight : p.body.time \in Time /\ p.body.rows \in Rows
    BY <1>5 DEF Reply
<1> QED BY <1>1, <1>4, <1>5, <1>6, ConstantsAssumption DEF Time

\* A pull is in flight only while the process is up.
LEMMA FlightUp == SyncInv /\ flight # {} => up /\ phase = "busy"
BY DEF SyncInv, TypeInv, SingleFlight, Synced

-----------------------------------------------------------------------------
(* Steps that leave the server and the disk alone.                         *)

LEMMA InitSync == Init => SyncInv
<1> SUFFICES ASSUME Init PROVE SyncInv
    OBVIOUS
<1> USE DEF Init
<1>1. TypeInv
    BY InitType
<1>2. NoTriggerLost /\ Synced
    BY DEF NoTriggerLost, Synced
<1>3. DeltaSound /\ InventorySound
    BY DEF DeltaSound, InventorySound, Answered
<1>4. \A t \in Tasks : Touched(t) \in {0, 1}
    BY DEF Live, Touched
<1>5. ServerSound
    BY <1>4 DEF ServerSound, Live
<1>6. Versions
    BY NothingRows DEF Versions, Version, Answered, NotNewer
<1>7. CursorSound
    <2> SUFFICES ASSUME NEW t \in Tasks, Touched(t) <= 0
                 PROVE  SameVisible(skel[t], server[t])
        BY DEF CursorSound
    <2>1. server[t] = NoRow
        BY DEF Touched, Live
    <2> QED BY <2>1, NothingRows DEF SameVisible
<1> QED BY <1>1, <1>2, <1>3, <1>5, <1>6, <1>7 DEF SyncInv

LEMMA CalmStep ==
    ASSUME SyncInv, UNCHANGED <<serverVars, diskVars, trusted>>,
           cache' \in {cache, skel, Nothing},
           \A p \in flight' : p \in flight \/ (~p.answered /\ p.since \in {0, cursor})
    PROVE  ServerSound' /\ DeltaSound' /\ InventorySound' /\ Versions' /\ CursorSound'
<1> USE DEF serverVars, diskVars
<1>1. \A t \in Tasks : Touched(t)' = Touched(t)
    BY DEF Touched
<1>2. \A p \in Answered' : p \in Answered
    BY DEF Answered
<1>3. ServerSound'
    BY <1>1 DEF SyncInv, ServerSound
<1>4. DeltaSound'
    <2> SUFFICES ASSUME NEW p \in flight'
                 PROVE  DeltaSoundOf(p)'
        BY DEF DeltaSound
    <2>1. CASE p \in flight
        BY <1>1, <2>1 DEF SyncInv, DeltaSound, DeltaSoundOf
    <2>2. CASE ~p.answered /\ p.since \in {0, cursor}
        BY <2>2 DEF DeltaSoundOf
    <2> QED BY <2>1, <2>2
<1>5. InventorySound'
    BY <1>1, <1>2 DEF SyncInv, InventorySound, InventorySoundOf
<1>6. Versions'
    <2> SUFFICES ASSUME NEW t \in Tasks
                 PROVE  /\ Version(skel[t], t)' /\ Version(cache[t], t)'
                        /\ \A p \in Answered' :
                              /\ p.body.rows[t] # NoRow => p.body.rows[t].at <= now'
                              /\ NotNewer(p.body.rows[t], server'[t])
        BY DEF Versions
    <2>1. cache'[t] \in {cache[t], skel[t], NoRow}
        BY NothingRows
    <2>2. \A row \in {cache[t], skel[t], NoRow} :
             /\ row # NoRow => row.at <= now
             /\ NotNewer(row, server[t])
             /\ \A p \in Answered : NotNewer(row, p.body.rows[t])
        BY DEF SyncInv, Versions, Version, NotNewer
    <2> QED BY <1>2, <2>1, <2>2 DEF SyncInv, Versions, Version
<1>7. CursorSound'
    BY <1>1 DEF SyncInv, CursorSound
<1> QED BY <1>3, <1>4, <1>5, <1>6, <1>7

\* The triggers, the end of a pass, the start of a request, an idle step.
LEMMA LoopStep ==
    ASSUME SyncInv,
           \/ Boot \/ Trigger \/ SyncNow \/ SyncReturns \/ PollAsk \/ PollSkip
           \/ \E p \in flight : RequestFails(p) \/ RequestRefused(p)
           \/ UNCHANGED vars
    PROVE  /\ NoTriggerLost' /\ Synced' /\ ServerSound'
           /\ DeltaSound' /\ InventorySound' /\ Versions' /\ CursorSound'
<1> USE DEF serverVars, diskVars, memVars, flightVars, vars
<1>1. TypeOK /\ SingleFlight
    BY DEF SyncInv, TypeInv
<1>2. UNCHANGED <<serverVars, diskVars, trusted>>
    BY DEF Boot, Trigger, SyncNow, PollTriggered, SyncReturns, PollAsk, PollSkip,
           PassOver, RequestFails, RequestRefused
<1>3. \A p \in flight' : p \in flight \/ (~p.answered /\ p.since \in {0, cursor})
    <2>1. CASE PollAsk
        <3>1. PICK from \in {Since, 0} :
                 flight' = flight \union
                    {[since |-> from, answered |-> FALSE, body |-> NoReply]}
            BY <2>1, Attempted DEF PollAsk
        <3>2. from \in {0, cursor}
            BY DEF Since
        <3> HIDE DEF NoReply
        <3> QED BY <3>1, <3>2
    <2>2. CASE ~PollAsk
        BY <2>2 DEF Boot, Trigger, SyncNow, PollTriggered, SyncReturns, PollSkip,
                    PassOver, RequestFails, RequestRefused
    <2> QED BY <2>1, <2>2
<1>4. Synced' /\ cache' \in {cache, skel, Nothing}
    <2>1. CASE Boot
        BY <2>1, Attempted DEF Boot, SyncInv, Synced
    <2>2. CASE ~Boot
        <3>1. UNCHANGED <<skel, cache, lastSig, up>>
            BY <2>2 DEF Trigger, SyncNow, PollTriggered, SyncReturns, PollAsk,
                        PollSkip, PassOver, RequestFails, RequestRefused
        <3>2. up \/ UNCHANGED <<phase, pending>>
            BY <2>2 DEF Trigger, SyncNow, PollTriggered, SyncReturns, PollAsk,
                        PollSkip, PassOver, RequestFails, RequestRefused,
                        SyncInv, TypeInv, SingleFlight, Synced
        <3> QED BY <3>1, <3>2 DEF SyncInv, Synced
    <2> QED BY <2>1, <2>2
<1>5. NoTriggerLost'
    <2>1. CASE Boot
        BY <2>1 DEF Boot, SyncInv, Synced, NoTriggerLost
    <2>2. CASE Trigger \/ SyncNow
        BY <1>1, <2>2 DEF Trigger, SyncNow, PollTriggered, Entered, Again, TypeOK,
                          NoTriggerLost
    <2>3. CASE SyncReturns \/ UNCHANGED vars
        BY <2>3 DEF SyncReturns, SyncInv, NoTriggerLost
    <2>4. CASE PollAsk \/ PollSkip
        BY <2>4 DEF PollAsk, PollSkip, NoTriggerLost
    <2>5. CASE \E p \in flight : RequestFails(p) \/ RequestRefused(p)
        BY <1>1, <2>5 DEF RequestFails, RequestRefused, PassOver, SingleFlight,
                          SyncInv, NoTriggerLost
    <2> QED BY <2>1, <2>2, <2>3, <2>4, <2>5
<1> QED BY <1>2, <1>3, <1>4, <1>5, CalmStep

-----------------------------------------------------------------------------
(* Steps of the server.                                                    *)

LEMMA ServerStep ==
    ASSUME SyncInv, NEW u \in Tasks, Create(u) \/ Edit(u) \/ Delete(u)
    PROVE  /\ NoTriggerLost' /\ Synced' /\ ServerSound'
           /\ DeltaSound' /\ InventorySound' /\ Versions' /\ CursorSound'
<1>1. TypeOK /\ now' = now + 1
      /\ UNCHANGED <<diskVars, memVars, flightVars, up, trusted>>
    BY DEF SyncInv, TypeInv, Create, Edit, Delete, ServerWrite
<1> USE DEF diskVars, memVars, flightVars
<1>2. \A t \in Tasks \ {u} : server'[t] = server[t] /\ gone'[t] = gone[t]
    BY <1>1 DEF TypeOK, Rows, Create, Edit, Delete
<1>3. \/ server'[u] = NoRow /\ gone'[u] = now' /\ u \notin Anchor
      \/ server'[u] # NoRow /\ server'[u].at = now'
    <2>1. CASE Delete(u)
        BY <1>1, <2>1 DEF Delete, TypeOK, Rows
    <2>2. CASE Create(u) \/ Edit(u)
        <3>1. PICK v \in Vis, s \in Sil :
                 server' = [server EXCEPT ![u] = [vis |-> v, sil |-> s, at |-> now + 1]]
            BY <2>2 DEF Create, Edit
        <3>2. server'[u] = [vis |-> v, sil |-> s, at |-> now + 1]
            BY <1>1, <3>1 DEF TypeOK, Rows
        <3>3. now + 1 \in 1..MaxTime
            BY <1>1, <2>2, ConstantsAssumption
               DEF Create, Edit, ServerWrite, TypeOK
        <3>4. [vis |-> v, sil |-> s, at |-> now + 1] \in Row
            BY <3>3 DEF Row
        <3> QED BY <1>1, <3>2, <3>4, NoRowAssumption
    <2> QED BY <2>1, <2>2
<1>4. Touched(u)' = now' /\ \A t \in Tasks \ {u} : Touched(t)' = Touched(t)
    BY <1>2, <1>3 DEF Touched
<1>5. now \in Nat /\ cursor \in Nat /\ (\A t \in Tasks : Touched(t) \in Nat)
      /\ \A p \in flight : p.since \in Nat /\ p.body.time \in Nat /\ p.body.rows \in Rows
    BY <1>1, Numbers
<1>6. ServerSound'
    BY <1>1, <1>2, <1>3, <1>4, <1>5, ConstantsAssumption DEF SyncInv, ServerSound
<1>7. NoTriggerLost' /\ Synced'
    BY <1>1 DEF SyncInv, NoTriggerLost, Synced
<1>8. CursorSound'
    BY <1>1, <1>2, <1>4, <1>5 DEF SyncInv, CursorSound, ServerSound
<1>9. \A p \in Answered : p.body.time <= now
    BY DEF SyncInv, InventorySound, InventorySoundOf
<1>10. \A p \in flight : p.since <= now
    BY <1>5 DEF SyncInv, DeltaSound, DeltaSoundOf, ServerSound
<1>11. DeltaSound'
    <2> SUFFICES ASSUME NEW p \in flight PROVE DeltaSoundOf(p)'
        BY <1>1 DEF DeltaSound
    <2>1. DeltaSoundOf(p) /\ p.since <= now /\ (p.answered => p.body.time <= now)
        BY <1>9, <1>10 DEF SyncInv, DeltaSound, Answered
    <2> QED BY <1>1, <1>2, <1>4, <1>5, <2>1 DEF DeltaSoundOf
<1>12. InventorySound'
    <2> SUFFICES ASSUME NEW p \in Answered PROVE InventorySoundOf(p)'
        BY <1>1 DEF InventorySound, Answered
    <2>1. InventorySoundOf(p) /\ cursor <= now /\ p \in flight
        BY DEF SyncInv, InventorySound, ServerSound, Answered
    <2> QED BY <1>1, <1>2, <1>4, <1>5, <2>1 DEF InventorySoundOf
<1>13. Versions'
    <2> SUFFICES ASSUME NEW t \in Tasks
                 PROVE  /\ Version(skel[t], t)' /\ Version(cache[t], t)'
                        /\ \A p \in Answered :
                              /\ p.body.rows[t] # NoRow => p.body.rows[t].at <= now'
                              /\ NotNewer(p.body.rows[t], server'[t])
        BY <1>1 DEF Versions, Answered
    <2>1. t = u \/ server'[t] = server[t]
        BY <1>2
    <2>2. ASSUME NEW row, row # NoRow => row.at \in Nat /\ row.at <= now,
                 NotNewer(row, server[t])
          PROVE  (row # NoRow => row.at <= now') /\ NotNewer(row, server'[t])
        BY <1>1, <1>3, <1>5, <2>1, <2>2 DEF NotNewer
    <2>3. \A p \in Answered : p.body.rows[t] # NoRow => p.body.rows[t].at \in Nat
        BY <1>5, RowTime DEF Answered
    <2>4. \A p \in Answered : /\ p.body.rows[t] # NoRow => p.body.rows[t].at <= now'
                              /\ NotNewer(p.body.rows[t], server'[t])
        BY <2>2, <2>3 DEF SyncInv, Versions
    <2>5. ASSUME NEW rows \in {skel, cache}
          PROVE  /\ rows[t] # NoRow => rows[t].at <= now'
                 /\ NotNewer(rows[t], server'[t])
                 /\ \A p \in Answered : NotNewer(rows[t], p.body.rows[t])
        <3>1. rows[t] # NoRow => rows[t].at \in Nat
            BY <1>1, RowTime DEF TypeOK
        <3>2. Version(rows[t], t)
            BY DEF SyncInv, Versions
        <3> QED BY <2>2, <3>1, <3>2 DEF Version
    <2> QED BY <1>1, <2>4, <2>5 DEF Version, Answered
<1> QED BY <1>6, <1>7, <1>8, <1>11, <1>12, <1>13

-----------------------------------------------------------------------------
(* A response arrives.                                                     *)

\* Whatever a server may answer is sound when it is sent.
LEMMA BodySound ==
    ASSUME SyncInv, NEW p \in flight, NEW r \in Bodies(p) \union {NoReply},
           NEW q, q = [since |-> p.since, answered |-> TRUE, body |-> r]
    PROVE  /\ DeltaSoundOf(q) /\ InventorySoundOf(q)
           /\ \A t \in Tasks : r.rows[t] \in {server[t], NoRow}
<1>1. TypeOK /\ ServerSound /\ p.since \in {0, cursor}
    BY DEF SyncInv, TypeInv, DeltaSound, DeltaSoundOf
<1>2. now \in Nat /\ cursor \in Nat /\ now > 0 /\ \A t \in Tasks : Touched(t) \in Nat
    BY <1>1, Numbers
<1>3. q.since = p.since /\ q.answered /\ q.body = r
    OBVIOUS
<1>4. CASE r = NoReply
    <2>1. ~Genuine(r) /\ ~IsDelta(q)
        BY <1>3, <1>4, NothingRows DEF Genuine, IsDelta, NoReply, Live
    <2>2. r.time = 0 /\ r.rows = Nothing
        BY <1>4 DEF NoReply
    <2> QED BY <1>1, <1>2, <1>3, <2>1, <2>2, NothingRows
            DEF DeltaSoundOf, InventorySoundOf
<1>5. CASE r = PlainBody \/ (r = FullBody /\ p.since = 0)
    <2>1. r.rows = server /\ r.time \in {0, now} /\ (~r.envelope => r.time = 0)
        BY <1>5 DEF PlainBody, FullBody
    <2>2. ~IsDelta(q)
        BY <1>3, <1>5 DEF IsDelta, PlainBody
    <2>3. DeltaSoundOf(q)
        BY <1>1, <1>3, <2>2 DEF DeltaSoundOf
    <2>4. InventorySoundOf(q)
        BY <1>1, <1>2, <1>3, <2>1 DEF InventorySoundOf, ServerSound
    <2> QED BY <2>1, <2>3, <2>4
<1>6. CASE r \in DeltaBodies(p.since) /\ p.since # 0
    <2>1. PICK time \in {0, now} :
             r = [rows |-> [t \in Tasks |-> IF Touched(t) > p.since
                                            THEN server[t] ELSE NoRow],
                  tombs |-> {t \in Tasks : server[t] = NoRow /\ gone[t] > p.since},
                  time |-> time, envelope |-> TRUE]
        BY <1>6 DEF DeltaBodies
    <2>2. r.time = time /\ r.envelope /\ IsDelta(q)
        BY <1>3, <1>6, <2>1 DEF IsDelta
    <2>3. \A t \in Tasks :
             r.rows[t] = IF Touched(t) > p.since THEN server[t] ELSE NoRow
        BY <2>1
    <2>4. \A t \in Tasks : t \in r.tombs <=> server[t] = NoRow /\ Touched(t) > p.since
        BY <2>1 DEF Touched
    <2>5. DeltaSoundOf(q)
        BY <1>1, <1>3, <2>3, <2>4 DEF DeltaSoundOf
    <2>6. InventorySoundOf(q)
        BY <1>2, <1>3, <2>2 DEF InventorySoundOf
    <2> QED BY <2>3, <2>5, <2>6
<1> QED BY <1>4, <1>5, <1>6 DEF Bodies

LEMMA ArriveStep ==
    ASSUME SyncInv, NEW p \in flight, AnswerTo(p) \/ AnswerGarbled(p)
    PROVE  /\ NoTriggerLost' /\ Synced' /\ ServerSound'
           /\ DeltaSound' /\ InventorySound' /\ Versions' /\ CursorSound'
<1>1. PICK r \in Bodies(p) \union {NoReply} : Arrives(p, r)
    BY DEF AnswerTo, AnswerGarbled
<1> DEFINE q == [since |-> p.since, answered |-> TRUE, body |-> r]
<1>2. /\ flight' = {q}
      /\ UNCHANGED <<serverVars, diskVars, memVars, phase, pollAgain, pending, up,
                     trusted>>
    BY <1>1 DEF Arrives, SyncInv, TypeInv, SingleFlight
<1> USE DEF serverVars, diskVars, memVars
<1>3. /\ DeltaSoundOf(q) /\ InventorySoundOf(q)
      /\ \A t \in Tasks : r.rows[t] \in {server[t], NoRow}
    BY BodySound
<1> HIDE DEF q
<1>4. q.body = r /\ q.answered
    BY DEF q
<1>5. \A t \in Tasks : Touched(t)' = Touched(t)
    BY <1>2 DEF Touched
<1>6. DeltaSound'
    BY <1>2, <1>3, <1>5 DEF DeltaSound, DeltaSoundOf
<1>7. InventorySound'
    BY <1>2, <1>3, <1>5 DEF InventorySound, InventorySoundOf, Answered
<1>8. Versions'
    <2>1. \A t \in Tasks :
             /\ r.rows[t] # NoRow => server[t] = r.rows[t] /\ Touched(t) <= now
             /\ r.rows[t] # NoRow => r.rows[t].at = Touched(t)
        BY <1>3 DEF SyncInv, ServerSound, Touched
    <2>2. \A t \in Tasks : r.rows[t] # NoRow => r.rows[t].at \in Nat
        BY <2>1, Numbers DEF SyncInv, TypeInv
    <2>3. \A t \in Tasks :
             /\ r.rows[t] # NoRow => r.rows[t].at <= now
             /\ NotNewer(r.rows[t], server[t])
        BY <2>1, <2>2 DEF NotNewer
    <2>4. \A t \in Tasks : \A row :
             NotNewer(row, server[t]) => NotNewer(row, r.rows[t])
        BY <2>1 DEF NotNewer
    <2>5. \A t \in Tasks : Version(skel[t], t) /\ Version(cache[t], t)
        BY DEF SyncInv, Versions
    <2> QED BY <1>2, <1>4, <2>3, <2>4, <2>5 DEF Versions, Version, Answered
<1>9. NoTriggerLost' /\ Synced' /\ ServerSound' /\ CursorSound'
    BY <1>2, <1>5 DEF SyncInv, NoTriggerLost, Synced, ServerSound, CursorSound
<1> QED BY <1>6, <1>7, <1>8, <1>9

-----------------------------------------------------------------------------
(* A response is written to disk, by its handler or up to a crash.         *)

\* With no pull left, what remains to show is about the disk and the screen.
LEMMA NoneLeft ==
    ASSUME flight' = {},
           \A t \in Tasks : \A row \in {skel'[t], cache'[t]} :
              /\ row # NoRow => row.at <= now'
              /\ NotNewer(row, server'[t])
    PROVE  DeltaSound' /\ InventorySound' /\ Versions'
BY DEF DeltaSound, InventorySound, Versions, Version, Answered

\* Applying a reply to the skeleton or to the cache never brings back an older
\* version.
LEMMA ApplyVersion ==
    ASSUME SyncInv, NEW p \in Answered, NEW t \in Tasks,
           NEW old \in {skel[t], cache[t]}, NEW row \in {old, p.body.rows[t], NoRow}
    PROVE  /\ row # NoRow => row.at <= now
           /\ NotNewer(row, server[t]) /\ NotNewer(old, row)
<1>1. NotNewer(NoRow, server[t]) /\ NotNewer(old, NoRow)
    BY DEF NotNewer
<1>2. old # NoRow => old.at \in Nat
    BY RowTime DEF SyncInv, TypeInv, TypeOK
<1>3. NotNewer(old, old)
    BY <1>2 DEF NotNewer
<1>4. Version(old, t)
    BY DEF SyncInv, Versions
<1> QED BY <1>1, <1>3, <1>4 DEF SyncInv, Versions, Version

LEMMA ApplyRow ==
    ASSUME NEW base \in Rows, NEW r, NEW t \in Tasks
    PROVE  Apply(base, r)[t] = IF t \in r.tombs THEN NoRow
                               ELSE IF r.rows[t] # NoRow THEN r.rows[t] ELSE base[t]
BY DEF Apply

\* After a delta the skeleton agrees with the server up to the cursor, whether
\* or not the cursor has advanced already.
LEMMA DeltaCovers ==
    ASSUME SyncInv, trusted, NEW p \in Answered, IsDelta(p),
           NEW c \in {cursor, p.body.time}, NEW t \in Tasks, Touched(t) <= c
    PROVE  SameVisible(Apply(skel, p.body)[t], server[t])
<1>1. TypeOK /\ DeltaSoundOf(p) /\ p \in flight
    BY DEF SyncInv, TypeInv, DeltaSound, Answered
<1>2. p.since \in Nat /\ Touched(t) \in Nat /\ cursor \in Nat /\ p.body.time \in Nat
      /\ p.since = cursor
    BY <1>1, Numbers DEF DeltaSoundOf, IsDelta
<1>3. Apply(skel, p.body)[t] = IF t \in p.body.tombs THEN NoRow
             ELSE IF p.body.rows[t] # NoRow THEN p.body.rows[t] ELSE skel[t]
    BY <1>1, ApplyRow DEF TypeOK
<1>4. CASE Touched(t) <= cursor
    <2>1. p.body.rows[t] = NoRow /\ t \notin p.body.tombs
        BY <1>1, <1>2, <1>4 DEF DeltaSoundOf, Answered
    <2> QED BY <1>3, <1>4, <2>1 DEF SyncInv, CursorSound
<1>5. CASE Touched(t) > cursor
    <2>1. Touched(t) <= p.body.time
        BY <1>2, <1>5
    <2>2. p.body.rows[t] = server[t] /\ (t \in p.body.tombs <=> server[t] = NoRow)
        BY <1>1, <1>2, <1>5, <2>1 DEF DeltaSoundOf, Answered
    <2>3. Apply(skel, p.body)[t] = server[t]
        BY <1>3, <2>2
    <2> QED BY <2>3, SameAsSelf
<1> QED BY <1>2, <1>4, <1>5

LEMMA DieStep ==
    ASSUME SyncInv, Crash \/ \E p \in flight : CrashMidDelta(p) \/ CrashMidFull(p)
    PROVE  /\ NoTriggerLost' /\ Synced' /\ ServerSound'
           /\ DeltaSound' /\ InventorySound' /\ Versions' /\ CursorSound'
<1>1. Die /\ TypeOK
    BY DEF Crash, CrashMidDelta, CrashMidFull, SyncInv, TypeInv
<1>2. /\ flight' = {} /\ UNCHANGED serverVars /\ NoTriggerLost' /\ Synced'
      /\ \A t \in Tasks : cache'[t] = NoRow
    BY <1>1, NothingRows DEF Die, NoTriggerLost, Synced
<1>3. (\A t \in Tasks : Touched(t)' = Touched(t)) /\ now' = now /\ server' = server
    BY <1>2 DEF Touched, serverVars
<1>4. ASSUME UNCHANGED skel, cursor' <= now,
             trusted' => trusted /\ cursor' = cursor
      PROVE  ServerSound' /\ DeltaSound' /\ InventorySound' /\ Versions' /\ CursorSound'
    <2>1. ServerSound' /\ CursorSound'
        BY <1>3, <1>4 DEF SyncInv, ServerSound, CursorSound
    <2>2. \A t \in Tasks : \A row \in {skel'[t], cache'[t]} :
             (row # NoRow => row.at <= now') /\ NotNewer(row, server'[t])
        BY <1>2, <1>3, <1>4 DEF SyncInv, Versions, Version, NotNewer
    <2> QED BY <1>2, <2>1, <2>2, NoneLeft
<1>5. CASE Crash
    BY <1>2, <1>4, <1>5 DEF Crash, diskVars, SyncInv, ServerSound
<1>6. CASE \E p \in flight : CrashMidFull(p)
    BY <1>2, <1>4, <1>6
       DEF CrashMidFull, SyncInv, InventorySound, InventorySoundOf, Answered
<1>7. ASSUME NEW p \in flight, CrashMidDelta(p)
      PROVE  ServerSound' /\ DeltaSound' /\ InventorySound' /\ Versions' /\ CursorSound'
    <2>1. p \in Answered /\ IsDelta(p) /\ skel' = Apply(skel, p.body)
          /\ UNCHANGED <<cursor, trusted>>
        BY <1>7 DEF CrashMidDelta, Answered, IsDelta
    <2>2. \A t \in Tasks : skel'[t] \in {skel[t], p.body.rows[t], NoRow}
        BY <1>1, <2>1, ApplyRow DEF TypeOK
    <2>3. \A t \in Tasks : \A row \in {skel'[t], cache'[t]} :
             (row # NoRow => row.at <= now') /\ NotNewer(row, server'[t])
        BY <1>2, <1>3, <2>1, <2>2, ApplyVersion DEF NotNewer
    <2>4. CursorSound'
        BY <1>3, <2>1, DeltaCovers DEF CursorSound
    <2> QED BY <1>2, <1>3, <2>1, <2>3, <2>4, NoneLeft DEF SyncInv, ServerSound
<1> QED BY <1>2, <1>5, <1>6, <1>7

\* What every handler leaves to show.
LEMMA HandledStep ==
    ASSUME SyncInv, NEW p \in flight, Handled(p),
           lastSig' \in {NoSig, SigOf(cache')}, cursor' \in {cursor, p.body.time},
           \A t \in Tasks : /\ skel'[t] \in {skel[t], p.body.rows[t], NoRow}
                            /\ cache'[t] \in {cache[t], p.body.rows[t], NoRow},
           trusted' => \A t \in Tasks :
                          Touched(t) <= cursor' => SameVisible(skel'[t], server[t])
    PROVE  /\ NoTriggerLost' /\ Synced' /\ ServerSound'
           /\ DeltaSound' /\ InventorySound' /\ Versions' /\ CursorSound'
<1>1. up /\ phase = "busy" /\ p \in Answered /\ flight = {p}
    BY FlightUp DEF Handled, Answered, SyncInv, TypeInv, SingleFlight
<1>2. /\ flight' = {} /\ up' /\ UNCHANGED <<serverVars, pollAgain, pending>>
      /\ phase' = IF pollAgain THEN "loop" ELSE "idle"
    BY <1>1 DEF Handled, PassOver
<1>3. (\A t \in Tasks : Touched(t)' = Touched(t)) /\ now' = now /\ server' = server
    BY <1>2 DEF Touched, serverVars
<1>4. NoTriggerLost' /\ Synced'
    BY <1>1, <1>2 DEF SyncInv, NoTriggerLost, Synced
<1>5. p.body.time <= now
    BY <1>1 DEF SyncInv, InventorySound, InventorySoundOf
<1>6. ServerSound'
    BY <1>3, <1>5 DEF SyncInv, ServerSound
<1>7. \A t \in Tasks : \A row \in {skel'[t], cache'[t]} :
         (row # NoRow => row.at <= now') /\ NotNewer(row, server'[t])
    BY <1>1, <1>3, ApplyVersion
<1>8. CursorSound'
    BY <1>3 DEF CursorSound
<1> QED BY <1>2, <1>4, <1>6, <1>7, <1>8, NoneLeft

\* maybeAdvanceCursor moves the cursor to the reply's time or not at all.
LEMMA Advanced ==
    ASSUME NEW r, AdvanceCursor(r)
    PROVE  cursor' \in {cursor, r.time}
BY Attempted DEF AdvanceCursor

LEMMA DeltaStep ==
    ASSUME SyncInv, NEW p \in flight, HandleDelta(p)
    PROVE  /\ NoTriggerLost' /\ Synced' /\ ServerSound'
           /\ DeltaSound' /\ InventorySound' /\ Versions' /\ CursorSound'
<1> DEFINE r == p.body
<1>1. /\ TypeOK /\ up /\ lastSig \in {NoSig, SigOf(cache)}
      /\ p \in Answered /\ IsDelta(p)
    BY FlightUp DEF SyncInv, TypeInv, Synced, HandleDelta, Handled, Answered, IsDelta
<1>2. skel' \in {skel, Apply(skel, r)} /\ cache' = Apply(cache, r)
      /\ lastSig' \in {NoSig, SigOf(cache')}
    <2>1. CASE ~EmptyDelta(r)
        BY <2>1, Attempted DEF HandleDelta
    <2>2. CASE EmptyDelta(r)
        <3>1. r.tombs = {} /\ \A t \in Tasks : r.rows[t] = NoRow
            BY <2>2 DEF EmptyDelta, Live
        <3>2. Apply(cache, r) = cache
            BY <1>1, <3>1 DEF Apply, TypeOK, Rows
        <3>3. UNCHANGED <<skel, cache, lastSig>>
            BY <2>2 DEF HandleDelta
        <3> QED BY <1>1, <3>2, <3>3
    <2> QED BY <2>1, <2>2
<1>3. \A t \in Tasks : /\ skel'[t] \in {skel[t], r.rows[t], NoRow}
                       /\ cache'[t] \in {cache[t], r.rows[t], NoRow}
    BY <1>1, <1>2, ApplyRow DEF TypeOK
<1>4. /\ Handled(p) /\ cursor' \in {cursor, r.time}
      /\ trusted' => trusted /\ (skel' = Apply(skel, r) \/ cursor' = cursor)
    BY Advanced DEF HandleDelta
<1>5. ASSUME trusted', NEW t \in Tasks, Touched(t) <= cursor'
      PROVE  SameVisible(skel'[t], server[t])
    <2>1. CASE skel' = Apply(skel, r)
        BY <1>1, <1>4, <1>5, <2>1, DeltaCovers
    <2>2. CASE skel' = skel /\ cursor' = cursor
        BY <1>4, <1>5, <2>2 DEF SyncInv, CursorSound
    <2> QED BY <1>2, <1>4, <1>5, <2>1, <2>2
<1> QED BY <1>1, <1>2, <1>3, <1>4, <1>5, HandledStep

\* A full pull and a plain inventory.
LEMMA InventoryStep ==
    ASSUME SyncInv, NEW p \in flight, HandleFull(p) \/ HandlePlain(p)
    PROVE  /\ NoTriggerLost' /\ Synced' /\ ServerSound'
           /\ DeltaSound' /\ InventorySound' /\ Versions' /\ CursorSound'
<1> DEFINE r == p.body
<1>1. /\ TypeOK /\ up /\ lastSig \in {NoSig, SigOf(cache)}
      /\ p \in Answered /\ ~IsDelta(p) /\ Handled(p) /\ r.rows \in Rows
    BY FlightUp, Numbers
       DEF SyncInv, TypeInv, Synced, HandleFull, HandlePlain, Handled, Answered, IsDelta
<1>2. /\ cursor' \in {cursor, r.time}
      /\ \/ Unmoved(r) /\ UNCHANGED <<skel, cache, lastSig>>
         \/ ~Unmoved(r) /\ Reconcile(r.rows)
      /\ trusted' = \/ Genuine(r) /\ skel' = cache'
                    \/ trusted /\ UNCHANGED diskVars
    BY Advanced DEF HandleFull, HandlePlain, Trust
<1>3. /\ lastSig' \in {NoSig, SigOf(cache')}
      /\ \A t \in Tasks : /\ skel'[t] \in {skel[t], r.rows[t], NoRow}
                           /\ cache'[t] \in {cache[t], r.rows[t], NoRow}
    BY <1>1, <1>2, Attempted DEF Reconcile
<1>4. InventorySoundOf(p) /\ CursorSound
    BY <1>1 DEF SyncInv, InventorySound
<1>5. ASSUME Genuine(r), NEW t \in Tasks PROVE SameVisible(cache'[t], r.rows[t])
    <2>1. CASE ~Unmoved(r)
        BY <1>2, <2>1, SameAsSelf DEF Reconcile
    <2>2. CASE Unmoved(r)
        <3>1. SigOf(r.rows) # NoSig
            BY <1>1, <1>4, <1>5, SigEmpty, ConstantsAssumption DEF InventorySoundOf
        <3>2. SigOf(cache) = SigOf(r.rows)
            BY <1>1, <2>2, <3>1 DEF Unmoved
        <3> QED BY <1>1, <1>2, <2>2, <3>2, SigSame DEF TypeOK
    <2> QED BY <2>1, <2>2
<1>6. ASSUME trusted', NEW t \in Tasks, Touched(t) <= cursor'
      PROVE  SameVisible(skel'[t], server[t])
    <2>1. CASE Genuine(r) /\ skel' = cache'
        <3>1. r.rows[t] = server[t]
            BY <1>1, <1>2, <1>4, <1>6, <2>1 DEF InventorySoundOf
        <3> QED BY <1>5, <2>1, <3>1
    <2>2. CASE trusted /\ UNCHANGED diskVars
        BY <1>4, <1>6, <2>2 DEF CursorSound, diskVars
    <2> QED BY <1>2, <1>6, <2>1, <2>2
<1> QED BY <1>1, <1>2, <1>3, <1>6, HandledStep

LEMMA SyncStep == SyncInv /\ [Next]_vars => SyncInv'
<1> SUFFICES ASSUME SyncInv, [Next]_vars PROVE SyncInv'
    OBVIOUS
<1>1. TypeInv'
    BY TypeStep DEF SyncInv
<1>2. /\ NoTriggerLost' /\ Synced' /\ ServerSound'
      /\ DeltaSound' /\ InventorySound' /\ Versions' /\ CursorSound'
    <2>1. CASE ServerNext
        BY <2>1, ServerStep DEF ServerNext
    <2>2. CASE Answer \/ \E p \in flight : AnswerGarbled(p)
        BY <2>2, ArriveStep DEF Answer
    <2>3. CASE Handle
        BY <2>3, DeltaStep, InventoryStep DEF Handle
    <2>4. CASE Crash \/ \E p \in flight : CrashMidDelta(p) \/ CrashMidFull(p)
        BY <2>4, DieStep
    <2>5. CASE \/ Boot \/ Trigger \/ SyncNow \/ SyncReturns \/ PollAsk \/ PollSkip
               \/ \E p \in flight : RequestFails(p) \/ RequestRefused(p)
               \/ UNCHANGED vars
        BY <2>5, LoopStep
    <2> QED BY <2>1, <2>2, <2>3, <2>4, <2>5 DEF Next
<1> QED BY <1>1, <1>2 DEF SyncInv

LEMMA SyncInvariant == Spec => []SyncInv
BY InitSync, SyncStep, PTL DEF Spec

-----------------------------------------------------------------------------
(* The properties.                                                         *)

\* poll(): a trigger whose pass has not begun is never forgotten.
THEOREM TriggersAreServed == Spec => []NoTriggerLost
<1>1. SyncInv => NoTriggerLost
    BY DEF SyncInv
<1> QED BY <1>1, SyncInvariant, PTL

\* As long as it may be relied on, the sync cursor does not run ahead of the
\* skeleton: every server write it covers is on disk, whatever requests failed
\* and whatever writes of the skeleton or of the cursor did.  What ends the
\* reliance, a crash in the middle of a full pull, an unreadable body or rows
\* that were not written under a cursor that was, is named in CursorSound.
THEOREM CursorNeverAhead == Spec => []CursorSound
<1>1. SyncInv => CursorSound
    BY DEF SyncInv
<1> QED BY <1>1, SyncInvariant, PTL

LEMMA SyncedRepairs == SyncInv => Repairable
<1> SUFFICES ASSUME SyncInv, up, lastSig = SigOf(server), NEW t \in Tasks
             PROVE  SameVisible(cache[t], server[t])
    BY DEF Repairable
<1>1. TypeOK /\ lastSig \in {NoSig, SigOf(cache)} /\ \A u \in Anchor : server[u] # NoRow
    BY DEF SyncInv, TypeInv, Synced, ServerSound
<1>2. lastSig # NoSig
    BY <1>1, SigEmpty, ConstantsAssumption DEF TypeOK
<1> QED BY <1>1, <1>2, SigSame DEF TypeOK

\* No visible divergence escapes both the next delta and the next full pull:
\* the signature short-circuit of pollFull never hides one.
THEOREM DivergenceIsRepairable == Spec => []Repairable
BY SyncInvariant, SyncedRepairs, PTL

\* What a handler can do to a row on screen.
LEMMA HandledRows ==
    ASSUME SyncInv, NEW p \in flight,
           HandleFull(p) \/ HandlePlain(p) \/ HandleDelta(p)
    PROVE  /\ p \in Answered /\ TypeOK
           /\ \A t \in Tasks : /\ cache'[t] \in {cache[t], p.body.rows[t], NoRow}
                                /\ skel'[t] \in {skel[t], p.body.rows[t], NoRow}
                                /\ skel'[t] \in {skel[t], cache'[t]}
<1>1. p \in Answered /\ TypeOK
    BY DEF SyncInv, TypeInv, Answered, HandleFull, HandlePlain, HandleDelta, Handled
<1>2. CASE HandleFull(p) \/ HandlePlain(p)
    <2>1. UNCHANGED <<skel, cache>> \/ Reconcile(p.body.rows)
        BY <1>2 DEF HandleFull, HandlePlain
    <2> QED BY <1>1, <2>1, Attempted DEF Reconcile
<1>3. CASE HandleDelta(p)
    <2>1. \/ UNCHANGED <<skel, cache>>
          \/ /\ skel' \in {skel, Apply(skel, p.body)}
             /\ cache' = Apply(cache, p.body)
        BY <1>3, Attempted DEF HandleDelta
    <2> QED BY <1>1, <2>1, ApplyRow DEF TypeOK
<1> QED BY <1>1, <1>2, <1>3

\* A step either keeps the rows on screen and on disk, or empties the screen,
\* or is the start of the process, or writes one reply.
LEMMA RowsStep ==
    ASSUME SyncInv, Next
    PROVE  \/ UNCHANGED <<cache, skel>>
           \/ cache = Nothing /\ cache' \in {skel, Nothing} /\ UNCHANGED skel
           \/ cache' = Nothing /\ UNCHANGED skel
           \/ \E p \in Answered :
                 /\ \A t \in Tasks : skel'[t] \in {skel[t], p.body.rows[t], NoRow}
                 /\ \/ cache' = Nothing
                    \/ \A t \in Tasks : cache'[t] \in {cache[t], p.body.rows[t], NoRow}
<1> USE DEF memVars, diskVars
<1>1. CASE ServerNext
    BY <1>1 DEF ServerNext, Create, Edit, Delete, ServerWrite
<1>2. CASE Boot
    BY <1>2, Attempted DEF Boot, SyncInv, Synced
<1>3. CASE Crash \/ \E p \in flight : CrashMidFull(p)
    BY <1>3 DEF Crash, CrashMidFull, Die
<1>4. ASSUME NEW p \in flight, CrashMidDelta(p)
      PROVE  /\ p \in Answered /\ cache' = Nothing
             /\ \A t \in Tasks : skel'[t] \in {skel[t], p.body.rows[t], NoRow}
    BY <1>4, ApplyRow DEF CrashMidDelta, Die, Answered, SyncInv, TypeInv, TypeOK
<1>5. CASE Trigger \/ SyncNow \/ SyncReturns \/ PollAsk \/ PollSkip
    BY <1>5 DEF Trigger, SyncNow, PollTriggered, SyncReturns, PollAsk, PollSkip
<1>6. CASE Answer \/ \E p \in flight :
                        AnswerGarbled(p) \/ RequestFails(p) \/ RequestRefused(p)
    BY <1>6 DEF Answer, AnswerTo, AnswerGarbled, Arrives, RequestFails, RequestRefused
<1>7. CASE Handle
    BY <1>7, HandledRows DEF Handle
<1> QED BY <1>1, <1>2, <1>3, <1>4, <1>5, <1>6, <1>7 DEF Next

\* Neither the screen nor the disk ever goes back to an older version of a
\* task while the process lives.
THEOREM RowsNeverOlder == Spec => NeverOlder
<1> DEFINE Step == \A t \in Tasks :
          /\ cache[t] # NoRow /\ cache'[t] # NoRow => cache'[t].at >= cache[t].at
          /\ skel[t] # NoRow /\ skel'[t] # NoRow => skel'[t].at >= skel[t].at
<1>1. ASSUME SyncInv, Next, NEW t \in Tasks
      PROVE  /\ cache[t] # NoRow /\ cache'[t] # NoRow => cache'[t].at >= cache[t].at
             /\ skel[t] # NoRow /\ skel'[t] # NoRow => skel'[t].at >= skel[t].at
    <2>1. (cache[t] # NoRow => cache[t].at \in Nat) /\ (skel[t] # NoRow => skel[t].at \in Nat)
        BY <1>1, RowTime DEF SyncInv, TypeInv, TypeOK
    <2>2. \A p \in Answered : p.body.rows[t] # NoRow => p.body.rows[t].at \in Nat
        BY <1>1, Numbers, RowTime DEF SyncInv, TypeInv, Answered
    <2>3. ASSUME NEW p \in Answered, NEW old \in {skel[t], cache[t]},
                 NEW row \in {old, p.body.rows[t], NoRow}
          PROVE  old # NoRow /\ row # NoRow => row.at >= old.at
        BY <1>1, <2>1, <2>2, ApplyVersion DEF NotNewer
    <2> QED BY <1>1, <2>1, <2>3, RowsStep, NothingRows
<1>2. SyncInv /\ [Next]_vars => [Step]_vars
    BY <1>1
<1> QED BY <1>2, SyncInvariant, PTL DEF Spec, NeverOlder

\* Only a response that brings a newer version of a task announces its
\* completion, so no completion is announced twice.
THEOREM CompletionsAreNews == Spec => CompletionIsNews
<1> DEFINE Step == \A n \in notices' :
          n.kind = "completed" => cache'[n.task].at > cache[n.task].at
<1>1. ASSUME SyncInv, Next, NEW n \in notices', n.kind = "completed"
      PROVE  cache'[n.task].at > cache[n.task].at
    <2>1. PICK p \in flight : HandleFull(p) \/ HandlePlain(p) \/ HandleDelta(p)
        BY <1>1 DEF Next, Handle, ServerNext, Create, Edit, Delete, ServerWrite, Boot,
           Crash, CrashMidDelta, CrashMidFull, Die, Trigger, SyncNow, PollTriggered,
           SyncReturns, PollAsk, PollSkip, Answer, AnswerTo, AnswerGarbled, Arrives,
           RequestFails, RequestRefused, Quiet
    <2>2. /\ p \in Answered /\ TypeOK
          /\ notices' = {} \/ notices' = Transitions(cache, p.body.rows, firstPoll)
        BY <1>1, <2>1, HandledRows DEF HandleFull, HandlePlain, HandleDelta, Reconcile, Quiet
    <2>3. PICK u \in Live(p.body.rows) \cap Live(cache) :
             /\ n = [task |-> u, kind |-> "completed"]
             /\ p.body.rows[u].vis \in Ended /\ cache[u].vis \notin Ended
        BY <1>1, <2>2 DEF Transitions
    <2>4. /\ u \in Tasks /\ n.task = u /\ p.body.rows[u] # NoRow /\ cache[u] # NoRow
          /\ p.body.rows[u] # cache[u]
        BY <2>3 DEF Live
    <2>5. p.body.rows[u].at > cache[u].at
        <3>1. NotNewer(cache[u], p.body.rows[u])
            BY <1>1, <2>2, <2>4 DEF SyncInv, Versions, Version
        <3>2. cache[u].at \in Nat /\ p.body.rows[u].at \in Nat
            BY <1>1, <2>2, <2>4, Numbers, RowTime DEF TypeOK, Answered
        <3> QED BY <2>4, <3>1, <3>2 DEF NotNewer
    <2>6. cache'[u] = p.body.rows[u]
        <3>1. CASE HandleDelta(p)
            <4>1. u \notin p.body.tombs
                BY <1>1, <2>2, <2>4, <3>1
                   DEF SyncInv, DeltaSound, DeltaSoundOf, HandleDelta, IsDelta, Answered
            <4>2. cache' = Apply(cache, p.body)
                BY <1>1, <3>1 DEF HandleDelta, Quiet
            <4> QED BY <2>2, <2>4, <4>1, <4>2, ApplyRow DEF TypeOK
        <3>2. CASE HandleFull(p) \/ HandlePlain(p)
            BY <1>1, <3>2 DEF HandleFull, HandlePlain, Reconcile, Quiet
        <3> QED BY <2>1, <3>1, <3>2
    <2> QED BY <2>4, <2>5, <2>6
<1>2. SyncInv /\ [Next]_vars => [Step]_vars
    BY <1>1
<1> QED BY <1>2, SyncInvariant, PTL DEF Spec, CompletionIsNews

\* A pull sent after the click and applied has moved the time syncNow() compares.
Credited == credit = "applied" => moved

LEMMA CreditStep ==
    ASSUME TypeOK, Credited, [Next]_vars
    PROVE  Credited'
<1> USE DEF Credited, TypeOK, syncVars
<1>1. CASE ServerNext
    BY <1>1 DEF ServerNext, Create, Edit, Delete, ServerWrite
<1>2. CASE Boot \/ Trigger \/ SyncNow \/ SyncReturns \/ PollAsk \/ PollSkip
    BY <1>2 DEF Boot, Trigger, SyncNow, SyncReturns, PollAsk, PollSkip, PassOver
<1>3. CASE Crash \/ \E p \in flight : CrashMidDelta(p) \/ CrashMidFull(p)
    BY <1>3 DEF Crash, CrashMidDelta, CrashMidFull, Die
<1>4. CASE Answer \/ \E p \in flight : AnswerGarbled(p)
    BY <1>4 DEF Answer, AnswerTo, AnswerGarbled, Arrives
<1>5. CASE \E p \in flight : RequestFails(p) \/ RequestRefused(p)
    BY <1>5 DEF RequestFails, RequestRefused, PassOver
<1>6. CASE Handle
    <2>1. PICK p \in flight : Handled(p)
        BY <1>6 DEF Handle, HandleFull, HandlePlain, HandleDelta
    <2> QED BY <2>1 DEF Handled, PassOver
<1>7. CASE UNCHANGED vars
    BY <1>7 DEF vars
<1> QED BY <1>1, <1>2, <1>3, <1>4, <1>5, <1>6, <1>7 DEF Next

\* syncNow() never reports a failure when a pull sent after the click was
\* applied.
THEOREM RejectionsAreHonest == Spec => []SyncRejectHonest
<1>1. Init => Credited
    BY DEF Init, Credited
<1>2. Credited => SyncRejectHonest
    BY DEF Credited, SyncRejectHonest
<1> QED BY <1>1, <1>2, CreditStep, TypeCorrect, PTL DEF Spec

-----------------------------------------------------------------------------
(* The loop implements Replica.                                            *)

\* A version of a task that is gone was written before its deletion.
OutlivedBy(row, t) == server[t] = NoRow /\ row # NoRow => row.at < gone[t]

Outlived ==
    /\ \A t \in Tasks : OutlivedBy(skel[t], t) /\ OutlivedBy(cache[t], t)
    /\ \A p \in Answered : \A t \in Tasks : OutlivedBy(p.body.rows[t], t)

LEMMA InitOutlived == Init => Outlived
BY NothingRows DEF Init, Outlived, OutlivedBy, Answered

\* A reply that has just come brings rows the server has.
LEMMA ArrivedRows ==
    ASSUME SyncInv, Next, NEW q \in Answered', NEW t \in Tasks
    PROVE  q \in Answered \/ q.body.rows[t] \in {server[t], NoRow}
<1>1. CASE ServerNext
    BY <1>1 DEF ServerNext, Create, Edit, Delete, ServerWrite, flightVars, Answered
<1>2. CASE Boot \/ Trigger \/ SyncNow \/ SyncReturns \/ PollAsk \/ PollSkip
    <2>1. CASE PollAsk
        <3>1. PICK from : flight' = flight \union
                 {[since |-> from, answered |-> FALSE, body |-> NoReply]}
            BY <2>1 DEF PollAsk
        <3> HIDE DEF NoReply
        <3>2. \A p \in flight' : p \in flight \/ ~p.answered
            BY <3>1
        <3> QED BY <3>2 DEF Answered
    <2>2. CASE Boot \/ Trigger \/ SyncNow \/ SyncReturns \/ PollSkip
        BY <2>2 DEF Boot, Trigger, SyncNow, PollTriggered, SyncReturns, PollSkip,
                    flightVars, Answered
    <2> QED BY <1>2, <2>1, <2>2
<1>3. CASE Crash \/ \E p \in flight : CrashMidDelta(p) \/ CrashMidFull(p)
    BY <1>3 DEF Crash, CrashMidDelta, CrashMidFull, Die, Answered
<1>4. CASE \E p \in flight : RequestFails(p) \/ RequestRefused(p)
    BY <1>4 DEF RequestFails, RequestRefused, Answered
<1>5. CASE Handle
    BY <1>5 DEF Handle, HandleFull, HandlePlain, HandleDelta, Handled, Answered
<1>6. ASSUME NEW p \in flight, NEW r, Arrives(p, r)
      PROVE  q \in Answered \/ q.body = r
    BY <1>6 DEF Arrives, Answered
<1>7. ASSUME NEW p \in flight, NEW r \in Bodies(p)
      PROVE  r.rows[t] \in {server[t], NoRow}
    BY <1>7 DEF Bodies, DeltaBodies, FullBody, PlainBody
<1>8. NoReply.rows[t] = NoRow
    BY NothingRows DEF NoReply
<1>9. CASE Answer \/ \E p \in flight : AnswerGarbled(p)
    BY <1>6, <1>7, <1>8, <1>9 DEF Answer, AnswerTo, AnswerGarbled
<1> QED BY <1>1, <1>2, <1>3, <1>4, <1>5, <1>9 DEF Next

\* What a step does to the server.
LEMMA TruthStep ==
    ASSUME SyncInv, Next
    PROVE  \/ UNCHANGED <<server, gone>>
           \/ /\ UNCHANGED <<skel, cache, up, flight>>
              /\ \E u \in Tasks :
                    /\ \A t \in Tasks \ {u} : server'[t] = server[t] /\ gone'[t] = gone[t]
                    /\ server' = [server EXCEPT ![u] = server'[u]]
                    /\ \/ server'[u] = NoRow /\ gone'[u] = now + 1 /\ server[u] # NoRow
                       \/ server'[u] # NoRow /\ server'[u].at = now + 1
<1> USE DEF serverVars, diskVars, memVars, flightVars
<1>1. ASSUME NEW u \in Tasks, Create(u) \/ Edit(u) \/ Delete(u)
      PROVE  /\ UNCHANGED <<skel, cache, up, flight>>
             /\ \A t \in Tasks \ {u} : server'[t] = server[t] /\ gone'[t] = gone[t]
             /\ server' = [server EXCEPT ![u] = server'[u]]
             /\ \/ server'[u] = NoRow /\ gone'[u] = now + 1 /\ server[u] # NoRow
                \/ server'[u] # NoRow /\ server'[u].at = now + 1
    <2>1. server \in Rows /\ gone \in [Tasks -> Time] /\ now \in Nat
        BY Numbers DEF SyncInv, TypeInv, TypeOK
    <2>2. UNCHANGED <<skel, cache, up, flight>>
        BY <1>1 DEF Create, Edit, Delete, ServerWrite
    <2>3. CASE Delete(u)
        BY <2>1, <2>2, <2>3 DEF Delete, Rows
    <2>4. CASE Create(u) \/ Edit(u)
        <3>1. PICK v \in Vis, s \in Sil :
                 server' = [server EXCEPT ![u] = [vis |-> v, sil |-> s, at |-> now + 1]]
            BY <2>4 DEF Create, Edit
        <3>2. gone' = gone /\ now + 1 \in 1..MaxTime
            BY <2>1, <2>4, ConstantsAssumption
               DEF Create, Edit, ServerWrite, SyncInv, TypeInv, TypeOK
        <3>3. server'[u] = [vis |-> v, sil |-> s, at |-> now + 1]
            BY <2>1, <3>1 DEF Rows
        <3>4. server'[u] \in Row
            BY <3>2, <3>3 DEF Row
        <3> QED BY <2>1, <2>2, <3>1, <3>2, <3>3, <3>4, NoRowAssumption DEF Rows
    <2> QED BY <1>1, <2>3, <2>4
<1>2. CASE ServerNext
    BY <1>1, <1>2 DEF ServerNext
<1>3. CASE ~ServerNext
    BY <1>3 DEF Next, Boot, Crash, CrashMidDelta, CrashMidFull, Die, Trigger,
                SyncNow, PollTriggered, SyncReturns, PollAsk, PollSkip, PassOver,
                Answer, AnswerTo, AnswerGarbled, Arrives, RequestFails,
                RequestRefused, Handle, HandleFull, HandlePlain, HandleDelta, Handled
<1> QED BY <1>2, <1>3

LEMMA StepOutlived == SyncInv /\ Outlived /\ [Next]_vars => Outlived'
<1> SUFFICES ASSUME SyncInv, Outlived, Next PROVE Outlived'
    BY DEF vars, serverVars, diskVars, memVars, flightVars, Outlived, OutlivedBy,
           Answered
<1>1. CASE UNCHANGED <<server, gone>>
    <2>1. \A t \in Tasks : OutlivedBy(NoRow, t) /\ OutlivedBy(server[t], t)
        BY DEF OutlivedBy
    <2>2. \A t \in Tasks : OutlivedBy(skel'[t], t) /\ OutlivedBy(cache'[t], t)
        BY <2>1, RowsStep, NothingRows DEF Outlived
    <2>3. \A q \in Answered' : \A t \in Tasks : OutlivedBy(q.body.rows[t], t)
        BY <2>1, ArrivedRows DEF Outlived
    <2> QED BY <1>1, <2>2, <2>3 DEF Outlived, OutlivedBy, Answered
<1>2. CASE /\ UNCHANGED <<skel, cache, flight>>
           /\ \E u \in Tasks :
                 /\ \A t \in Tasks \ {u} : server'[t] = server[t] /\ gone'[t] = gone[t]
                 /\ \/ server'[u] = NoRow /\ gone'[u] = now + 1 /\ server[u] # NoRow
                    \/ server'[u] # NoRow
    <2>1. ASSUME NEW t \in Tasks, NEW row \in Row \union {NoRow}, OutlivedBy(row, t),
                 row # NoRow => row.at <= now
          PROVE  OutlivedBy(row, t)'
        BY <1>2, <2>1, Numbers DEF OutlivedBy, SyncInv, TypeInv, Row
    <2>2. \A t \in Tasks : OutlivedBy(skel[t], t)' /\ OutlivedBy(cache[t], t)'
        BY <1>2, <2>1 DEF Outlived, SyncInv, Versions, Version, TypeInv, TypeOK, Rows
    <2>3. \A p \in Answered : \A t \in Tasks : OutlivedBy(p.body.rows[t], t)'
        BY <1>2, <2>1, Numbers DEF Outlived, SyncInv, Versions, TypeInv, Rows, Answered
    <2> QED BY <1>2, <2>2, <2>3 DEF Outlived, OutlivedBy, Answered
<1> QED BY <1>1, <1>2, TruthStep

\* The rows of a reply come as Replica allows.
LEMMA ReplyComes ==
    ASSUME SyncInv, Outlived, NEW p \in Answered, NEW t \in Tasks,
           p.body.rows[t] # NoRow
    PROVE  Promise!Comes(t, p.body.rows[t])
<1> DEFINE row == p.body.rows[t]
<1>1. /\ p.body.rows \in Rows /\ skel \in Rows /\ cache \in Rows /\ server \in Rows
      /\ gone[t] \in Nat
    BY Numbers, ConstantsAssumption DEF SyncInv, TypeInv, TypeOK, Answered, Time
<1>2. row.at \in Nat /\ (server[t] # NoRow => server[t].at \in Nat)
      /\ \A old \in {skel[t], cache[t]} : old # NoRow => old.at \in Nat
    BY <1>1, RowTime
<1>3. NotNewer(row, server[t]) /\ \A old \in {skel[t], cache[t]} : NotNewer(old, row)
    BY DEF SyncInv, Versions, Version
<1>4. OutlivedBy(row, t)
    BY DEF Outlived
<1>5. row.at <= Touched(t) /\ (row.at = Touched(t) => row = server[t])
    BY <1>2, <1>1, <1>3, <1>4 DEF NotNewer, OutlivedBy, Touched
<1>6. \A old \in {skel[t], cache[t]} : Promise!Follows(row, old)
    BY <1>2, <1>3 DEF NotNewer, Promise!Follows
<1> QED BY <1>5, <1>6 DEF Promise!Comes

\* What a step writes to the disk or to the screen comes from a reply.
LEMMA BroughtStep ==
    ASSUME SyncInv, Outlived, NEW p \in Answered, NEW rows, NEW new,
           \A t \in Tasks : new[t] \in {rows[t], p.body.rows[t], NoRow}
    PROVE  Promise!Brought(rows, new)
BY ReplyComes DEF Promise!Brought

LEMMA ReplicaInit == Init => Promise!Init
BY DEF Init, Promise!Init, Promise!Empty, Nothing, Touched

\* A write of the server is a write of the truth.
LEMMA ReplicaWrite ==
    ASSUME SyncInv, Next, ~UNCHANGED <<server, gone>>
    PROVE  Promise!Write
<1> DEFINE stamp == [t \in Tasks |-> Touched(t)]
<1>1. /\ UNCHANGED <<skel, cache, up>>
      /\ \E u \in Tasks :
            /\ \A t \in Tasks \ {u} : server'[t] = server[t] /\ gone'[t] = gone[t]
            /\ server' = [server EXCEPT ![u] = server'[u]]
            /\ \/ server'[u] = NoRow /\ gone'[u] = now + 1
               \/ server'[u] # NoRow /\ server'[u].at = now + 1
    BY TruthStep
<1>2. PICK u \in Tasks :
            /\ \A t \in Tasks \ {u} : Touched(t)' = Touched(t)
            /\ server' = [server EXCEPT ![u] = server'[u]]
            /\ Touched(u)' = now + 1
            /\ server'[u] # NoRow => server'[u].at = Touched(u)'
    BY <1>1 DEF Touched
<1>3. now \in Nat /\ Touched(u) \in Nat /\ Touched(u) <= now
    BY Numbers DEF SyncInv, TypeInv, ServerSound
<1>4. Touched(u)' > Touched(u)
    BY <1>2, <1>3
<1>5. stamp' = [stamp EXCEPT ![u] = stamp'[u]]
    BY <1>2
<1>6. stamp'[u] = Touched(u)' /\ stamp[u] = Touched(u)
    OBVIOUS
<1> QED BY <1>1, <1>2, <1>4, <1>5, <1>6 DEF Promise!Write

LEMMA ReplicaStep ==
    SyncInv /\ Outlived /\ [Next]_vars => [Promise!Next]_(Promise!vars)
<1> SUFFICES ASSUME SyncInv, Outlived, [Next]_vars
             PROVE  Promise!Next \/ UNCHANGED Promise!vars
    OBVIOUS
<1> USE DEF memVars, diskVars, serverVars
<1>1. CASE ~UNCHANGED <<server, gone>>
    BY <1>1, ReplicaWrite DEF Promise!Next, vars
<1>2. ASSUME UNCHANGED <<server, gone, skel, cache, up>>
      PROVE  UNCHANGED Promise!vars
    BY <1>2 DEF Promise!vars, Touched
<1>3. Promise!Empty = Nothing
    BY DEF Promise!Empty, Nothing
<1>4. CASE Boot
    <2>1. /\ UNCHANGED <<server, gone, skel>> /\ ~up /\ up' = TRUE
          /\ cache' \in {skel, Nothing}
        BY <1>4, Attempted DEF Boot
    <2> QED BY <1>3, <2>1 DEF Promise!Next, Promise!Start, Touched
<1>5. CASE Crash \/ \E p \in flight : CrashMidDelta(p) \/ CrashMidFull(p)
    <2>1. UNCHANGED <<server, gone>> /\ up /\ up' = FALSE /\ cache' = Nothing
        BY <1>5 DEF Crash, CrashMidDelta, CrashMidFull, Die
    <2>2. Promise!Brought(skel, skel')
        <3>1. CASE UNCHANGED skel
            BY <3>1 DEF Promise!Brought
        <3>2. CASE \E p \in flight : CrashMidDelta(p)
            <4>1. PICK p \in Answered :
                     \A t \in Tasks : skel'[t] \in {skel[t], p.body.rows[t], NoRow}
                BY <3>2, ApplyRow
                   DEF CrashMidDelta, Answered, SyncInv, TypeInv, TypeOK
            <4> QED BY <4>1, BroughtStep
        <3> QED BY <1>5, <3>1, <3>2 DEF Crash, CrashMidFull
    <2> QED BY <1>3, <2>1, <2>2 DEF Promise!Next, Promise!Stop, Touched
<1>6. CASE Handle
    <2>1. PICK p \in flight : HandleFull(p) \/ HandlePlain(p) \/ HandleDelta(p)
        BY <1>6 DEF Handle
    <2>2. UNCHANGED <<server, gone>> /\ up = TRUE /\ up' = TRUE
        BY <2>1, FlightUp DEF HandleFull, HandlePlain, HandleDelta, Handled, PassOver,
                              SyncInv, TypeInv, TypeOK
    <2>3. /\ p \in Answered
          /\ \A t \in Tasks : /\ cache'[t] \in {cache[t], p.body.rows[t], NoRow}
                               /\ skel'[t] \in {skel[t], p.body.rows[t], NoRow}
                               /\ skel'[t] \in {skel[t], cache'[t]}
        BY <2>1, HandledRows
    <2>4. Promise!Brought(cache, cache') /\ Promise!Brought(skel, skel')
        BY <2>3, BroughtStep
    <2> QED BY <2>2, <2>3, <2>4 DEF Promise!Next, Promise!Sync, Touched
<1>7. CASE Trigger \/ SyncNow \/ SyncReturns \/ PollAsk \/ PollSkip
    BY <1>2, <1>7 DEF Trigger, SyncNow, PollTriggered, SyncReturns, PollAsk, PollSkip,
                      PassOver
<1>8. CASE Answer \/ \E p \in flight :
                        AnswerGarbled(p) \/ RequestFails(p) \/ RequestRefused(p)
    BY <1>2, <1>8 DEF Answer, AnswerTo, AnswerGarbled, Arrives, RequestFails,
                      RequestRefused, PassOver
<1>9. CASE ServerNext
    <2>1. CASE UNCHANGED <<server, gone>>
        BY <1>2, <1>9, <2>1 DEF ServerNext, Create, Edit, Delete, ServerWrite
    <2> QED BY <1>1, <2>1
<1>10. CASE UNCHANGED vars
    BY <1>2, <1>10 DEF vars
<1> QED BY <1>4, <1>5, <1>6, <1>7, <1>8, <1>9, <1>10 DEF Next

\* The delta-sync loop keeps what Replica promises: through every crash, lost
\* reply, full pull and failed access to the disk, the disk and the screen only
\* ever hold versions the server had, never an older one after a newer one, and
\* the disk takes from the screen only.
THEOREM LoopImplementsReplica == Spec => ImplementsReplica
<1>1. Spec => []Outlived
    BY InitOutlived, StepOutlived, SyncInvariant, PTL DEF Spec
<1>2. Spec => Promise!Init
    BY ReplicaInit DEF Spec
<1>3. Spec => [][Promise!Next]_(Promise!vars)
    BY <1>1, ReplicaStep, SyncInvariant, PTL DEF Spec
<1> QED BY <1>2, <1>3 DEF ImplementsReplica, Promise!Spec

(***************************************************************************)
(* TaskSource: lists, own writes, sign-out and sign-in around the loop.    *)
(***************************************************************************)

GhostType == [cache : Rows, sig : Sigs, flight : SUBSET Pull, lists : SUBSET List]
Used == [lists : 0..MaxLists, refreshes : 0..MaxWrites, writes : 0..MaxWrites]

\* Every write is refreshed after once.
WritesCounted ==
    /\ IsFiniteSet(writes)
    /\ Cardinality(writes) + used.refreshes <= used.writes

SourceTypes ==
    /\ TypeInv /\ signedIn \in BOOLEAN /\ unsure \in BOOLEAN
    /\ lists \subseteq List /\ writes \subseteq Write
    /\ ghost \in GhostType /\ used \in Used
    /\ WritesCounted

\* The refresh that follows an own write.
Refreshing == \E l \in lists : l.no > MaxLists

\* The signature is that of the rows on screen, or a refresh will make it so.
InStep ==
    /\ \A t \in Anchor : server[t] # NoRow
    /\ ~up => lastSig = NoSig /\ phase = "idle" /\ lists = {} /\ writes = {}
    /\ lastSig \in {NoSig, SigOf(cache)} \/ Refreshing \/ unsure

LEMMA Limits == MaxLists \in Nat /\ MaxWrites \in Nat
BY SourceAssumption

LEMMA FilteredType ==
    ASSUME server \in Rows, NEW f
    PROVE  Filtered(f) \in Rows
BY DEF Filtered, Rows

LEMMA PatchedType ==
    ASSUME NEW rows \in Rows, NEW w \in Write
    PROVE  Patched(rows, w) \in Rows
<1>1. w.task \in Tasks /\ w.to \in Vis
    BY DEF Write
<1>2. \A row \in Row : [row EXCEPT !.vis = w.to] \in Row
    BY <1>1 DEF Row
<1>3. CASE rows[w.task] = NoRow
    BY <1>3 DEF Patched
<1>4. CASE rows[w.task] # NoRow
    <2>1. rows[w.task] \in Row
        BY <1>1, <1>4 DEF Rows
    <2>2. Patched(rows, w) = [rows EXCEPT ![w.task] = [rows[w.task] EXCEPT !.vis = w.to]]
        BY <1>4 DEF Patched
    <2> QED BY <1>2, <2>1, <2>2 DEF Rows
<1> QED BY <1>3, <1>4

\* A list call, and its answer.
LEMMA NewListType ==
    ASSUME NEW n \in 1..(MaxLists + MaxWrites), NEW f \in {"all", "mine"}
    PROVE  NewList(n, f) \in List
BY NothingType DEF NewList, List

LEMMA AnsweredListType ==
    ASSUME NEW l \in List, NEW rows \in Rows
    PROVE  /\ [l EXCEPT !.answered = TRUE, !.rows = rows] \in List
           /\ [l EXCEPT !.answered = TRUE, !.rows = rows].no = l.no
BY DEF List

\* A set of writes grows by one at most, and loses one.
LEMMA CountWrites ==
    ASSUME IsFiniteSet(writes)
    PROVE  /\ Cardinality(writes) \in Nat
           /\ \A w : /\ IsFiniteSet(writes \union {w})
                     /\ Cardinality(writes \union {w}) <= Cardinality(writes) + 1
           /\ \A w \in writes : /\ IsFiniteSet(writes \ {w})
                                /\ Cardinality(writes \ {w}) = Cardinality(writes) - 1
                                /\ \A v : /\ IsFiniteSet((writes \ {w}) \union {v})
                                          /\ Cardinality((writes \ {w}) \union {v})
                                                <= Cardinality(writes)
<1>1. Cardinality(writes) \in Nat
    BY FS_CardinalityType
<1>2. \A S, w : IsFiniteSet(S) => /\ IsFiniteSet(S \union {w})
                                  /\ Cardinality(S \union {w}) <= Cardinality(S) + 1
    <2> SUFFICES ASSUME NEW S, NEW w, IsFiniteSet(S)
                 PROVE  /\ IsFiniteSet(S \union {w})
                        /\ Cardinality(S \union {w}) <= Cardinality(S) + 1
        OBVIOUS
    <2>1. Cardinality(S) \in Nat
        BY FS_CardinalityType
    <2>2. /\ IsFiniteSet(S \cup {w})
          /\ Cardinality(S \cup {w}) = IF w \in S THEN Cardinality(S) ELSE Cardinality(S) + 1
        BY FS_AddElement
    <2>3. Cardinality(S \cup {w}) <= Cardinality(S) + 1
        BY <2>1, <2>2
    <2> QED BY <2>2, <2>3
<1>3. \A w \in writes : /\ IsFiniteSet(writes \ {w})
                        /\ Cardinality(writes \ {w}) = Cardinality(writes) - 1
    BY FS_RemoveElement
<1>4. ASSUME NEW w \in writes, NEW v
      PROVE  /\ IsFiniteSet((writes \ {w}) \union {v})
             /\ Cardinality((writes \ {w}) \union {v}) <= Cardinality(writes)
    <2>1. /\ IsFiniteSet((writes \ {w}) \union {v})
          /\ Cardinality((writes \ {w}) \union {v}) <= Cardinality(writes \ {w}) + 1
        BY <1>2, <1>3
    <2>2. Cardinality((writes \ {w}) \union {v}) \in Nat
        BY <2>1, FS_CardinalityType
    <2> QED BY <1>1, <1>3, <2>1, <2>2
<1> QED BY <1>1, <1>2, <1>3, <1>4

-----------------------------------------------------------------------------
(* The loop's own steps.                                                   *)

LEMMA InitSource == SourceInit => SourceTypes /\ InStep
<1> SUFFICES ASSUME SourceInit PROVE SourceTypes /\ InStep
    OBVIOUS
<1> USE DEF SourceInit
<1>1. TypeInv
    BY InitType
<1>2. NoGhost \in GhostType
    BY NothingType, SigType DEF NoGhost, GhostType, NoSig
<1>3. used \in Used /\ WritesCounted
    <2>1. used \in Used
        BY Limits DEF Used
    <2>2. IsFiniteSet(writes) /\ Cardinality(writes) = 0
        BY FS_EmptySet
    <2> QED BY <2>1, <2>2 DEF WritesCounted
<1>4. SourceTypes
    BY <1>1, <1>2, <1>3 DEF SourceTypes
<1>5. InStep
    BY NoRowAssumption DEF InStep, Init, Live
<1> QED BY <1>4, <1>5

LEMMA PollTypes ==
    ASSUME SourceTypes, PollStep
    PROVE  SourceTypes'
<1>1. Next /\ UNCHANGED sourceVars
    BY DEF PollStep, Next
<1>2. TypeInv'
    BY <1>1, TypeStep DEF SourceTypes
<1> QED BY <1>1, <1>2 DEF SourceTypes, sourceVars, WritesCounted

\* A step of the loop leaves nothing in a process that is not up.
LEMMA PollDown ==
    ASSUME SourceTypes, InStep, PollStep, ~up'
    PROVE  ~up /\ UNCHANGED <<lastSig, phase, lists, writes>>
<1> USE DEF SourceTypes, TypeInv, TypeOK, InStep
<1>1. UNCHANGED <<lists, writes>>
    BY DEF PollStep, sourceVars
<1>2. flight = {} \/ up
    BY DEF SingleFlight
<1>3. CASE ServerNext
    BY <1>1, <1>3 DEF ServerNext, Create, Edit, Delete, ServerWrite, memVars, flightVars
<1>4. CASE Boot \/ Trigger \/ SyncNow
    BY <1>4 DEF Boot, Trigger, SyncNow, PollTriggered
<1>5. CASE SyncReturns \/ PollAsk \/ PollSkip
    BY <1>1, <1>5 DEF SyncReturns, PollAsk, PollSkip, PassOver, memVars, flightVars
<1>6. CASE Answer \/ Handle \/ \E p \in flight : AnswerGarbled(p) \/ RequestFails(p) \/ RequestRefused(p)
    <2>1. up' = up /\ flight # {}
        BY <1>6 DEF Answer, AnswerTo, AnswerGarbled, Arrives, RequestFails, RequestRefused,
                    PassOver, Handle, HandleFull, HandlePlain, HandleDelta, Handled
    <2> QED BY <1>2, <2>1
<1> QED BY <1>3, <1>4, <1>5, <1>6 DEF PollStep

\* What a step of the loop does to the signature.
LEMMA PollInStep ==
    ASSUME SourceTypes, InStep, PollStep
    PROVE  InStep'
<1> USE DEF SourceTypes, TypeInv, InStep
<1>1. UNCHANGED sourceVars
    BY DEF PollStep
<1>2. Refreshing' = Refreshing /\ unsure' = unsure
    BY <1>1 DEF sourceVars, Refreshing
<1> DEFINE Gone == ~up => lastSig = NoSig /\ phase = "idle" /\ lists = {} /\ writes = {}
           Signed == lastSig \in {NoSig, SigOf(cache)} \/ Refreshing \/ unsure
           Anchored == \A t \in Anchor : server[t] # NoRow
<1>0. Gone'
    BY PollDown
<1>3. CASE ServerNext
    <2>1. PICK t \in Tasks : Create(t) \/ Edit(t) \/ Delete(t)
        BY <1>3 DEF ServerNext
    <2>2. server \in Rows /\ server' \in Rows
        BY <1>3, ServerType DEF TypeOK
    <2>3. /\ \A u \in Tasks \ {t} : server'[u] = server[u]
          /\ t \in Anchor => server'[t] # NoRow
        <3>1. CASE Delete(t)
            BY <2>2, <3>1 DEF Delete, Rows
        <3>2. CASE Create(t) \/ Edit(t)
            <4>1. PICK v \in Vis, s \in Sil :
                     server' = [server EXCEPT ![t] = [vis |-> v, sil |-> s, at |-> now + 1]]
                BY <3>2 DEF Create, Edit
            <4>2. now + 1 \in 1..MaxTime
                BY <3>2, ConstantsAssumption DEF Create, Edit, ServerWrite, TypeOK
            <4>3. [vis |-> v, sil |-> s, at |-> now + 1] \in Row
                BY <4>2 DEF Row
            <4> QED BY <2>2, <4>1, <4>3, NoRowAssumption DEF Rows
        <3> QED BY <2>1, <3>1, <3>2
    <2>4. UNCHANGED <<memVars, up>>
        BY <2>1 DEF Create, Edit, Delete, ServerWrite
    <2>5. Anchored'
        BY <2>3, ConstantsAssumption
    <2>6. Signed'
        BY <1>2, <2>4 DEF memVars
    <2> QED BY <1>0, <2>5, <2>6
<1>4. CASE Boot \/ Trigger \/ SyncNow \/ SyncReturns \/ PollAsk \/ PollSkip
    <2>1. /\ server' = server /\ lastSig' = lastSig
          /\ (up' = up /\ cache' = cache) \/ (~up /\ up')
        BY <1>4 DEF Boot, Trigger, SyncNow, PollTriggered, SyncReturns, PollAsk, PollSkip,
                    PassOver, serverVars, memVars
    <2> QED BY <1>0, <1>2, <2>1
<1>5. CASE Answer \/ \E p \in flight : AnswerGarbled(p) \/ RequestFails(p) \/ RequestRefused(p)
    <2>1. UNCHANGED <<server, memVars, up>>
        BY <1>5 DEF Answer, AnswerTo, AnswerGarbled, Arrives, RequestFails, RequestRefused,
                    PassOver, serverVars
    <2> QED BY <1>0, <1>2, <2>1 DEF memVars
<1>6. CASE Handle
    <2>1. /\ server' = server /\ up' = up
          /\ (cache' = cache /\ lastSig' = lastSig) \/ lastSig' = SigOf(cache')
        BY <1>6 DEF Handle, HandleFull, HandlePlain, HandleDelta, Handled, PassOver, Reconcile,
                    serverVars
    <2> QED BY <1>0, <1>2, <2>1
<1> QED BY <1>3, <1>4, <1>5, <1>6 DEF PollStep

-----------------------------------------------------------------------------
(* Deaths, sign-out and sign-in.                                           *)

LEMMA EndTypes ==
    ASSUME SourceTypes, ProcessDies \/ SignOut \/ SignIn
    PROVE  SourceTypes'
<1> USE DEF SourceTypes, TypeInv
<1>1. NoGhost \in GhostType
    BY NothingType, SigType DEF NoGhost, GhostType, NoSig
<1>2. ASSUME writes' = {}, used' = used PROVE WritesCounted'
    <2>1. IsFiniteSet(writes') /\ Cardinality(writes') = 0
        BY <1>2, FS_EmptySet
    <2>2. Cardinality(writes) \in Nat /\ used.refreshes \in Nat /\ used.writes \in Nat
        BY FS_CardinalityType, Limits DEF WritesCounted, Used
    <2> QED BY <1>2, <2>1, <2>2 DEF WritesCounted
<1>3. CASE ProcessDies
    <2>1. TypeInv'
        BY <1>3, TypeStep DEF ProcessDies, Next
    <2> QED BY <1>1, <1>2, <1>3, <2>1 DEF ProcessDies
<1>4. CASE SignOut
    <2>0. skel' \in {skel, Nothing} /\ cursor' \in {cursor, 0}
        BY <1>4, Attempted DEF SignOut, diskVars
    <2>1. SingleFlight' /\ DeltaBudget'
        BY <1>4 DEF SignOut, SingleFlight, DeltaBudget
    <2>2. /\ skel' \in Rows /\ cache' \in Rows /\ lastSig' \in Sigs
          /\ ghost' \in GhostType
        BY <1>4, <2>0, NothingType, SigType DEF SignOut, NoSig, GhostType, TypeOK
    <2>3. faults' \in 0..MaxFaults /\ cursor' \in Time /\ pollCount' \in 0..ReconcileEvery
        BY <1>4, <2>0, ConstantsAssumption DEF SignOut, TypeOK, Time
    <2>4. TypeOK'
        BY <1>4, <2>2, <2>3 DEF SignOut, TypeOK, Quiet, serverVars, Sigs
    <2> QED BY <1>2, <1>4, <2>1, <2>2, <2>4 DEF SignOut
<1>5. CASE SignIn
    BY <1>5 DEF SignIn, TypeOK, SingleFlight, DeltaBudget, WritesCounted, Quiet, serverVars,
                diskVars, memVars, flightVars, syncVars
<1> QED BY <1>3, <1>4, <1>5

LEMMA EndInStep ==
    ASSUME SourceTypes, InStep, ProcessDies \/ SignOut \/ SignIn
    PROVE  InStep'
<1> USE DEF InStep
<1>1. UNCHANGED server
    BY DEF ProcessDies, Crash, CrashMidDelta, CrashMidFull, Die, SignOut, SignIn, serverVars
<1>2. CASE ProcessDies \/ SignOut
    BY <1>1, <1>2 DEF ProcessDies, Crash, CrashMidDelta, CrashMidFull, Die, SignOut
<1>3. CASE SignIn
    BY <1>1, <1>3 DEF SignIn, memVars, flightVars, Refreshing
<1> QED BY <1>2, <1>3

-----------------------------------------------------------------------------
(* Lists.                                                                  *)

\* A step that leaves the variables of the loop alone.
LEMMA LoopKept ==
    ASSUME TypeInv, Quiet,
           UNCHANGED <<serverVars, diskVars, memVars, flightVars, syncVars, up, trusted,
                       faults>>
    PROVE  TypeInv'
BY DEF TypeInv, TypeOK, SingleFlight, DeltaBudget, Quiet, serverVars, diskVars, memVars,
       flightVars, syncVars

\* A step that replaces the rows on disk and on screen.
LEMMA RowsReplaced ==
    ASSUME TypeInv, Quiet, skel' \in Rows, cache' \in Rows, lastSig' \in Sigs,
           UNCHANGED <<serverVars, cursor, firstPoll, pollCount, flightVars, syncVars, up,
                       trusted, faults>>
    PROVE  TypeInv'
BY DEF TypeInv, TypeOK, SingleFlight, DeltaBudget, Quiet, serverVars, flightVars, syncVars,
       Sigs

LEMMA ListTypes ==
    ASSUME SourceTypes,
           ListAsk \/ \E l \in lists : ListAnswer(l) \/ ListFails(l) \/ ListApply(l)
    PROVE  SourceTypes'
<1> USE DEF SourceTypes
<1>1. CASE ListAsk
    <2>1. TypeInv'
        BY <1>1, LoopKept DEF ListAsk
    <2>2. used' \in Used /\ used'.refreshes = used.refreshes /\ used'.writes = used.writes
          /\ used.lists + 1 \in 1..(MaxLists + MaxWrites)
        BY <1>1, Limits DEF ListAsk, Used
    <2>3. lists' \subseteq List
        <3>1. PICK f \in {"all", "mine"} : lists' = lists \union {NewList(used.lists + 1, f)}
            BY <1>1 DEF ListAsk
        <3> QED BY <2>2, <3>1, NewListType
    <2>4. WritesCounted'
        BY <1>1, <2>2 DEF WritesCounted, ListAsk
    <2> QED BY <1>1, <2>1, <2>2, <2>3, <2>4 DEF ListAsk
<1>2. ASSUME NEW l \in lists, ListAnswer(l) PROVE SourceTypes'
    <2>1. TypeInv'
        BY <1>2, LoopKept DEF ListAnswer
    <2>2. \A rows \in ListBodies(l) : rows \in Rows
        BY FilteredType, NothingType DEF ListBodies, TypeInv, TypeOK
    <2>3. lists' \subseteq List
        BY <1>2, <2>2, AnsweredListType DEF ListAnswer
    <2> QED BY <1>2, <2>1, <2>3 DEF ListAnswer, WritesCounted
<1>3. ASSUME NEW l \in lists, ListFails(l) PROVE SourceTypes'
    <2>1. TypeInv'
        BY <1>3, LoopKept DEF ListFails
    <2>2. unsure' \in BOOLEAN
        BY <1>3 DEF ListFails
    <2> QED BY <1>3, <2>1, <2>2 DEF ListFails, WritesCounted
<1>4. ASSUME NEW l \in lists, ListApply(l) PROVE SourceTypes'
    <2>1. l.rows \in Rows
        BY DEF List
    <2>2. TypeInv'
        BY <1>4, <2>1, SigType, RowsReplaced, Attempted DEF ListApply, TypeInv, TypeOK
    <2> QED BY <1>4, <2>2 DEF ListApply, WritesCounted
<1> QED BY <1>1, <1>2, <1>3, <1>4

\* An unrefreshed list leaves the signature as it is; an applied one renews it.
LEMMA ListInStep ==
    ASSUME SourceTypes, InStep,
           ListAsk \/ \E l \in lists : ListAnswer(l) \/ ListFails(l) \/ ListApply(l)
    PROVE  InStep'
<1> USE DEF InStep, serverVars, memVars, flightVars
<1>1. CASE ListAsk
    <2>1. Refreshing => Refreshing'
        BY <1>1 DEF ListAsk, Refreshing
    <2> QED BY <1>1, <2>1 DEF ListAsk
<1>2. ASSUME NEW l \in lists, ListAnswer(l) PROVE InStep'
    <2>1. Refreshing => Refreshing'
        <3>1. PICK rows \in ListBodies(l) :
                 lists' = (lists \ {l}) \union
                             {[l EXCEPT !.answered = TRUE, !.rows = rows]}
            BY <1>2 DEF ListAnswer
        <3>2. rows \in Rows
            BY FilteredType, NothingType DEF ListBodies, SourceTypes, TypeInv, TypeOK
        <3>3. [l EXCEPT !.answered = TRUE, !.rows = rows].no = l.no
            BY <3>2, AnsweredListType DEF SourceTypes
        <3>4. [l EXCEPT !.answered = TRUE, !.rows = rows] \in lists'
            BY <3>1
        <3> QED BY <3>1, <3>3, <3>4 DEF Refreshing
    <2> QED BY <1>2, <2>1 DEF ListAnswer
<1>3. ASSUME NEW l \in lists, ListFails(l) PROVE InStep'
    <2>1. Refreshing => Refreshing' \/ unsure'
        BY <1>3 DEF ListFails, Refreshing
    <2> QED BY <1>3, <2>1 DEF ListFails
<1>4. ASSUME NEW l \in lists, ListApply(l) PROVE InStep'
    BY <1>4 DEF ListApply
<1> QED BY <1>1, <1>2, <1>3, <1>4

-----------------------------------------------------------------------------
(* Own writes.                                                             *)

\* The server's clock does not pass its bound.
LEMMA NextTime ==
    ASSUME TypeOK, ServerWrite
    PROVE  now' = now + 1 /\ now + 1 \in 1..MaxTime
<1>1. now \in 1..MaxTime /\ MaxTime \in Nat
    BY ConstantsAssumption DEF TypeOK
<1>2. now < MaxTime /\ now' = now + 1
    BY DEF ServerWrite
<1> QED BY <1>1, <1>2

LEMMA WriteTypes ==
    ASSUME SourceTypes,
           \/ \E t \in Tasks : WriteSend(t)
           \/ \E w \in writes : WriteCommits(w) \/ WriteLost(w) \/ WriteLands(w)
    PROVE  SourceTypes'
<1> USE DEF SourceTypes
<1>1. /\ Cardinality(writes) \in Nat /\ used.refreshes \in Nat /\ used.writes \in Nat
      /\ used.lists \in Nat /\ MaxLists \in Nat /\ MaxWrites \in Nat
    BY CountWrites, Limits DEF WritesCounted, Used
<1>2. ASSUME NEW t \in Tasks, WriteSend(t) PROVE SourceTypes'
    <2>1. TypeInv'
        BY <1>2, LoopKept DEF WriteSend
    <2>2. PICK m \in OwnMoves :
             writes' = writes \union {[task |-> t, to |-> m[2], done |-> FALSE]}
        BY <1>2 DEF WriteSend
    <2>3. m[2] \in Vis
        BY SourceAssumption, ConstantsAssumption
    <2>4. writes' \subseteq Write
        <3>1. [task |-> t, to |-> m[2], done |-> FALSE] \in Write
            BY <2>3 DEF Write
        <3> QED BY <2>2, <3>1
    <2>5. /\ used' \in Used /\ used'.refreshes = used.refreshes
          /\ used'.writes = used.writes + 1
        BY <1>1, <1>2 DEF WriteSend, Used
    <2>6. IsFiniteSet(writes') /\ Cardinality(writes') <= Cardinality(writes) + 1
          /\ Cardinality(writes') \in Nat
        BY <2>2, CountWrites, FS_CardinalityType DEF WritesCounted
    <2>7. WritesCounted'
        BY <1>1, <2>5, <2>6 DEF WritesCounted
    <2> QED BY <1>2, <2>1, <2>4, <2>5, <2>7 DEF WriteSend
<1>3. ASSUME NEW w \in writes, WriteCommits(w) PROVE SourceTypes'
    <2>1. w \in Write /\ w.task \in Tasks /\ w.to \in Vis
        BY DEF Write
    <2>2. now' \in 1..MaxTime /\ now' = now + 1 /\ notices' = {}
        BY <1>3, NextTime DEF TypeInv, WriteCommits, ServerWrite, Quiet
    <2>3. server' \in Rows
        <3>1. \A row \in Row : [row EXCEPT !.vis = w.to, !.at = now + 1] \in Row
            BY <2>1, <2>2 DEF Row
        <3>2. server[w.task] \in Row
            BY <1>3, <2>1 DEF WriteCommits, TypeInv, TypeOK, Rows
        <3>3. server' = [server EXCEPT ![w.task] =
                            [server[w.task] EXCEPT !.vis = w.to, !.at = now + 1]]
            BY <1>3 DEF WriteCommits
        <3> QED BY <3>1, <3>2, <3>3 DEF TypeInv, TypeOK, Rows
    <2>4. UNCHANGED <<gone, diskVars, memVars, flightVars, syncVars, up, trusted, faults>>
        BY <1>3 DEF WriteCommits, ServerWrite
    <2>5. TypeInv'
        BY <2>2, <2>3, <2>4 DEF TypeInv, TypeOK, SingleFlight, DeltaBudget, diskVars, memVars,
                                flightVars, syncVars
    <2>6. [w EXCEPT !.done = TRUE] \in Write
        BY <2>1 DEF Write
    <2>7. /\ IsFiniteSet(writes') /\ Cardinality(writes') <= Cardinality(writes)
          /\ Cardinality(writes') \in Nat
        BY <1>3, CountWrites, FS_CardinalityType DEF WritesCounted, WriteCommits
    <2>8. WritesCounted'
        <3>1. used' = used
            BY <1>3 DEF WriteCommits
        <3> QED BY <1>1, <2>7, <3>1 DEF WritesCounted
    <2>9. writes' \subseteq Write /\ UNCHANGED <<signedIn, lists, ghost, unsure, used>>
        BY <1>3, <2>6 DEF WriteCommits
    <2> QED BY <2>5, <2>8, <2>9
<1>4. ASSUME NEW w \in writes, writes' = writes \ {w}
      PROVE  /\ IsFiniteSet(writes') /\ Cardinality(writes') = Cardinality(writes) - 1
             /\ writes' \subseteq Write
    BY <1>4, CountWrites DEF WritesCounted
<1>5. ASSUME NEW w \in writes, WriteLost(w) PROVE SourceTypes'
    <2>1. TypeInv'
        BY <1>5, LoopKept DEF WriteLost
    <2>2. WritesCounted' /\ writes' \subseteq Write
        BY <1>1, <1>4, <1>5 DEF WritesCounted, WriteLost
    <2> QED BY <1>5, <2>1, <2>2 DEF WriteLost
<1>6. ASSUME NEW w \in writes, WriteLands(w) PROVE SourceTypes'
    <2>1. /\ IsFiniteSet(writes') /\ Cardinality(writes') = Cardinality(writes) - 1
          /\ writes' \subseteq Write /\ Cardinality(writes') \in Nat
        BY <1>4, <1>6, FS_CardinalityType DEF WriteLands
    <2>2. /\ used' \in Used /\ used'.refreshes = used.refreshes + 1
          /\ used'.writes = used.writes
          /\ MaxLists + used.refreshes + 1 \in 1..(MaxLists + MaxWrites)
        BY <1>1, <1>6, <2>1 DEF WriteLands, Used, WritesCounted
    <2>3. WritesCounted'
        BY <1>1, <2>1, <2>2 DEF WritesCounted
    <2>4. skel' \in Rows /\ cache' \in Rows
        <3>1. cache' \in Rows /\ skel \in Rows /\ w.task \in Tasks
            BY <1>6, PatchedType DEF WriteLands, TypeInv, TypeOK, Write
        <3>2. [skel EXCEPT ![w.task] = cache'[w.task]] \in Rows
            BY <3>1 DEF Rows
        <3>3. \/ skel' = skel
              \/ skel' = [skel EXCEPT ![w.task] = cache'[w.task]]
            BY <1>6, Attempted DEF WriteLands
        <3> QED BY <3>1, <3>2, <3>3
    <2>5. TypeInv'
        BY <1>6, <2>4, RowsReplaced DEF WriteLands, TypeInv, TypeOK, Sigs
    <2>6. lists' \subseteq List
        BY <1>6, <2>2, NewListType DEF WriteLands, Refresh
    <2> QED BY <1>6, <2>1, <2>2, <2>3, <2>5, <2>6 DEF WriteLands
<1> QED BY <1>2, <1>3, <1>5, <1>6

\* A patched row is followed by a refresh.
LEMMA WriteInStep ==
    ASSUME SourceTypes, InStep,
           \/ \E t \in Tasks : WriteSend(t)
           \/ \E w \in writes : WriteCommits(w) \/ WriteLost(w) \/ WriteLands(w)
    PROVE  InStep'
<1> USE DEF InStep, serverVars, memVars, flightVars
<1>1. ASSUME NEW t \in Tasks, WriteSend(t) PROVE InStep'
    BY <1>1 DEF WriteSend, Refreshing
<1>2. ASSUME NEW w \in writes, WriteCommits(w) PROVE InStep'
    <2>1. w.task \in Tasks /\ w.to \in Vis
        BY DEF SourceTypes, Write
    <2>2. server'[w.task] \in Row
        <3>1. now + 1 \in 1..MaxTime
            BY <1>2, NextTime DEF WriteCommits, SourceTypes, TypeInv
        <3>2. \A row \in Row : [row EXCEPT !.vis = w.to, !.at = now + 1] \in Row
            BY <2>1, <3>1 DEF Row
        <3>3. server[w.task] \in Row /\ server \in Rows
            BY <1>2, <2>1 DEF WriteCommits, SourceTypes, TypeInv, TypeOK, Rows
        <3>4. server'[w.task] = [server[w.task] EXCEPT !.vis = w.to, !.at = now + 1]
            BY <1>2, <2>1, <3>3 DEF WriteCommits, Rows
        <3> QED BY <3>2, <3>3, <3>4
    <2>3. \A t \in Tasks \ {w.task} : server'[t] = server[t]
        BY <1>2 DEF WriteCommits, SourceTypes, TypeInv, TypeOK, Rows
    <2>4. \A t \in Anchor : server'[t] # NoRow
        BY <2>2, <2>3, NoRowAssumption, ConstantsAssumption
    <2>5. up
        OBVIOUS
    <2> QED BY <1>2, <2>4, <2>5 DEF WriteCommits, ServerWrite, Refreshing
<1>3. ASSUME NEW w \in writes, WriteLost(w) PROVE InStep'
    BY <1>3 DEF WriteLost, Refreshing
<1>4. ASSUME NEW w \in writes, WriteLands(w) PROVE InStep'
    <2>1. /\ used.refreshes \in Nat /\ used.refreshes + 1 <= MaxWrites
          /\ MaxLists \in Nat /\ MaxWrites \in Nat
        <3>1. used.refreshes \in Nat /\ used.writes \in 0..MaxWrites
            BY Limits DEF SourceTypes, Used
        <3>2. Cardinality(writes) \in Nat /\ Cardinality(writes \ {w}) = Cardinality(writes) - 1
              /\ Cardinality(writes \ {w}) \in Nat
            BY CountWrites, FS_CardinalityType DEF SourceTypes, WritesCounted
        <3> QED BY <3>1, <3>2, Limits DEF SourceTypes, WritesCounted
    <2> DEFINE l == NewList(MaxLists + used.refreshes + 1, "all")
    <2>2. l \in lists' /\ l.no > MaxLists
        BY <1>4, <2>1 DEF WriteLands, Refresh, NewList
    <2>3. Refreshing' /\ up
        BY <2>2 DEF Refreshing
    <2> QED BY <1>4, <2>3 DEF WriteLands
<1> QED BY <1>1, <1>2, <1>3, <1>4

-----------------------------------------------------------------------------
(* The dropped source.                                                     *)

LEMMA GhostTypes ==
    ASSUME SourceTypes,
           \/ \E p \in ghost.flight : GhostPull(p)
           \/ \E l \in ghost.lists : GhostList(l)
           \/ GhostAnswer
    PROVE  SourceTypes'
<1> USE DEF SourceTypes
<1>1. ghost \in GhostType /\ ghost.cache \in Rows /\ ghost.flight \subseteq Pull
      /\ ghost.lists \subseteq List /\ skel \in Rows /\ cursor \in Time
    BY DEF GhostType, TypeInv, TypeOK
<1>2. ASSUME NEW c \in Rows, NEW s \in Sigs, NEW f \in SUBSET Pull, NEW k \in SUBSET List
      PROVE  /\ [ghost EXCEPT !.flight = f] \in GhostType
             /\ [ghost EXCEPT !.flight = f, !.cache = c, !.sig = s] \in GhostType
             /\ [ghost EXCEPT !.lists = k] \in GhostType
             /\ [ghost EXCEPT !.lists = k, !.cache = c, !.sig = s] \in GhostType
    BY <1>1 DEF GhostType
<1>3. ASSUME NEW p \in ghost.flight, GhostPull(p) PROVE SourceTypes'
    <2>1. p.body \in Reply /\ p.body.rows \in Rows /\ p.body.time \in Time
        BY <1>1 DEF Pull, Reply
    <2>2. Onto(skel, p) \in Rows /\ Onto(ghost.cache, p) \in Rows
        BY <1>1, <2>1, ApplyType DEF Onto
    <2>3. SigOf(Onto(ghost.cache, p)) \in Sigs
        BY <2>2, SigType
    <2>4. cursor' \in Time
        <3>1. AdvanceCursor(p.body) \/ UNCHANGED cursor
            BY <1>3 DEF GhostPull
        <3>2. cursor' \in {cursor, p.body.time}
            BY <3>1, Advanced
        <3> QED BY <1>1, <2>1, <3>2
    <2>5. /\ skel' \in Rows /\ notices' \subseteq Notice /\ ghost' \in GhostType
        <3>1. CASE GhostIdle(p)
            BY <1>1, <1>2, <1>3, <2>2, <2>3, <3>1 DEF GhostPull, Quiet
        <3>2. CASE ~GhostIdle(p)
            <4>1. /\ skel' \in {skel, Onto(skel, p)}
                  /\ ghost' = [ghost EXCEPT !.flight = @ \ {p}, !.cache = Onto(ghost.cache, p),
                                            !.sig = SigOf(Onto(ghost.cache, p))]
                  /\ notices' = Transitions(ghost.cache, p.body.rows, TRUE)
                BY <1>3, <3>2, Attempted DEF GhostPull
            <4>2. ghost.flight \ {p} \in SUBSET Pull
                BY <1>1
            <4>3. ghost' \in GhostType
                BY <1>2, <2>2, <2>3, <4>1, <4>2
            <4>4. notices' \subseteq Notice
                BY <2>1, <4>1, TransitionsType
            <4> QED BY <1>1, <2>2, <4>1, <4>3, <4>4
        <3> QED BY <3>1, <3>2
    <2>6. TypeInv'
        BY <1>3, <2>4, <2>5 DEF GhostPull, TypeInv, TypeOK, SingleFlight, DeltaBudget,
                               serverVars, memVars, flightVars, syncVars
    <2> QED BY <1>3, <2>5, <2>6 DEF GhostPull, WritesCounted
<1>4. ASSUME NEW l \in ghost.lists, GhostList(l) PROVE SourceTypes'
    <2>1. l.rows \in Rows
        BY <1>1 DEF List
    <2>2. ghost' \in GhostType
        BY <1>1, <1>2, <1>4, <2>1, SigType DEF GhostList
    <2>3. TypeInv'
        <3>1. skel' \in {l.rows, skel}
            BY <1>4, Attempted DEF GhostList
        <3>2. skel' \in Rows
            BY <1>1, <2>1, <3>1
        <3> QED BY <1>4, <3>2 DEF GhostList, TypeInv, TypeOK, SingleFlight, DeltaBudget,
                                  Quiet, serverVars, memVars, flightVars, syncVars
    <2> QED BY <1>4, <2>2, <2>3 DEF GhostList, WritesCounted
<1>5. CASE GhostAnswer
    <2>1. TypeInv'
        BY <1>5, LoopKept DEF GhostAnswer
    <2>2. ghost' \in GhostType
        <3>1. ASSUME NEW p \in ghost.flight, NEW r \in Bodies(p)
              PROVE  (ghost.flight \ {p}) \union {[p EXCEPT !.answered = TRUE, !.body = r]}
                        \subseteq Pull
            <4>1. p \in Pull /\ r \in Reply
                BY <1>1, <3>1, BodiesType DEF TypeInv, TypeOK
            <4>2. [p EXCEPT !.answered = TRUE, !.body = r] \in Pull
                BY <4>1 DEF Pull
            <4> QED BY <1>1, <4>2
        <3>2. ASSUME NEW l \in ghost.lists, NEW rows \in ListBodies(l)
              PROVE  (ghost.lists \ {l}) \union
                        {[l EXCEPT !.answered = TRUE, !.rows = rows]} \subseteq List
            <4>1. rows \in Rows
                BY FilteredType, NothingType DEF ListBodies, TypeInv, TypeOK
            <4> QED BY <1>1, <4>1, AnsweredListType
        <3>3. \A f \in SUBSET Pull : [ghost EXCEPT !.flight = f] \in GhostType
            BY <1>1 DEF GhostType
        <3>4. \A k \in SUBSET List : [ghost EXCEPT !.lists = k] \in GhostType
            BY <1>1 DEF GhostType
        <3>5. ASSUME NEW p \in ghost.flight, NEW r \in Bodies(p),
                     ghost' = [ghost EXCEPT !.flight = (@ \ {p}) \union
                                   {[p EXCEPT !.answered = TRUE, !.body = r]}]
              PROVE  ghost' \in GhostType
            BY <3>1, <3>3, <3>5
        <3>6. ASSUME NEW l \in ghost.lists, NEW rows \in ListBodies(l),
                     ghost' = [ghost EXCEPT !.lists = (@ \ {l}) \union
                                   {[l EXCEPT !.answered = TRUE, !.rows = rows]}]
              PROVE  ghost' \in GhostType
            BY <3>2, <3>4, <3>6
        <3>7. ASSUME NEW p, ghost' = [ghost EXCEPT !.flight = @ \ {p}]
              PROVE  ghost' \in GhostType
            BY <1>1, <3>3, <3>7
        <3>8. ASSUME NEW l, ghost' = [ghost EXCEPT !.lists = @ \ {l}]
              PROVE  ghost' \in GhostType
            BY <1>1, <3>4, <3>8
        <3> QED BY <1>5, <3>5, <3>6, <3>7, <3>8 DEF GhostAnswer
    <2> QED BY <1>5, <2>1, <2>2 DEF GhostAnswer, WritesCounted
<1> QED BY <1>3, <1>4, <1>5

LEMMA GhostInStep ==
    ASSUME InStep,
           \/ \E p \in ghost.flight : GhostPull(p)
           \/ \E l \in ghost.lists : GhostList(l)
           \/ GhostAnswer
    PROVE  InStep'
BY DEF InStep, Refreshing, GhostPull, GhostList, GhostAnswer, serverVars, memVars, flightVars

-----------------------------------------------------------------------------
(* The theorems.                                                           *)

SourceInv == SourceTypes /\ InStep

LEMMA SourceInductive == SourceInv /\ [SourceNext]_allVars => SourceInv'
<1> SUFFICES ASSUME SourceTypes, InStep, [SourceNext]_allVars
             PROVE  SourceTypes' /\ InStep'
    BY DEF SourceInv
<1>1. CASE UNCHANGED allVars
    BY <1>1 DEF allVars, sourceVars, vars, serverVars, diskVars, memVars, flightVars, syncVars,
       SourceTypes, TypeInv, TypeOK, SingleFlight, DeltaBudget, WritesCounted, InStep, Refreshing
<1>2. CASE SourceStep
    <2>1. CASE PollStep
        BY <2>1, PollTypes, PollInStep
    <2>2. CASE ProcessDies \/ SignOut \/ SignIn
        BY <2>2, EndTypes, EndInStep
    <2>3. CASE ListAsk \/ \E l \in lists : ListAnswer(l) \/ ListFails(l) \/ ListApply(l)
        BY <2>3, ListTypes, ListInStep
    <2>4. CASE \/ \E t \in Tasks : WriteSend(t)
               \/ \E w \in writes : WriteCommits(w) \/ WriteLost(w) \/ WriteLands(w)
        BY <2>4, WriteTypes, WriteInStep
    <2>5. CASE \/ \E p \in ghost.flight : GhostPull(p)
               \/ \E l \in ghost.lists : GhostList(l)
               \/ GhostAnswer
        BY <2>5, GhostTypes, GhostInStep
    <2> QED BY <1>2, <2>1, <2>2, <2>3, <2>4, <2>5 DEF SourceStep
<1> QED BY <1>1, <1>2 DEF SourceNext

LEMMA SourceInvariant == SourceSpec => []SourceInv
<1>1. SourceInit => SourceInv
    BY InitSource DEF SourceInv
<1> QED BY <1>1, SourceInductive, PTL DEF SourceSpec

\* Types, with lists, own writes, sign-out and sign-in around the loop: each
\* own write is refreshed after at most once.
THEOREM SourceTypeCorrect == SourceSpec => []SourceTypeOK
<1>1. SourceInv => SourceTypeOK
    BY DEF SourceInv, SourceTypes, SourceTypeOK, TypeInv, GhostType, Sigs, Used
<1> QED BY <1>1, SourceInvariant, PTL

\* Whatever a list response or an own write does to the rows on screen behind
\* the poll's back, the signature still tells the next full pull, unless the
\* refresh after a write failed; and this needs nothing of the order in which
\* the server's values change.
THEOREM StaysRepairable == SourceSpec => []SourceRepairable
<1>1. ASSUME SourceInv PROVE SourceRepairable
    <2> USE <1>1 DEF SourceInv
    <2> SUFFICES ASSUME lastSig = SigOf(server), lastSig \in {NoSig, SigOf(cache)},
                        NEW t \in Tasks
                 PROVE  SameVisible(cache[t], server[t])
        BY DEF InStep, SourceRepairable, Refreshing
    <2>1. server \in Rows /\ cache \in Rows
        BY DEF SourceTypes, TypeInv, TypeOK
    <2>2. lastSig # NoSig
        <3>1. PICK a \in Anchor : a \in Tasks /\ server[a] # NoRow
            BY ConstantsAssumption DEF InStep
        <3> QED BY <2>1, <3>1, SigEmpty
    <2> QED BY <2>1, <2>2, SigSame
<1> QED BY <1>1, SourceInvariant, PTL

\* syncNow() stays honest among the other writers: none of them touches the
\* time it compares, and a sign-out or a death ends the call.
THEOREM RejectionsStayHonest == SourceSpec => []SyncRejectHonest
<1>1. SourceInit => Credited
    BY DEF SourceInit, Init, Credited
<1>2. ASSUME SourceInv, Credited, [SourceNext]_allVars PROVE Credited'
    <2>1. CASE PollStep
        <3>1. [Next]_vars
            BY <2>1 DEF PollStep, Next
        <3> QED BY <1>2, <3>1, CreditStep DEF SourceInv, SourceTypes, TypeInv
    <2>2. CASE ProcessDies \/ SignOut
        BY <2>2 DEF ProcessDies, Crash, CrashMidDelta, CrashMidFull, Die, SignOut, Credited
    <2>3. CASE UNCHANGED syncVars
        BY <1>2, <2>3 DEF syncVars, Credited
    <2>4. PollStep \/ ProcessDies \/ SignOut \/ UNCHANGED syncVars
        BY <1>2 DEF SourceNext, SourceStep, ListAsk, ListAnswer, ListFails, ListApply, WriteSend,
           WriteCommits, ServerWrite, WriteLost, WriteLands, SignIn, GhostPull, GhostList,
           GhostAnswer, allVars, vars
    <2> QED BY <2>1, <2>2, <2>3, <2>4
<1>3. Credited => SyncRejectHonest
    BY DEF Credited, SyncRejectHonest
<1> QED BY <1>1, <1>2, <1>3, SourceInvariant, PTL DEF SourceSpec

=============================================================================
