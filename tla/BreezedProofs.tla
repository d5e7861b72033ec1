--------------------------- MODULE BreezedProofs ---------------------------
(***************************************************************************)
(* Proofs about Breezed, for every set of tasks, every number of slots and *)
(* every pair of periods: the heartbeat of a run keeps its claim fresh, no *)
(* more than MAX_CONCURRENT runs are under way, and an attached laptop     *)
(* cannot miss a change.                                                   *)
(***************************************************************************)
EXTENDS Breezed, FiniteSetTheorems, TLAPS

\* What the heartbeat has to do with, typed.  Without tasks the initial value
\* of job is no task.
BeatTypes ==
    /\ state \in [Tasks -> {"open", "mine", "theirs", "done"}]
    /\ age \in [Tasks -> 0..Ttl] /\ \A t \in Tasks : age[t] < Ttl
    /\ at \in [Slots -> {"free", "agent", "ended", "report", "finish"}]
    /\ job \in [Slots -> Tasks \union {CHOOSE t \in Tasks : TRUE}]
    /\ armed \subseteq Slots /\ timer \in [Slots -> 0..Heartbeat]

\* The heartbeat of a run is armed as long as the run lasts.
RunsBeat == \A s \in Busy : s \in armed /\ job[s] \in Tasks

BeatInv == BeatTypes /\ RunsBeat /\ BeatInTime

LEMMA InitBeat == Init => BeatInv
  BY BreezedAssumption DEF Init, BeatInv, BeatTypes, RunsBeat, BeatInTime, Busy

\* What neither takes nor renews a claim, ends no run and stops no timer.
calmVars == <<state, age, at, job, armed, timer, beats, late>>

LEMMA CalmBeat ==
    ASSUME BeatInv, UNCHANGED calmVars
    PROVE  BeatInv'
  BY DEF BeatInv, BeatTypes, RunsBeat, BeatInTime, Busy, calmVars

\* A claim that is taken, renewed or lost is as fresh as any timer.
LEMMA ClaimBeat ==
    ASSUME BeatInv, NEW t \in Tasks,
           NEW s \in {"open", "mine", "theirs", "done"}, To(t, s),
           \A u \in Tasks : u \notin late' \union beats' => u = t \/ u \notin late \union beats,
           UNCHANGED <<at, job, armed, timer>>
    PROVE  BeatInv'
  <1> USE DEF BeatInv, BeatTypes, RunsBeat, BeatInTime, Busy
  <1>1. state' = [state EXCEPT ![t] = s] /\ age' = [age EXCEPT ![t] = 0]
    BY DEF To
  <1>2. BeatTypes'
    BY <1>1, BreezedAssumption
  <1>3. ASSUME NEW r \in Busy PROVE 0 <= timer[r]
    OBVIOUS
  <1> QED BY <1>1, <1>2, <1>3

LEMMA ServerBeat ==
    ASSUME BeatInv, NEW t \in Tasks, Elsewhere(t) \/ Answer(t) \/ Beating(t) \/ Stopping(t)
    PROVE  BeatInv'
  <1> USE DEF serverVars, loopVars, runVars, beatVars, wakeVars
  <1>1. CASE Elsewhere(t)
    BY <1>1, ClaimBeat DEF Elsewhere
  <1>2. CASE Answer(t) \/ Stopping(t)
    BY <1>2, CalmBeat DEF Answer, Stopping, StopRead, StopAsk, calmVars
  <1>3. CASE BeatLands(t)
    BY <1>3, ClaimBeat DEF BeatLands
  <1>4. CASE BeatFails(t)
    BY <1>4 DEF BeatFails, BeatInv, BeatTypes, RunsBeat, BeatInTime, Busy
  <1> QED BY <1>1, <1>2, <1>3, <1>4 DEF Beating

LEMMA LoopBeat ==
    ASSUME BeatInv, Sweeping \/ Looping
    PROVE  BeatInv'
  <1> USE DEF serverVars, loopVars, runVars, beatVars, wakeVars
  <1>1. ASSUME NEW t \in Tasks, NEW s \in Slots, ClaimNext(t, s)
        PROVE  BeatInv'
    <2>1. /\ at' = [at EXCEPT ![s] = "agent"] /\ job' = [job EXCEPT ![s] = t]
          /\ armed' = armed \union {s} /\ timer' = [timer EXCEPT ![s] = 0]
          /\ state' = [state EXCEPT ![t] = "mine"] /\ age' = [age EXCEPT ![t] = 0]
          /\ late' = late \ {t} /\ beats' = beats
      BY <1>1 DEF ClaimNext, To
    <2>2. BeatTypes'
      BY <2>1, BreezedAssumption DEF BeatInv, BeatTypes
    <2>3. Busy' \subseteq Busy \union {s}
      BY <2>1 DEF BeatInv, BeatTypes, Busy
    <2>4. RunsBeat'
      BY <2>1, <2>3 DEF BeatInv, BeatTypes, RunsBeat
    <2>5. BeatInTime'
      BY <2>1, <2>3 DEF BeatInv, BeatTypes, RunsBeat, BeatInTime
    <2> QED BY <2>2, <2>4, <2>5 DEF BeatInv
  <1>2. ASSUME NEW t \in Tasks, ClaimBrowser(t) \/ ClaimLost(t)
        PROVE  BeatInv'
    BY <1>2, ClaimBeat DEF ClaimBrowser, ClaimLost
  <1>3. CASE ReleaseBrowser
    <2>1. ASSUME NEW t \in got, state[t] = "mine", To(t, "open"),
                 UNCHANGED <<runVars, beatVars>>
          PROVE  BeatInv'
      <3>1. CASE t \in Tasks
        BY <2>1, <3>1, ClaimBeat
      <3>2. CASE t \notin Tasks
        BY <2>1, <3>2, CalmBeat DEF To, calmVars, BeatInv, BeatTypes
      <3> QED BY <3>1, <3>2
    <2> QED BY <1>3, <2>1, CalmBeat DEF ReleaseBrowser, calmVars
  <1>4. CASE Sweeping \/ LoopIdles
    BY <1>4, CalmBeat
    DEF Sweeping, SweepStarts, SweepRead, SweepTakes, SweepFails, LoopIdles, calmVars
  <1> QED BY <1>1, <1>2, <1>3, <1>4 DEF Looping

LEMMA RunBeat ==
    ASSUME BeatInv, NEW s \in Slots, Running(s)
    PROVE  BeatInv'
  <1> USE DEF serverVars, loopVars, runVars, beatVars, wakeVars
  <1>1. ASSUME at[s] # "free", at'[s] # "free", at' = [at EXCEPT ![s] = at'[s]],
               UNCHANGED <<job, armed, timer, beats, late>>,
               UNCHANGED <<state, age>> \/ \E v \in {"open", "done"} : To(job[s], v),
               BeatTypes'
        PROVE  BeatInv'
    <2>1. Busy' = Busy
      BY <1>1 DEF BeatInv, BeatTypes, Busy
    <2>2. job[s] \in Tasks
      BY <1>1 DEF BeatInv, RunsBeat, Busy
    <2> QED BY <1>1, <2>1, <2>2 DEF To, BeatInv, BeatTypes, RunsBeat, BeatInTime
  <1>2. CASE AgentAsks(s)
    BY <1>2, CalmBeat DEF AgentAsks, calmVars
  <1>3. CASE AgentSubmits(s)
    <2>1. job[s] \in Tasks
      BY <1>3 DEF AgentSubmits, BeatInv, RunsBeat, Busy
    <2> QED BY <1>3, <2>1, ClaimBeat DEF AgentSubmits
  <1>4. CASE AgentEnds(s) \/ AgentThrows(s) \/ Track(s) \/ Report(s) \/ ReportFails(s)
    <2>1. /\ at[s] # "free"
          /\ \E v \in {"ended", "report", "finish"} : at' = [at EXCEPT ![s] = v]
          /\ UNCHANGED <<job, armed, timer, beats, late>>
          /\ \/ UNCHANGED <<state, age>>
             \/ \E v \in {"open", "done"} : To(job[s], v)
      BY <1>4 DEF AgentEnds, AgentThrows, Track, Report, ReportFails
    <2>2. job[s] \in Tasks
      BY <2>1 DEF BeatInv, RunsBeat, Busy
    <2>3. BeatTypes'
      BY <2>1, <2>2, BreezedAssumption DEF To, BeatInv, BeatTypes
    <2> QED BY <1>1, <2>1, <2>3 DEF BeatInv, BeatTypes
  <1>5. CASE Finish(s)
    <2>1. /\ at' = [at EXCEPT ![s] = "free"] /\ armed' = armed \ {s}
          /\ timer' = [timer EXCEPT ![s] = 0]
          /\ UNCHANGED <<state, age, job, beats, late>>
      BY <1>5 DEF Finish, Disarm
    <2>2. Busy' = Busy \ {s}
      BY <2>1 DEF BeatInv, BeatTypes, Busy
    <2> QED BY <2>1, <2>2, BreezedAssumption DEF BeatInv, BeatTypes, RunsBeat, BeatInTime
  <1>6. CASE BeatDue(s)
    BY <1>6, BreezedAssumption
       DEF BeatDue, BeatsOn, BeatInv, BeatTypes, RunsBeat, BeatInTime, Busy
  <1> QED BY <1>2, <1>3, <1>4, <1>5, <1>6 DEF Running, Reporting

LEMMA TickBeat ==
    ASSUME BeatInv, Tick
    PROVE  BeatInv'
  <1> USE BreezedAssumption DEF BeatInv, BeatTypes
  <1>1. /\ state' = [t \in Tasks |-> IF t \in Lapsing THEN "open" ELSE state[t]]
        /\ age' = [t \in Tasks |-> IF state'[t] = "mine" THEN age[t] + 1 ELSE 0]
        /\ timer' = [s \in Slots |-> IF s \in armed THEN timer[s] + 1 ELSE 0]
        /\ beats = {} /\ UNCHANGED <<at, job, armed, beats, late>>
    BY DEF Tick, Settled, runVars
  <1>2. state' \in [Tasks -> {"open", "mine", "theirs", "done"}]
    BY <1>1
  <1>3. ASSUME NEW t \in Tasks, state'[t] = "mine"
        PROVE  state[t] = "mine" /\ age'[t] = age[t] + 1 /\ age'[t] < Ttl
    BY <1>1, <1>3 DEF Lapsing
  <1>4. age' \in [Tasks -> 0..Ttl] /\ \A t \in Tasks : age'[t] < Ttl
    BY <1>1, <1>3
  <1>5. timer' \in [Slots -> 0..Heartbeat]
    BY DEF Tick, Settled
  <1>6. RunsBeat' /\ BeatInTime'
    BY <1>1, <1>3 DEF RunsBeat, BeatInTime, Busy
  <1> QED BY <1>1, <1>2, <1>4, <1>5, <1>6

LEMMA BeatStep ==
    ASSUME BeatInv, [Next]_vars
    PROVE  BeatInv'
  <1> USE DEF serverVars, loopVars, runVars, beatVars, wakeVars
  <1>1. CASE Restart
    <2>1. Busy' = {}
      BY <1>1 DEF Restart, Busy
    <2> QED BY <1>1, <2>1, BreezedAssumption
            DEF Restart, BeatInv, BeatTypes, RunsBeat, BeatInTime
  <1>2. CASE Edited \/ Attachment \/ UNCHANGED vars
    BY <1>2, CalmBeat DEF Edited, Attachment, vars, calmVars
  <1> QED BY <1>1, <1>2, ServerBeat, LoopBeat, RunBeat, TickBeat DEF Next

\* While a run goes on and its renewals arrive, its claim is no older than its
\* heartbeat's timer, and so never lapses (Heartbeat < Ttl): whatever other
\* run, restart or lost reply claims or releases the same task meanwhile.
THEOREM ClaimsAreBeaten == Spec => []BeatInTime
  <1>1. BeatInv => BeatInTime
    BY DEF BeatInv
  <1> QED BY <1>1, InitBeat, BeatStep, PTL DEF Spec

\* What a step does to the change feed.
LEMMA FeedSteps ==
    ASSUME [Next]_vars
    PROVE  FeedNext \/ Bump \/ FeedRestarts \/ UNCHANGED feedVars
  <1>1. ASSUME NEW t \in Tasks, Elsewhere(t) \/ Answer(t) \/ Beating(t) \/ Stopping(t)
        PROVE  Bump \/ UNCHANGED feedVars
    BY <1>1 DEF Elsewhere, Answer, Beating, BeatLands, BeatFails, Stopping, StopRead, StopAsk
  <1>2. ASSUME Sweeping \/ Looping PROVE Bump \/ UNCHANGED feedVars
    BY <1>2 DEF Sweeping, SweepStarts, SweepRead, SweepTakes, SweepFails, Looping, LoopIdles,
                ReleaseBrowser, ClaimBrowser, ClaimLost, ClaimNext
  <1>3. ASSUME NEW s \in Slots, Running(s) PROVE Bump \/ UNCHANGED feedVars
    BY <1>3 DEF Running, Reporting, AgentAsks, AgentSubmits, AgentEnds, AgentThrows, Track, Report,
                ReportFails, Finish, BeatDue
  <1>4. CASE Restart \/ Tick \/ Edited \/ Attachment \/ UNCHANGED vars
    BY <1>4 DEF Restart, Tick, Edited, Attachment, vars
  <1> QED BY <1>1, <1>2, <1>3, <1>4 DEF Next

-----------------------------------------------------------------------------
(* Types, and the number of runs.                                          *)

\* The two halves of FeedTypeOK.
FlagsTyped == counted \in BOOLEAN /\ valid \in BOOLEAN /\ unseen \in BOOLEAN
              /\ after \in BOOLEAN /\ fresh \in BOOLEAN
StagesTyped == /\ link \in {"off", "connecting", "on"}
               /\ poll \in {"none", "sent", "waits", "same", "news"}
               /\ failures \in 0..(MaxFailures - 1)

LEMMA FeedParts == FeedTypeOK <=> FlagsTyped /\ StagesTyped
  BY Zenon DEF FeedTypeOK, FlagsTyped, StagesTyped

LEMMA FeedInitTypes == FeedInit => FeedTypeOK
  <1>1. FeedInit => FlagsTyped
    BY Zenon DEF FeedInit, FlagsTyped
  <1>2. FeedInit => StagesTyped
    BY FailuresAssumption DEF FeedInit, StagesTyped
  <1> QED BY <1>1, <1>2, FeedParts

LEMMA FeedStepTypes ==
    ASSUME FeedTypeOK, FeedNext \/ Bump \/ FeedRestarts \/ UNCHANGED feedVars
    PROVE  FeedTypeOK'
  <1>0. FlagsTyped /\ StagesTyped
    BY FeedParts
  <1>1. ASSUME Bump \/ FeedRestarts \/ UNCHANGED feedVars PROVE FlagsTyped' /\ StagesTyped'
    <2>1. FlagsTyped'
      <3>1. CASE Bump
        <4>1. (link = "on") \in BOOLEAN /\ (poll \in {"same", "news"}) \in BOOLEAN
          OBVIOUS
        <4>2. unseen' \in BOOLEAN /\ after' \in BOOLEAN
          BY <3>1, <4>1, Zenon DEF Bump
        <4> QED BY <1>0, <3>1, <4>2, Zenon DEF FlagsTyped, Bump
      <3>2. CASE FeedRestarts \/ UNCHANGED feedVars
        BY <1>0, <3>2, Zenon DEF FlagsTyped, FeedRestarts, feedVars
      <3> QED BY <1>1, <3>1, <3>2
    <2>2. StagesTyped'
      BY <1>0, <1>1 DEF StagesTyped, Bump, FeedRestarts, feedVars
    <2> QED BY <2>1, <2>2
  <1>2. ASSUME Serve \/ KeepWarm \/ PollChanges \/ PollTimesOut
        PROVE  FlagsTyped' /\ StagesTyped'
    <2>1. FlagsTyped'
      BY <1>0, <1>2, Zenon DEF FlagsTyped, Serve, KeepWarm, PollChanges, PollTimesOut
    <2>2. StagesTyped'
      BY <1>0, <1>2 DEF StagesTyped, Serve, KeepWarm, PollChanges, PollTimesOut
    <2> QED BY <2>1, <2>2
  <1>3. ASSUME PollAnswered PROVE FlagsTyped' /\ StagesTyped'
    <2>1. FlagsTyped'
      BY <1>0, <1>3, Zenon DEF FlagsTyped, PollAnswered
    <2>2. StagesTyped'
      BY <1>0, <1>3, FailuresAssumption DEF StagesTyped, PollAnswered
    <2> QED BY <2>1, <2>2
  <1>4. ASSUME Connect \/ Connected \/ ConnectFails PROVE FlagsTyped' /\ StagesTyped'
    <2>1. FlagsTyped'
      BY <1>0, <1>4, Zenon DEF FlagsTyped, Connect, Connected, ConnectFails
    <2>2. StagesTyped'
      BY <1>0, <1>4, FailuresAssumption DEF StagesTyped, Connect, Connected, ConnectFails
    <2> QED BY <2>1, <2>2
  <1>5. ASSUME Disconnect \/ PollFails PROVE FlagsTyped' /\ StagesTyped'
    <2>1. FlagsTyped'
      BY <1>0, <1>5, Zenon DEF FlagsTyped, Disconnect, Detached, PollFails
    <2>2. StagesTyped'
      BY <1>0, <1>5, FailuresAssumption DEF StagesTyped, Disconnect, Detached, PollFails
    <2> QED BY <2>1, <2>2
  <1>6. FlagsTyped' /\ StagesTyped' => FeedTypeOK'
    BY Zenon DEF FeedTypeOK, FlagsTyped, StagesTyped
  <1> QED BY <1>1, <1>2, <1>3, <1>4, <1>5, <1>6 DEF FeedNext

LEMMA ServerTypes ==
    ASSUME BeatInv, BreezedTypeOK, BeatInv', FeedTypeOK', NEW t \in Tasks,
           Elsewhere(t) \/ Answer(t) \/ Beating(t) \/ Stopping(t)
    PROVE  BreezedTypeOK'
  <1> USE DEF BreezedTypeOK, BeatInv, BeatTypes, serverVars, loopVars, runVars, beatVars, wakeVars
  <1>1. CASE Elsewhere(t) \/ Answer(t)
    BY <1>1 DEF Elsewhere, Answer
  <1>2. CASE Beating(t)
    BY <1>2 DEF Beating, BeatLands, BeatFails
  <1>3. CASE Stopping(t)
    BY <1>3 DEF Stopping, StopRead, StopAsk
  <1> QED BY <1>1, <1>2, <1>3

LEMMA LoopTypes ==
    ASSUME BeatInv, BreezedTypeOK, BeatInv', FeedTypeOK', Sweeping \/ Looping
    PROVE  BreezedTypeOK'
  <1> USE DEF BreezedTypeOK, BeatInv, BeatTypes, serverVars, loopVars, runVars, beatVars, wakeVars
  <1>1. CASE Sweeping
    <2>1. ASSUME NEW t \in Tasks, SweepRead(t)
          PROVE  BreezedTypeOK'
      <3>1. PICK lets \in BOOLEAN : lets = (state[t] = "done" \/ ~Waiting(t))
        BY Zenon
      <3>2. reply' = {<<t, lets>>}
        BY <2>1, <3>1, Zenon DEF SweepRead
      <3>3. reply' \subseteq Tasks \X BOOLEAN
        BY <3>2
      <3> QED BY <2>1, <3>3 DEF SweepRead
    <2>2. CASE SweepTakes
      BY <2>2 DEF SweepTakes
    <2>3. CASE SweepStarts \/ \E t \in Tasks : SweepFails(t)
      BY <2>3 DEF SweepStarts, SweepFails, Goto
    <2> QED BY <1>1, <2>1, <2>2, <2>3 DEF Sweeping
  <1>2. CASE LoopIdles \/ ReleaseBrowser
    BY <1>2 DEF LoopIdles, ReleaseBrowser, Goto
  <1>3. ASSUME NEW t \in Tasks, ClaimBrowser(t) \/ ClaimLost(t) PROVE BreezedTypeOK'
    BY <1>3 DEF ClaimBrowser, ClaimLost, Goto
  <1>4. ASSUME NEW t \in Tasks, NEW s \in Slots, ClaimNext(t, s) PROVE BreezedTypeOK'
    BY <1>4 DEF ClaimNext, Goto
  <1> QED BY <1>1, <1>2, <1>3, <1>4 DEF Looping

LEMMA RunTypes ==
    ASSUME BeatInv, BreezedTypeOK, BeatInv', FeedTypeOK', NEW s \in Slots, Running(s)
    PROVE  BreezedTypeOK'
  <1> USE DEF BreezedTypeOK, BeatInv, BeatTypes, serverVars, loopVars, runVars, beatVars, wakeVars
  <1>0. job[s] \in Tasks
    OBVIOUS
  <1>1. CASE AgentAsks(s) \/ AgentSubmits(s)
    BY <1>0, <1>1 DEF AgentAsks, AgentSubmits
  <1>2. CASE AgentEnds(s) \/ AgentThrows(s)
    <2>1. ok' \in [Slots -> BOOLEAN]
      BY <1>2 DEF AgentEnds, AgentThrows
    <2>2. /\ stop' \in [Tasks -> {"none", "read", "ask"}]
          /\ UNCHANGED <<serverVars, loopVars, beats, late, tracked>>
      BY <1>0, <1>2 DEF AgentEnds, AgentThrows
    <2> QED BY <2>1, <2>2
  <1>3. CASE Track(s) \/ Report(s) \/ ReportFails(s) \/ Finish(s)
    BY <1>0, <1>3 DEF Track, Report, ReportFails, Finish
  <1>4. CASE BeatDue(s)
    BY <1>0, <1>4 DEF BeatDue
  <1> QED BY <1>1, <1>2, <1>3, <1>4 DEF Running, Reporting

\* Every state of the daemon and of the laptop's connection is well typed: the
\* timers and ages stay within their periods, the failures below their limit.
THEOREM BreezedTypes ==
    ASSUME Tasks # {}
    PROVE  Spec => []BreezedTypeOK
  <1> DEFINE Inv == BeatInv /\ BreezedTypeOK
  <1>1. Init => Inv
    BY InitBeat, FeedInitTypes, BreezedAssumption DEF Init, BreezedTypeOK
  <1>2. Inv /\ [Next]_vars => Inv'
    <2> SUFFICES ASSUME BeatInv, BreezedTypeOK, [Next]_vars PROVE Inv'
      OBVIOUS
    <2>1. BeatInv'
      BY BeatStep
    <2>2. FeedTypeOK'
      BY FeedStepTypes, FeedSteps DEF BreezedTypeOK
    <2> USE DEF BreezedTypeOK, BeatInv, BeatTypes, serverVars, loopVars, runVars, wakeVars
    <2>3. CASE Restart
      BY <2>1, <2>2, <2>3 DEF Restart
    <2>4. CASE Tick
      BY <2>1, <2>2, <2>4 DEF Tick
    <2>5. CASE Edited \/ Attachment \/ UNCHANGED vars
      BY <2>1, <2>2, <2>5 DEF Edited, Attachment, vars, beatVars
    <2> QED BY <2>1, <2>2, <2>3, <2>4, <2>5, ServerTypes, LoopTypes, RunTypes DEF Next
  <1> QED BY <1>1, <1>2, PTL DEF Spec

\* "MAX_CONCURRENT": no more than so many runs are under way, counted until
\* their report is done.
WithinLimit == Cardinality(Busy) <= MaxConcurrent

LEMMA BusyFinite == IsFiniteSet(Busy)
  <1>1. IsFiniteSet(1..(MaxConcurrent + 1))
    BY BreezedAssumption, FS_Interval
  <1> QED BY <1>1, FS_Subset DEF Busy, Slots

\* However claims, runs, reports and restarts of the daemon follow each other,
\* there are at most MAX_CONCURRENT runs; the last slot is never used.
THEOREM RunsAreLimited == Spec => []WithinLimit
  <1> DEFINE Inv == BeatInv /\ WithinLimit
  <1>1. Init => Inv
    <2>1. Init => Busy = {}
      BY DEF Init, Busy
    <2> QED BY <2>1, InitBeat, FS_EmptySet, BreezedAssumption DEF WithinLimit
  <1>2. Inv /\ [Next]_vars => Inv'
    <2> SUFFICES ASSUME BeatInv, WithinLimit, [Next]_vars PROVE WithinLimit'
      BY BeatStep
    <2> USE DEF serverVars, loopVars, runVars, beatVars, wakeVars
    <2>1. ASSUME Busy' \subseteq Busy PROVE WithinLimit'
      <3>1. Cardinality(Busy') <= Cardinality(Busy) /\ Cardinality(Busy') \in Nat
            /\ Cardinality(Busy) \in Nat
        BY <2>1, BusyFinite, FS_Subset, FS_CardinalityType
      <3> QED BY <3>1, BreezedAssumption DEF WithinLimit
    <2>2. ASSUME NEW t \in Tasks, NEW s \in Slots, ClaimNext(t, s) PROVE WithinLimit'
      <3>1. Busy' \subseteq Busy \union {s}
        BY <2>2 DEF ClaimNext, BeatInv, BeatTypes, Busy
      <3>2. /\ IsFiniteSet(Busy \union {s})
            /\ Cardinality(Busy \union {s}) <= Cardinality(Busy) + 1
            /\ Cardinality(Busy) \in Nat /\ Cardinality(Busy \union {s}) \in Nat
        <4>1. /\ IsFiniteSet(Busy \union {s})
              /\ Cardinality(Busy \union {s})
                   = IF s \in Busy THEN Cardinality(Busy) ELSE Cardinality(Busy) + 1
          BY BusyFinite, FS_AddElement, Zenon
        <4>2. Cardinality(Busy) \in Nat /\ Cardinality(Busy \union {s}) \in Nat
          BY <4>1, BusyFinite, FS_CardinalityType
        <4> QED BY <4>1, <4>2
      <3>3. Cardinality(Busy') <= Cardinality(Busy \union {s}) /\ Cardinality(Busy') \in Nat
        BY <3>1, <3>2, FS_Subset, FS_CardinalityType
      <3> QED BY <2>2, <3>2, <3>3, BreezedAssumption DEF ClaimNext, HasRoom, WithinLimit
    <2>3. ASSUME NEW s \in Slots, Running(s) PROVE WithinLimit'
      <3>1. CASE AgentAsks(s) \/ AgentSubmits(s) \/ BeatDue(s)
        BY <2>1, <3>1 DEF AgentAsks, AgentSubmits, BeatDue, Busy
      <3>2. CASE AgentEnds(s) \/ AgentThrows(s) \/ Reporting(s)
        <4>1. s \in Busy /\ \E v \in {"free", "ended", "report", "finish"} :
                                at' = [at EXCEPT ![s] = v]
          BY <3>2 DEF AgentEnds, AgentThrows, Reporting, Track, Report, ReportFails, Finish, Busy
        <4> QED BY <2>1, <4>1 DEF BeatInv, BeatTypes, Busy
      <3> QED BY <2>3, <3>1, <3>2 DEF Running
    <2>4. CASE Restart
      BY <2>1, <2>4 DEF Restart, Busy
    <2>5. CASE UNCHANGED at
      BY <2>1, <2>5 DEF Busy
    <2>6. ASSUME NEW t \in Tasks, Elsewhere(t) \/ Answer(t) \/ Beating(t) \/ Stopping(t)
          PROVE  UNCHANGED at
      BY <2>6 DEF Elsewhere, Answer, Beating, BeatLands, BeatFails, Stopping, StopRead, StopAsk
    <2>7. CASE Sweeping \/ LoopIdles \/ ReleaseBrowser
               \/ \E t \in Tasks : ClaimBrowser(t) \/ ClaimLost(t)
      BY <2>5, <2>7 DEF Sweeping, SweepStarts, SweepRead, SweepTakes, SweepFails, LoopIdles,
                        ReleaseBrowser, ClaimBrowser, ClaimLost
    <2>8. CASE Tick \/ Edited \/ Attachment \/ UNCHANGED vars
      BY <2>5, <2>8 DEF Tick, Edited, Attachment, vars
    <2> QED BY <2>2, <2>3, <2>4, <2>5, <2>6, <2>7, <2>8 DEF Next, Looping
  <1> QED BY <1>1, <1>2, PTL DEF Spec

-----------------------------------------------------------------------------
(* The change feed.                                                        *)

\* seq > since: an attached laptop that did not pull after the last change has
\* an older number than the daemon, so that its next poll is answered at once,
\* unless the daemon it knows is gone.
NothingMissed == link = "on" /\ valid /\ ~fresh => unseen

\* A poll that waits at the daemon knows its number; a reply without news is
\* behind once a change was made after it.
FeedSound ==
    /\ NothingMissed
    /\ poll = "waits" /\ valid => ~unseen
    /\ poll = "same" /\ valid /\ ~fresh => after
    /\ poll # "none" => link = "on"

LEMMA FeedStep ==
    ASSUME FeedTypeOK, FeedSound, FeedNext \/ Bump \/ FeedRestarts \/ UNCHANGED feedVars
    PROVE  FeedSound'
  <1> USE DEF FeedTypeOK, FeedSound, NothingMissed
  <1>1. CASE Bump \/ FeedRestarts \/ UNCHANGED feedVars
    BY <1>1 DEF Bump, FeedRestarts, feedVars
  <1>2. CASE Serve \/ KeepWarm \/ PollChanges \/ PollAnswered \/ PollTimesOut
    BY <1>2 DEF Serve, Behind, KeepWarm, PollChanges, PollAnswered, PollTimesOut
  <1>3. CASE Connect \/ Connected \/ ConnectFails \/ Disconnect \/ PollFails
    BY <1>3 DEF Connect, Connected, ConnectFails, Disconnect, Detached, PollFails
  <1> QED BY <1>1, <1>2, <1>3 DEF FeedNext

\* "a laptop can long-poll" for every change: whichever polls time out, fail,
\* are swallowed or cross the next change, and wherever the daemon starts
\* counting again, a change that the laptop has not pulled is one its next poll
\* will tell of.  (That the poll comes is ChangeReachesLaptop.)
THEOREM ChangesAreNoticed == Spec => []NothingMissed
  <1> DEFINE Inv == FeedTypeOK /\ FeedSound
  <1>1. Init => Inv
    BY FeedInitTypes DEF Init, FeedInit, FeedSound, NothingMissed
  <1>2. Inv /\ [Next]_vars => Inv'
    BY FeedStepTypes, FeedSteps, FeedStep
  <1>3. Inv => NothingMissed
    BY DEF FeedSound
  <1> QED BY <1>1, <1>2, <1>3, PTL DEF Spec

=============================================================================
