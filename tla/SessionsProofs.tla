--------------------------- MODULE SessionsProofs --------------------------
(***************************************************************************)
(* Proofs about Sessions, for every set of tasks, any number of launches   *)
(* and every pair of periods.  What the sessions of several tasks share is *)
(* the operator window; `Windows` says how a launch gets it.               *)
(***************************************************************************)
EXTENDS Sessions, TLAPS

(***************************************************************************)
(* Types.                                                                  *)

SessTypes == SessTypeOK /\ \A t \in Tasks : age[t] < Ttl

LEMMA LaunchNumbers == 0 \notin Launches /\ Launches \subseteq 0..MaxLaunches
  BY SessionsAssumption DEF Launches

LEMMA RowParts ==
    /\ \A r \in Rows : r[1] \in Sources /\ r[2] \in Tasks
    /\ \A s \in Sources, t \in Tasks : <<s, t>> \in Rows
  BY DEF Rows

LEMMA RowsAt ==
    ASSUME SessTypeOK
    PROVE  /\ \A t \in Tasks : Here(t) \in Rows
           /\ \A l \in Launches : At(l) \in Rows
  BY RowParts DEF SessTypeOK, Here, At

\* Ending the shell of launch p, or none.
Ended(p) == proc' = [proc EXCEPT ![p] = IF @ = "runs" THEN "dying" ELSE @]

LEMMA EndedProc ==
    ASSUME SessTypeOK, NEW p, Ended(p)
    PROVE  /\ proc' \in [Launches -> {"none", "runs", "dying", "gone"}]
           /\ \A k \in Launches :
                 proc'[k] = IF k = p /\ proc[k] = "runs" THEN "dying" ELSE proc[k]
  <1> DEFINE Procs == {"none", "runs", "dying", "gone"}
  <1>1. proc \in [Launches -> Procs]
    BY DEF SessTypeOK
  <1>2. \A k \in Launches :
           proc'[k] = IF k = p /\ proc[k] = "runs" THEN "dying" ELSE proc[k]
    BY <1>1 DEF Ended
  <1>3. proc' = [k \in Launches |-> proc'[k]]
    BY <1>1 DEF Ended
  <1> QED BY <1>1, <1>2, <1>3

LEMMA InitTypes == Init => SessTypes
  BY SessionsAssumption DEF Init, SessTypes, SessTypeOK, Launches, Sources, Holders, Steps

\* What changes the server's or the cache's view of a task, and nothing of a
\* launch.
LEMMA ServerTypes ==
    ASSUME SessTypes, NEW t \in Tasks,
           Elsewhere(t) \/ Polled(t) \/ ClaimOnly(t) \/ Release(t)
    PROVE  SessTypes'
  <1> USE SessionsAssumption
          DEF SessTypes, SessTypeOK, Quiet, Holders, launchVars, aliveVars,
              exitVars, serverVars
  <1>1. CASE Elsewhere(t)  BY <1>1 DEF Elsewhere, Lose
  <1>2. CASE Polled(t)     BY <1>2, RowsAt DEF Polled
  <1>3. CASE ClaimOnly(t)  BY <1>3, RowsAt DEF ClaimOnly, Take
  <1>4. CASE Release(t)    BY <1>4, RowsAt DEF Release, Lose
  <1> QED BY <1>1, <1>2, <1>3, <1>4

LEMMA LaunchTypes ==
    ASSUME SessTypes, NEW l \in Launches, Launching(l)
    PROVE  SessTypes'
  <1> USE SessionsAssumption, LaunchNumbers, RowsAt
          DEF SessTypes, SessTypeOK, Quiet, Holders, Steps, To, launchVars,
              aliveVars, exitVars, serverVars
  <1>1. CASE Start(l)          BY <1>1 DEF Start
  <1>2. CASE Claimed(l)        BY <1>2 DEF Claimed, Take
  <1>3. CASE ClaimRejected(l)  BY <1>3 DEF ClaimRejected
  <1>4. ASSUME NEW m \in Launches, Relaunch(l, m)
        PROVE  SessTypes'
    BY <1>4 DEF Relaunch
  <1>5. CASE MintFails(l)      BY <1>5 DEF MintFails, Fails
  <1>6. CASE Spawn(l)          BY <1>6 DEF Spawn
  <1>7. CASE TakeOver(l)
    <2>1. proc' \in [Launches -> {"none", "runs", "dying", "gone"}]
      BY <1>7, EndedProc DEF TakeOver, Ended
    <2> QED BY <1>7, <2>1 DEF TakeOver
  <1>8. CASE Decline(l)        BY <1>8 DEF Decline, Fails
  <1>9. CASE GatePasses(l)     BY <1>9 DEF GatePasses, StartKeepAlive
  <1>10. CASE LaunchFails(l)   BY <1>10 DEF LaunchFails, Fails
  <1> QED BY <1>1, <1>2, <1>3, <1>4, <1>5, <1>6, <1>7, <1>8, <1>9, <1>10
          DEF Launching

LEMMA EndTypes ==
    ASSUME SessTypes,
           CloseWindow \/ SourceStops
             \/ \E l \in Launches : Exits(l) \/ HandleExit(l)
    PROVE  SessTypes'
  <1> USE SessionsAssumption, LaunchNumbers, RowsAt, RowParts
          DEF SessTypes, SessTypeOK, Quiet, Holders, Steps, launchVars,
              aliveVars, exitVars, serverVars
  <1>1. CASE CloseWindow
    <2>1. proc' \in [Launches -> {"none", "runs", "dying", "gone"}]
      BY <1>1, EndedProc DEF CloseWindow, Ended
    <2> QED BY <1>1, <2>1 DEF CloseWindow
  <1>2. CASE SourceStops  BY <1>2 DEF SourceStops, Sources
  <1>3. ASSUME NEW l \in Launches, Exits(l)
        PROVE  SessTypes'
    BY <1>3 DEF Exits, ClearSession
  <1>4. ASSUME NEW l \in Launches, HandleExit(l)
        PROVE  SessTypes'
    <2>1. believed' \in [Rows -> Holders]
      BY <1>4 DEF HandleExit, Refreshed
    <2>2. armed' \subseteq Rows /\ timer' \in [Rows -> 0..KeepAlive]
      BY <1>4 DEF HandleExit, Disarmed
    <2>3. prompts' \subseteq Tasks
      BY <1>4 DEF HandleExit
    <2> QED BY <1>4, <2>1, <2>2, <2>3 DEF HandleExit
  <1> QED BY <1>1, <1>2, <1>3, <1>4

LEMMA RenewTypes ==
    ASSUME SessTypes, NEW r \in Rows, Renewing(r)
    PROVE  SessTypes'
  <1> USE SessionsAssumption, RowParts
          DEF SessTypes, SessTypeOK, Quiet, Holders, StopKeepAlive,
              launchVars, aliveVars, exitVars, serverVars
  <1>1. CASE RenewDue(r)      BY <1>1 DEF RenewDue
  <1>2. CASE Renewed(r)       BY <1>2 DEF Renewed, Take
  <1>3. CASE RenewRefused(r)  BY <1>3 DEF RenewRefused, Refreshed
  <1>4. CASE RenewLost(r)     BY <1>4 DEF RenewLost
  <1> QED BY <1>1, <1>2, <1>3, <1>4 DEF Renewing

LEMMA TickTypes ==
    ASSUME SessTypes, Tick
    PROVE  SessTypes'
  <1> USE SessionsAssumption DEF SessTypes, SessTypeOK, Tick
  <1>1. holder' \in [Tasks -> Holders]
    BY DEF Holders
  <1>2. age' \in [Tasks -> 0..Ttl] /\ \A t \in Tasks : age'[t] < Ttl
    BY <1>1 DEF Lapsing
  <1>3. timer' \in [Rows -> 0..KeepAlive]
    BY DEF Settled
  <1> QED BY <1>1, <1>2, <1>3 DEF Quiet, launchVars, aliveVars, exitVars

LEMMA NextTypes == SessTypes /\ [Next]_vars => SessTypes'
  <1> SUFFICES ASSUME SessTypes, [Next]_vars PROVE SessTypes'
    OBVIOUS
  <1>1. CASE UNCHANGED vars
    BY <1>1 DEF SessTypes, SessTypeOK, vars, serverVars, launchVars, aliveVars,
         exitVars
  <1> QED BY <1>1, ServerTypes, LaunchTypes, EndTypes, RenewTypes, TickTypes
          DEF Next

\* Every state is well typed: an age stays below the time a claim lapses, a
\* timer never passes its period.
THEOREM SessionTypes == Spec => []SessTypeOK
  <1>1. SessTypes => SessTypeOK
    BY DEF SessTypes
  <1> QED BY <1>1, InitTypes, NextTypes, PTL DEF Spec

LEMMA TypesInv == Spec => []SessTypes
  BY InitTypes, NextTypes, PTL DEF Spec

-----------------------------------------------------------------------------
(* What a step does to the launches.                                       *)

\* Everything but the steps of a launch, its end and the window leaves them.
LaunchStep(l) == Launching(l) \/ Exits(l)

LEMMA StepCases ==
    ASSUME [Next]_vars
    PROVE  \/ UNCHANGED <<launchVars, registered>>
           \/ CloseWindow
           \/ \E l \in Launches : LaunchStep(l)
  <1> USE DEF vars, serverVars, launchVars, aliveVars, exitVars
  <1>1. ASSUME NEW t \in Tasks,
               Elsewhere(t) \/ Polled(t) \/ ClaimOnly(t) \/ Release(t)
        PROVE  UNCHANGED <<launchVars, registered>>
    BY <1>1 DEF Elsewhere, Polled, ClaimOnly, Release
  <1>2. ASSUME NEW l \in Launches, HandleExit(l)
        PROVE  UNCHANGED <<launchVars, registered>>
    BY <1>2 DEF HandleExit
  <1>3. ASSUME NEW r \in Rows, Renewing(r)
        PROVE  UNCHANGED <<launchVars, registered>>
    BY <1>3 DEF Renewing, RenewDue, Renewed, RenewRefused, RenewLost
  <1>4. CASE SourceStops \/ Tick
    BY <1>4 DEF SourceStops, Tick
  <1>5. CASE UNCHANGED vars
    BY <1>5
  <1> QED BY <1>1, <1>2, <1>3, <1>4, <1>5 DEF Next, LaunchStep

(***************************************************************************)
(* The registry.                                                           *)

LEMMA InitRegistry == Init => RegistryTrue
  BY DEF Init, RegistryTrue

LEMMA StepRegistry ==
    ASSUME SessTypes, RegistryTrue, NEW l \in Launches, LaunchStep(l)
    PROVE  RegistryTrue'
  <1> USE DEF SessTypes, SessTypeOK, RegistryTrue, To
  <1>1. CASE Start(l)          BY <1>1 DEF Start, IsNext
  <1>2. CASE Claimed(l)        BY <1>2 DEF Claimed
  <1>3. CASE ClaimRejected(l)  BY <1>3 DEF ClaimRejected
  <1>4. ASSUME NEW m \in Launches, Relaunch(l, m)
        PROVE  RegistryTrue'
    BY <1>4 DEF Relaunch, IsNext
  <1>5. CASE MintFails(l)      BY <1>5 DEF MintFails, Fails
  <1>6. CASE Spawn(l)          BY <1>6 DEF Spawn
  <1>7. CASE TakeOver(l)
    <2>1. \A k \in Launches : proc'[k] = "gone" <=> proc[k] = "gone"
      BY <1>7, EndedProc DEF TakeOver, Ended
    <2> QED BY <1>7, <2>1 DEF TakeOver
  <1>8. CASE Decline(l)        BY <1>8 DEF Decline, Fails
  <1>9. CASE GatePasses(l)     BY <1>9 DEF GatePasses
  <1>10. CASE LaunchFails(l)   BY <1>10 DEF LaunchFails, Fails
  <1>11. CASE Exits(l)         BY <1>11 DEF Exits, ClearSession
  <1> QED BY <1>1, <1>2, <1>3, <1>4, <1>5, <1>6, <1>7, <1>8, <1>9, <1>10, <1>11
          DEF LaunchStep, Launching

LEMMA CloseRegistry ==
    ASSUME SessTypes, RegistryTrue, CloseWindow
    PROVE  RegistryTrue'
  <1>1. \A k \in Launches : proc'[k] = "gone" <=> proc[k] = "gone"
    BY EndedProc DEF CloseWindow, Ended, SessTypes
  <1> QED BY <1>1 DEF CloseWindow, RegistryTrue

\* The registry has exactly the sessions past their gate whose exit has not
\* happened: no order of gate, exit, takeover and refusal leaves a dead one in
\* it or a live one out.
THEOREM RegistryIsTrue == Spec => []RegistryTrue
  <1>1. SessTypes /\ RegistryTrue /\ [Next]_vars => RegistryTrue'
    <2>1. ASSUME RegistryTrue, UNCHANGED <<launchVars, registered>>
          PROVE  RegistryTrue'
      BY <2>1 DEF RegistryTrue, launchVars
    <2> QED BY <2>1, StepCases, StepRegistry, CloseRegistry
  <1> QED BY <1>1, InitRegistry, TypesInv, PTL DEF Spec

(***************************************************************************)
(* The operator window.                                                    *)

\* A dialog is about the session the window shows, and there is one dialog.
Windows ==
    /\ NotStranded
    /\ \A l \in Launches : step[l] = "ask" => asked[l] = hosted
    /\ \A k, l \in Launches : step[k] = "ask" /\ step[l] = "ask" => k = l

LEMMA InitWindows == Init => Windows
  BY DEF Init, Windows, NotStranded

LEMMA StepWindows ==
    ASSUME ~Crowded, SessTypes, Windows, NEW l \in Launches, LaunchStep(l)
    PROVE  Windows'
  <1> USE DEF SessTypes, SessTypeOK, Windows, NotStranded, To
  <1>1. CASE Start(l)          BY <1>1 DEF Start, IsNext
  <1>2. CASE Claimed(l)        BY <1>2 DEF Claimed
  <1>3. CASE ClaimRejected(l)  BY <1>3 DEF ClaimRejected
  <1>4. ASSUME NEW m \in Launches, Relaunch(l, m)
        PROVE  Windows'
    BY <1>4 DEF Relaunch, IsNext
  <1>5. CASE MintFails(l)      BY <1>5 DEF MintFails, Fails
  <1>6. CASE Spawn(l)
    <2>1. \A k \in Launches : step[k] # "ask"
      BY <1>6 DEF Spawn
    <2>2. CASE Conflict(l) /\ asked' = [asked EXCEPT ![l] = hosted]
                 /\ step' = [step EXCEPT ![l] = "ask"] /\ UNCHANGED hosted
      BY <1>6, <2>1, <2>2 DEF Spawn
    <2>3. CASE ~Conflict(l) /\ hosted' = l
                 /\ step' = [step EXCEPT ![l] = "gate"] /\ UNCHANGED asked
      <3>1. \A k \in Launches : proc[k] # "runs"
        BY <2>1, <2>3, LaunchNumbers DEF Conflict, Running
      <3> QED BY <1>6, <2>1, <2>3, <3>1 DEF Spawn
    <2> QED BY <1>6, <2>2, <2>3 DEF Spawn
  <1>7. CASE TakeOver(l)
    <2>1. \A k \in Launches : proc'[k] = "runs" => proc[k] = "runs" /\ k # hosted
      BY <1>7, EndedProc DEF TakeOver, Ended
    <2> QED BY <1>7, <2>1 DEF TakeOver
  <1>8. CASE Decline(l)        BY <1>8 DEF Decline, Fails
  <1>9. CASE GatePasses(l)     BY <1>9 DEF GatePasses
  <1>10. CASE LaunchFails(l)   BY <1>10 DEF LaunchFails, Fails
  <1>11. CASE Exits(l)         BY <1>11 DEF Exits
  <1> QED BY <1>1, <1>2, <1>3, <1>4, <1>5, <1>6, <1>7, <1>8, <1>9, <1>10, <1>11
          DEF LaunchStep, Launching

LEMMA CloseWindows ==
    ASSUME SessTypes, Windows, CloseWindow
    PROVE  Windows'
  <1>1. \A k \in Launches : proc'[k] = "runs" => proc[k] = "runs" /\ k # hosted
    BY EndedProc DEF CloseWindow, Ended, SessTypes
  <1> QED BY <1>1 DEF CloseWindow, Windows, NotStranded

\* As long as no launch reaches the window while another one's takeover dialog
\* is open, every running session is the one the window shows, or asks for it.
THEOREM NobodyStranded ==
    ASSUME ~Crowded
    PROVE  Spec => []NotStranded
  <1>1. SessTypes /\ Windows /\ [Next]_vars => Windows'
    <2>1. ASSUME Windows, UNCHANGED <<launchVars, registered>>
          PROVE  Windows'
      BY <2>1 DEF Windows, NotStranded, launchVars
    <2> QED BY <2>1, StepCases, StepWindows, CloseWindows
  <1>2. Windows => NotStranded
    BY DEF Windows
  <1> QED BY <1>1, <1>2, InitWindows, TypesInv, PTL DEF Spec

-----------------------------------------------------------------------------
(* The renewals.                                                           *)

clockVars == <<holder, age, armed, timer, renewing, late>>

LEMMA InitRenewed == Init => RenewedInTime
  BY DEF Init, RenewedInTime

LEMMA ClaimRenewed ==
    ASSUME SessTypes, RenewedInTime, NEW t \in Tasks,
           Elsewhere(t) \/ Polled(t) \/ ClaimOnly(t) \/ Release(t)
    PROVE  RenewedInTime'
  <1> USE RowParts, RowsAt DEF SessTypes, SessTypeOK, RenewedInTime, serverVars, aliveVars
  <1>1. CASE Elsewhere(t)  BY <1>1 DEF Elsewhere, Lose
  <1>2. CASE Polled(t)     BY <1>2 DEF Polled
  <1>3. CASE ClaimOnly(t)  BY <1>3 DEF ClaimOnly, Take
  <1>4. CASE Release(t)    BY <1>4 DEF Release, Lose
  <1> QED BY <1>1, <1>2, <1>3, <1>4

LEMMA LaunchRenewed ==
    ASSUME SessTypes, RenewedInTime, NEW l \in Launches, LaunchStep(l)
    PROVE  RenewedInTime'
  <1> USE RowParts, RowsAt DEF SessTypes, SessTypeOK, RenewedInTime, serverVars, aliveVars
  <1>1. CASE Claimed(l)     BY <1>1 DEF Claimed, Take
  <1>2. CASE GatePasses(l)  BY <1>2 DEF GatePasses, StartKeepAlive
  <1>3. CASE UNCHANGED clockVars
    BY <1>3 DEF clockVars
  <1> QED BY <1>1, <1>2, <1>3
          DEF LaunchStep, Launching, Start, ClaimRejected, Relaunch, MintFails,
              Spawn, TakeOver, Decline, LaunchFails, Exits, clockVars

LEMMA RenewRenewed ==
    ASSUME SessTypes, RenewedInTime, NEW r \in Rows, Renewing(r)
    PROVE  RenewedInTime'
  <1> USE RowParts DEF SessTypes, SessTypeOK, RenewedInTime, serverVars, StopKeepAlive
  <1>1. CASE RenewDue(r)      BY <1>1 DEF RenewDue
  <1>2. CASE Renewed(r)       BY <1>2 DEF Renewed, Take
  <1>3. CASE RenewRefused(r)  BY <1>3 DEF RenewRefused, Refreshed
  <1>4. CASE RenewLost(r)     BY <1>4 DEF RenewLost
  <1> QED BY <1>1, <1>2, <1>3, <1>4 DEF Renewing

\* A claim whose timer was armed with it and whose renewals were answered is
\* never older than its timer, and so never lapses (KeepAlive < Ttl).
THEOREM RenewalsInTime == Spec => []RenewedInTime
  <1>1. ASSUME SessTypes, RenewedInTime, [Next]_vars
        PROVE  RenewedInTime'
    <2> USE <1>1, RowParts
           DEF SessTypes, SessTypeOK, RenewedInTime, serverVars, aliveVars
    <2>1. ASSUME NEW l \in Launches, HandleExit(l)
          PROVE  RenewedInTime'
      BY <2>1 DEF HandleExit, Disarmed
    <2>2. CASE SourceStops  BY <2>2 DEF SourceStops
    <2>3. CASE CloseWindow  BY <2>3 DEF CloseWindow
    <2>4. CASE Tick         BY <2>4 DEF Tick
    <2>5. CASE UNCHANGED vars
      BY <2>5 DEF vars
    <2> HIDE DEF RenewedInTime
    <2> QED BY <2>1, <2>2, <2>3, <2>4, <2>5, ClaimRenewed, LaunchRenewed,
               RenewRenewed DEF Next, LaunchStep
  <1> QED BY <1>1, InitRenewed, TypesInv, PTL DEF Spec

-----------------------------------------------------------------------------
(* Relaunches.                                                             *)

\* What has begun, and what has ended.
Begun ==
    \A l \in Launches :
        /\ step[l] \in {"free", "claim", "mint"} => proc[l] = "none"
        /\ step[l] \in {"ask", "gate", "up"} => proc[l] # "none"
        /\ l \in exits => proc[l] = "gone"

\* A session is replaced once; it stays "up" and does not run any more.
Replaced ==
    /\ \A l \in Launches : step[l] \in {"free", "claim"} => old[l] = 0
    /\ \A l \in Launches : old[l] # 0 =>
          /\ old[l] \in Launches /\ task[old[l]] = task[l]
          /\ step[old[l]] = "up" /\ proc[old[l]] \in {"dying", "gone"}
    /\ \A k, l \in Launches : old[k] = old[l] /\ old[l] # 0 => k = l

\* The mark outlives the exit of the session that is replaced.
Marked ==
    \A l, m \in Launches :
        Continues(l, m) /\ (proc[m] # "gone" \/ m \in exits)
            => At(m) \in relaunching

Relaunches == Begun /\ Replaced /\ Marked

LEMMA InitRelaunches == Init => Relaunches
  BY LaunchNumbers DEF Init, Relaunches, Begun, Replaced, Marked, Continues

LEMMA StepBegun ==
    ASSUME SessTypes, Begun, NEW l \in Launches, LaunchStep(l)
    PROVE  Begun'
  <1> USE DEF SessTypes, SessTypeOK, Begun, To, exitVars
  <1>1. CASE Start(l)          BY <1>1 DEF Start, IsNext
  <1>2. CASE Claimed(l)        BY <1>2 DEF Claimed
  <1>3. CASE ClaimRejected(l)  BY <1>3 DEF ClaimRejected
  <1>4. ASSUME NEW m \in Launches, Relaunch(l, m)
        PROVE  Begun'
    BY <1>4 DEF Relaunch, IsNext
  <1>5. CASE MintFails(l)      BY <1>5 DEF MintFails, Fails
  <1>6. CASE Spawn(l)          BY <1>6 DEF Spawn
  <1>7. CASE TakeOver(l)
    <2>1. \A k \in Launches : proc[k] \in {"none", "gone"}
                                 \/ proc'[k] \in {"none", "gone"}
                              => proc'[k] = proc[k]
      BY <1>7, EndedProc DEF TakeOver, Ended
    <2> QED BY <1>7, <2>1 DEF TakeOver
  <1>8. CASE Decline(l)        BY <1>8 DEF Decline, Fails
  <1>9. CASE GatePasses(l)     BY <1>9 DEF GatePasses
  <1>10. CASE LaunchFails(l)   BY <1>10 DEF LaunchFails, Fails
  <1>11. CASE Exits(l)         BY <1>11 DEF Exits
  <1> QED BY <1>1, <1>2, <1>3, <1>4, <1>5, <1>6, <1>7, <1>8, <1>9, <1>10, <1>11
          DEF LaunchStep, Launching

LEMMA StepReplaced ==
    ASSUME SessTypes, Begun, Replaced, NEW l \in Launches, LaunchStep(l)
    PROVE  Replaced'
  <1> USE LaunchNumbers DEF SessTypes, SessTypeOK, Begun, Replaced, To
  <1>1. CASE Start(l)          BY <1>1 DEF Start, IsNext
  <1>2. CASE Claimed(l)        BY <1>2 DEF Claimed
  <1>3. CASE ClaimRejected(l)  BY <1>3 DEF ClaimRejected
  <1>4. ASSUME NEW m \in Launches, Relaunch(l, m)
        PROVE  Replaced'
    <2>1. old' = [old EXCEPT ![l] = m] /\ old[l] = 0 /\ l # m
      BY <1>4 DEF Relaunch, IsNext
    <2>2. step' = [step EXCEPT ![l] = "mint"] /\ step[l] = "free"
      BY <1>4 DEF Relaunch, IsNext
    <2>3. proc'[m] \in {"dying", "gone"}
      BY <1>4, EndedProc DEF Relaunch, Ended
    <2>4. \A k \in Launches : proc[k] \in {"dying", "gone"} => proc'[k] = proc[k]
      BY <1>4, EndedProc DEF Relaunch, Ended
    <2> QED BY <1>4, <2>1, <2>2, <2>3, <2>4 DEF Relaunch
  <1>5. CASE MintFails(l)      BY <1>5 DEF MintFails, Fails
  <1>6. CASE Spawn(l)          BY <1>6 DEF Spawn
  <1>7. CASE TakeOver(l)
    <2>1. \A k \in Launches : proc[k] \in {"dying", "gone"} => proc'[k] = proc[k]
      BY <1>7, EndedProc DEF TakeOver, Ended
    <2> QED BY <1>7, <2>1 DEF TakeOver
  <1>8. CASE Decline(l)        BY <1>8 DEF Decline, Fails
  <1>9. CASE GatePasses(l)     BY <1>9 DEF GatePasses
  <1>10. CASE LaunchFails(l)   BY <1>10 DEF LaunchFails, Fails
  <1>11. CASE Exits(l)         BY <1>11 DEF Exits
  <1> QED BY <1>1, <1>2, <1>3, <1>4, <1>5, <1>6, <1>7, <1>8, <1>9, <1>10, <1>11
          DEF LaunchStep, Launching

\* A relaunch that goes on was going on before, but for the one that begins.
LEMMA ContinuesBefore ==
    ASSUME SessTypes, Begun, Replaced, NEW k \in Launches, LaunchStep(k),
           NEW l \in Launches, NEW m \in Launches, Continues(l, m)',
           ~(k = l /\ Relaunch(k, m))
    PROVE  Continues(l, m)
  <1> USE LaunchNumbers
      DEF SessTypes, SessTypeOK, Begun, Replaced, Continues, Live, To
  <1>1. CASE Start(k)          BY <1>1 DEF Start, IsNext
  <1>2. CASE Claimed(k)        BY <1>2 DEF Claimed
  <1>3. CASE ClaimRejected(k)  BY <1>3 DEF ClaimRejected
  <1>4. ASSUME NEW n \in Launches, Relaunch(k, n)
        PROVE  Continues(l, m)
    <2>1. \A j \in Launches :
             /\ (proc'[j] # "gone" => proc[j] # "gone")
             /\ (proc'[j] = "runs" => proc[j] = "runs")
             /\ (proc'[j] = "none" => proc[j] = "none")
      BY <1>4, EndedProc DEF Relaunch, Ended
    <2>2. old' = [old EXCEPT ![k] = n] /\ step' = [step EXCEPT ![k] = "mint"]
      BY <1>4 DEF Relaunch
    <2>3. k # l
      <3>1. old'[k] = n
        BY <2>2
      <3> QED BY <1>4, <3>1
    <2> QED BY <1>4, <2>1, <2>2, <2>3 DEF Relaunch
  <1>5. CASE MintFails(k)      BY <1>5 DEF MintFails, Fails
  <1>6. CASE Spawn(k)          BY <1>6 DEF Spawn
  <1>7. CASE TakeOver(k)
    <2>1. \A j \in Launches :
             /\ (proc'[j] # "gone" => proc[j] # "gone")
             /\ (proc'[j] = "runs" => proc[j] = "runs")
             /\ (proc'[j] = "none" => proc[j] = "none")
      BY <1>7, EndedProc DEF TakeOver, Ended
    <2> QED BY <1>7, <2>1 DEF TakeOver
  <1>8. CASE Decline(k)        BY <1>8 DEF Decline, Fails
  <1>9. CASE GatePasses(k)     BY <1>9 DEF GatePasses
  <1>10. CASE LaunchFails(k)   BY <1>10 DEF LaunchFails, Fails
  <1>11. CASE Exits(k)         BY <1>11 DEF Exits
  <1> QED BY <1>1, <1>2, <1>3, <1>4, <1>5, <1>6, <1>7, <1>8, <1>9, <1>10, <1>11
          DEF LaunchStep, Launching

\* No other relaunch of the task is under way, whose failure could take the
\* mark away.
LEMMA OnlyRelaunch ==
    ASSUME SessTypes, Begun, Replaced,
           NEW k \in Launches, NEW l \in Launches, NEW m \in Launches,
           Continues(l, m), k # l, step[k] # "up", old[k] # 0
    PROVE  task[k] # task[m]
  <1> USE DEF SessTypes, SessTypeOK, Begun, Replaced
  <1>1. old[l] = m /\ m # 0
    BY LaunchNumbers DEF Continues
  <1>2. old[k] # m /\ old[k] # l
    BY <1>1 DEF Continues, Live
  <1>3. old[k] \in Launches \ {l, m} /\ proc[old[k]] # "none"
    BY <1>2
  <1> QED BY <1>3 DEF Continues

LEMMA StepMarked ==
    ASSUME SessTypes, Relaunches, NEW k \in Launches, LaunchStep(k)
    PROVE  Marked'
  <1> SUFFICES ASSUME NEW l \in Launches, NEW m \in Launches,
                      Continues(l, m)', (proc[m] # "gone" \/ m \in exits)'
               PROVE  (At(m) \in relaunching)'
    BY DEF Marked
  <1> USE DEF Relaunches, To, exitVars
  <1>1. CASE k = l /\ Relaunch(k, m)
    <2>1. source' = [source EXCEPT ![l] = current] /\ source'[l] = source'[m]
      BY <1>1 DEF Relaunch, Continues
    <2>2. source'[m] = current
      BY <2>1 DEF SessTypes, SessTypeOK
    <2> QED BY <1>1, <2>2 DEF Relaunch, At, Here
  <1>2. CASE ~(k = l /\ Relaunch(k, m))
    <2>1. Continues(l, m)
      BY <1>2, ContinuesBefore
    <2>2. proc[m] # "gone" \/ m \in exits
      <3>1. CASE Exits(k)
        BY <3>1 DEF Exits, SessTypes, SessTypeOK
      <3>2. CASE TakeOver(k)
        BY <3>2, EndedProc DEF TakeOver, Ended, SessTypes
      <3>3. ASSUME NEW n \in Launches, Relaunch(k, n)
            PROVE  proc[m] # "gone" \/ m \in exits
        BY <3>3, EndedProc DEF Relaunch, Ended, SessTypes
      <3>4. CASE Spawn(k)
        BY <3>4 DEF Spawn, Begun, SessTypes, SessTypeOK
      <3>5. CASE Decline(k)
        BY <3>5 DEF Decline, SessTypes, SessTypeOK
      <3> QED BY <3>1, <3>2, <3>3, <3>4, <3>5
              DEF LaunchStep, Launching, Start, Claimed, ClaimRejected,
                  MintFails, GatePasses, LaunchFails
    <2>3. At(m) \in relaunching
      BY <2>1, <2>2 DEF Marked
    <2>4. At(m)' = At(m)
      <3>1. CASE UNCHANGED <<source, task>>
        BY <3>1 DEF At
      <3>2. CASE /\ source' = [source EXCEPT ![k] = current] /\ task' = task
                 /\ step[k] = "free"
        <4>1. m # k /\ m \in Launches
          BY <2>1, <3>2, LaunchNumbers DEF Continues, Replaced
        <4> QED BY <3>2, <4>1 DEF At, SessTypes, SessTypeOK
      <3> QED BY <3>1, <3>2
              DEF LaunchStep, Launching, Start, Claimed, ClaimRejected, Relaunch,
                  MintFails, Spawn, TakeOver, Decline, GatePasses, LaunchFails,
                  Exits, IsNext
    <2>5. ASSUME step[k] # "up", Fails(k)
          PROVE  (At(m) \in relaunching)'
      <3>1. k # l
        BY <2>5 DEF Fails, Continues, Live, SessTypes, SessTypeOK
      <3>2. At(k) = At(m) => task[k] = task[m]
        BY DEF At
      <3> QED BY <2>1, <2>3, <2>5, <2>4, <3>1, <3>2, OnlyRelaunch DEF Fails
    <2>6. CASE UNCHANGED relaunching \/ \E n \in Launches : Relaunch(k, n)
      BY <2>3, <2>6, <2>4 DEF Relaunch
    <2> QED BY <2>5, <2>6
            DEF LaunchStep, Launching, Start, Claimed, ClaimRejected, MintFails,
                Spawn, TakeOver, Decline, GatePasses, LaunchFails, Exits
  <1> QED BY <1>1, <1>2

\* The exit that consumes the mark is that of the session that was replaced.
LEMMA ExitMarked ==
    ASSUME SessTypes, Relaunches, NEW k \in Launches, HandleExit(k)
    PROVE  Marked'
  <1> SUFFICES ASSUME NEW l \in Launches, NEW m \in Launches,
                      Continues(l, m)', (proc[m] # "gone" \/ m \in exits)'
               PROVE  (At(m) \in relaunching)'
    BY DEF Marked
  <1>1. Continues(l, m) /\ task' = task /\ proc' = proc
    BY DEF HandleExit, launchVars, Continues, Live
  <1>2. proc[k] = "gone" /\ k # m
    BY <1>1 DEF HandleExit, Relaunches, Begun
  <1>3. task[k] # task[m]
    BY <1>1, <1>2 DEF Continues, Live
  <1>4. At(m) \in relaunching
    BY <1>1 DEF HandleExit, Relaunches, Marked
  <1>5. At(k) # At(m) /\ At(m)' = At(m)
    BY <1>3 DEF HandleExit, launchVars, At
  <1> QED BY <1>4, <1>5 DEF HandleExit

\* Closing the window ends a session's shell, and moves nothing else on.
LEMMA CloseRelaunches ==
    ASSUME SessTypes, Relaunches, CloseWindow
    PROVE  Relaunches'
  <1>1. UNCHANGED <<step, source, task, old, relaunching, exits>>
    BY DEF CloseWindow, exitVars
  <1>2. \A k \in Launches :
           /\ proc[k] \in {"none", "gone"} \/ proc'[k] \in {"none", "gone"}
                => proc'[k] = proc[k]
           /\ proc[k] = "dying" => proc'[k] = "dying"
           /\ proc'[k] = "runs" => proc[k] = "runs"
    BY EndedProc DEF CloseWindow, Ended, SessTypes
  <1>3. Begun'
    BY <1>1, <1>2 DEF Relaunches, Begun
  <1>4. Replaced'
    BY <1>1, <1>2 DEF Relaunches, Replaced
  <1>5. ASSUME NEW l \in Launches, NEW m \in Launches, Continues(l, m)'
        PROVE  Continues(l, m)
    BY <1>1, <1>2, <1>5 DEF Continues, Live
  <1>6. Marked'
    BY <1>1, <1>2, <1>5 DEF Relaunches, Marked, At
  <1> QED BY <1>3, <1>4, <1>6 DEF Relaunches

LEMMA NextRelaunches == SessTypes /\ Relaunches /\ [Next]_vars => Relaunches'
  <1> SUFFICES ASSUME SessTypes, Relaunches, [Next]_vars PROVE Relaunches'
    OBVIOUS
  <1>1. ASSUME NEW l \in Launches, LaunchStep(l)
        PROVE  Relaunches'
    BY <1>1, StepBegun, StepReplaced, StepMarked DEF Relaunches
  <1>2. ASSUME NEW l \in Launches, HandleExit(l)
        PROVE  Relaunches'
    <2>1. UNCHANGED launchVars /\ exits' \subseteq exits
      BY <1>2 DEF HandleExit
    <2>2. Begun' /\ Replaced'
      BY <2>1 DEF Relaunches, Begun, Replaced, launchVars
    <2> QED BY <1>2, <2>2, ExitMarked DEF Relaunches
  <1>3. CASE UNCHANGED <<launchVars, exitVars>>
    BY <1>3 DEF Relaunches, Begun, Replaced, Marked, Continues, Live, At,
         launchVars, exitVars
  <1>4. ASSUME NEW t \in Tasks,
               Elsewhere(t) \/ Polled(t) \/ ClaimOnly(t) \/ Release(t)
        PROVE  UNCHANGED <<launchVars, exitVars>>
    BY <1>4 DEF Elsewhere, Polled, ClaimOnly, Release
  <1>5. ASSUME NEW r \in Rows, Renewing(r)
        PROVE  UNCHANGED <<launchVars, exitVars>>
    BY <1>5 DEF Renewing, RenewDue, Renewed, RenewRefused, RenewLost
  <1>6. CASE SourceStops \/ Tick \/ UNCHANGED vars
    BY <1>3, <1>6 DEF SourceStops, Tick, vars
  <1> QED BY <1>1, <1>2, <1>3, <1>4, <1>5, <1>6, CloseRelaunches
          DEF Next, LaunchStep

\* The exit of the session a living relaunch replaces finds the mark.
LEMMA ExitSwallowed ==
    ASSUME SessTypes, Relaunches, NEW k \in Launches, HandleExit(k),
           NEW l \in Launches, Continues(l, k)
    PROVE  prompts' = {} /\ armed' = armed
  <1>1. k \in exits
    BY DEF HandleExit
  <1>2. At(k) \in relaunching
    BY <1>1 DEF Relaunches, Marked
  <1> QED BY <1>2 DEF HandleExit, Swallowed, Quiet

\* Only its refresh settles an exit.
LEMMA ExitsSettle ==
    ASSUME SessTypes, [Next]_vars, NEW m \in exits \ exits'
    PROVE  HandleExit(m)
  <1> USE DEF vars, exitVars
  <1>1. ASSUME NEW l \in Launches, HandleExit(l)
        PROVE  m = l
    BY <1>1 DEF HandleExit
  <1>2. ASSUME NEW l \in Launches, Launching(l) \/ Exits(l)
        PROVE  exits \subseteq exits'
    BY <1>2 DEF Launching, Start, Claimed, ClaimRejected, Relaunch, MintFails,
         Spawn, TakeOver, Decline, GatePasses, LaunchFails, Exits
  <1>3. ASSUME NEW t \in Tasks,
               Elsewhere(t) \/ Polled(t) \/ ClaimOnly(t) \/ Release(t)
        PROVE  exits' = exits
    BY <1>3 DEF Elsewhere, Polled, ClaimOnly, Release
  <1>4. ASSUME NEW r \in Rows, Renewing(r)
        PROVE  exits' = exits
    BY <1>4 DEF Renewing, RenewDue, Renewed, RenewRefused, RenewLost
  <1>5. CASE SourceStops \/ Tick \/ CloseWindow \/ UNCHANGED vars
    BY <1>5 DEF SourceStops, Tick, CloseWindow
  <1> QED BY <1>1, <1>2, <1>3, <1>4, <1>5 DEF Next

\* While a relaunch by the source that launched the session is under way, or
\* its own session lives, the exit of the session it replaces prompts nobody,
\* in whatever order the two refreshes are answered and though that source is
\* dropped before.
THEOREM SilentRelaunch == Spec => RelaunchIsSilent
  <1>1. ASSUME SessTypes, Relaunches, [Next]_vars,
               NEW l \in Launches, NEW m \in exits \ exits', Continues(l, m)
        PROVE  prompts' = {}
    <2>1. m \in Launches
      BY <1>1 DEF SessTypes, SessTypeOK
    <2> QED BY <1>1, <2>1, ExitsSettle, ExitSwallowed
  <1>2. SessTypes /\ Relaunches /\ [Next]_vars
          => [\A l \in Launches, m \in exits \ exits' :
                 Continues(l, m) => prompts' = {}]_vars
    BY <1>1
  <1> QED BY <1>2, InitRelaunches, NextRelaunches, TypesInv, PTL
          DEF Spec, RelaunchIsSilent

\* Every step that disarms the renewals of a live session's task.
LEMMA WhoDisarms ==
    ASSUME SessTypes, Relaunches, [Next]_vars,
           NEW l \in Launches, Live(l), At(l) \in armed \ armed'
    PROVE  \/ holder[task[l]] # "me" \/ believed[At(l)] # "me"
           \/ SourceStops /\ source[l] = current
           \/ \E m \in exits \ exits' :
                  m # l /\ At(m) = At(l) /\ ~Continues(l, m)
  <1> USE DEF vars, aliveVars
  <1>1. ASSUME NEW k \in Launches, HandleExit(k)
        PROVE  \E m \in exits \ exits' :
                  m # l /\ At(m) = At(l) /\ ~Continues(l, m)
    <2>1. k \in exits \ exits'
      BY <1>1 DEF HandleExit
    <2>2. k # l
      BY <2>1 DEF Relaunches, Begun, Live
    <2>3. ~Continues(l, k)
      BY <1>1, ExitSwallowed
    <2>4. At(k) = At(l)
      BY <1>1 DEF HandleExit, Disarmed
    <2> QED BY <2>1, <2>2, <2>3, <2>4
  <1>2. ASSUME NEW r \in Rows, Renewing(r)
        PROVE  holder[task[l]] # "me" \/ believed[At(l)] # "me"
    <2>1. ASSUME armed' = armed \ {r}
          PROVE  At(l) = r /\ task[l] = r[2]
      BY <2>1 DEF At
    <2> QED BY <1>2, <2>1
            DEF Renewing, RenewDue, Renewed, RenewRefused, RenewLost, StopKeepAlive
  <1>3. ASSUME NEW k \in Launches, Launching(k) \/ Exits(k)
        PROVE  armed \subseteq armed'
    BY <1>3 DEF Launching, Start, Claimed, ClaimRejected, Relaunch, MintFails,
         Spawn, TakeOver, Decline, GatePasses, LaunchFails, Exits, StartKeepAlive
  <1>4. ASSUME NEW t \in Tasks,
               Elsewhere(t) \/ Polled(t) \/ ClaimOnly(t) \/ Release(t)
        PROVE  armed' = armed
    BY <1>4 DEF Elsewhere, Polled, ClaimOnly, Release
  <1>5. CASE SourceStops
    <2>1. At(l)[1] = source[l]
      BY DEF At
    <2> QED BY <1>5, <2>1 DEF SourceStops
  <1>6. CASE Tick \/ CloseWindow \/ UNCHANGED vars
    BY <1>6 DEF Tick, CloseWindow
  <1> QED BY <1>1, <1>2, <1>3, <1>4, <1>5, <1>6 DEF Next

\* While a session lives and its task is mine, its renewals stop for nothing
\* but the end of its source or of another session of its task and source
\* which it does not replace.
THEOREM RenewalsKept == Spec => KeepAliveKept
  <1>1. SessTypes /\ Relaunches /\ [Next]_vars
          => [\A l \in Launches :
                 Live(l) /\ At(l) \in armed \ armed'
                   => \/ holder[task[l]] # "me" \/ believed[At(l)] # "me"
                      \/ SourceStops /\ source[l] = current
                      \/ \E m \in exits \ exits' :
                            m # l /\ At(m) = At(l) /\ ~Continues(l, m)]_vars
    BY WhoDisarms
  <1> QED BY <1>1, InitRelaunches, NextRelaunches, TypesInv, PTL
          DEF Spec, KeepAliveKept

=============================================================================
