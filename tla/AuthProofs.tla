---------------------------- MODULE AuthProofs ----------------------------
(***************************************************************************)
(* Proofs about Auth, for every set of accounts and any number of          *)
(* refreshes and stream clients.  The state falls into two halves that     *)
(* only meet in Notify: the session with its refreshes and file, and the   *)
(* task source with its stream clients.                                    *)
(***************************************************************************)
EXTENDS Auth, TLAPS

LEMMA Numbers ==
    /\ Refreshes \subseteq 0..MaxRefreshes /\ 0 \notin Refreshes
    /\ Clients \subseteq 0..MaxClients /\ 0 \notin Clients
  BY AuthAssumption DEF Refreshes, Clients

-----------------------------------------------------------------------------
(* The source and its clients.                                             *)

SourceTypes ==
    /\ source \in Maybe(Accounts) /\ client \in 0..MaxClients
    /\ conn \in [Clients -> Conns] /\ waits \in [Clients -> 0..MaxRefreshes]
    /\ halted \subseteq Clients /\ armed \subseteq Clients \ halted
    /\ behind \in BOOLEAN

\* Every client but the source's own was stopped; without a source there is
\* none.
Stopped ==
    /\ source = None <=> client = 0
    /\ halted = Clients \ {client}
    /\ StoppedStaysDown

SourceInv == SourceTypes /\ Stopped

LEMMA NotifyStep ==
    ASSUME SourceInv, NEW acct \in Maybe(Accounts), Notify(acct)
    PROVE  SourceInv' /\ (source' = None <=> acct = None)
  <1> USE DEF SourceInv, SourceTypes, Stopped, StoppedStaysDown, Maybe
  <1>1. ASSUME acct # None, source = None, NEW c \in Clients, Register(acct, c)
        PROVE  SourceInv' /\ source' # None
    <2>1. /\ source' = acct /\ client' = c /\ halted' = halted \ {c}
          /\ conn[c] = "none" /\ conn' = [conn EXCEPT ![c] = "wait"]
          /\ behind' = TRUE /\ UNCHANGED <<waits, armed>>
      BY <1>1 DEF Register
    <2>2. conn' \in [Clients -> Conns]
      BY <2>1 DEF Conns
    <2>3. StoppedStaysDown'
      BY <1>1, <2>1, Numbers
    <2> QED BY <1>1, <2>1, <2>2, <2>3, Numbers
  <1>2. ASSUME source # None, Unregister
        PROVE  SourceInv' /\ source' = None
    <2>1. /\ source' = None /\ client' = 0 /\ halted' = halted \union {client}
          /\ armed' = armed \ {client} /\ behind' = FALSE /\ UNCHANGED waits
      BY <1>2 DEF Unregister, Halt, TimerCleared
    <2>2. client \in Clients
      BY <1>2 DEF Clients
    <2>3. /\ conn' \in [Clients -> Conns]
          /\ \A c \in Clients \ {client} : conn'[c] = conn[c]
          /\ conn'[client] \in {"none", "token", "torn"}
      BY <1>2, <2>2 DEF Unregister, Conns
    <2>4. halted' = Clients /\ armed' = {}
      BY <1>2, <2>1, <2>2
    <2>5. StoppedStaysDown'
      BY <2>1, <2>2, <2>3
    <2>6. Stopped'
      BY <2>1, <2>4, <2>5, Numbers
    <2>7. SourceTypes'
      <3>1. halted' \subseteq Clients /\ armed' \subseteq Clients \ halted'
        BY <2>4
      <3>2. source' \in Maybe(Accounts) /\ client' \in 0..MaxClients
        BY <2>1, AuthAssumption
      <3>3. waits' \in [Clients -> 0..MaxRefreshes] /\ behind' \in BOOLEAN
        BY <2>1
      <3> QED BY <2>3, <3>1, <3>2, <3>3
    <2> QED BY <2>1, <2>6, <2>7
  <1>3. ASSUME UNCHANGED <<sourceVars, pullVars>>
        PROVE  SourceInv'
    BY <1>3 DEF sourceVars, pullVars
  <1> QED BY <1>1, <1>2, <1>3 DEF Notify, sourceVars

LEMMA WokenStep ==
    ASSUME SourceInv, NEW r, Woken(r), UNCHANGED <<source, client, halted, pullVars>>
    PROVE  SourceInv'
  <1> USE DEF SourceInv, SourceTypes, Stopped, StoppedStaysDown
  <1>1. \A c \in Clients :
           conn'[c] \in IF waits[c] # r THEN {conn[c]}
                        ELSE IF c \in halted THEN {"none"} ELSE {"fetch", "wait"}
    BY DEF Woken
  <1>2. conn' \in [Clients -> Conns] /\ waits' \in [Clients -> 0..MaxRefreshes]
    <2>1. conn' = [c \in Clients |-> conn'[c]]
      BY DEF Woken
    <2> QED BY <1>1, <2>1, AuthAssumption DEF Woken, Conns
  <1> QED BY <1>1, <1>2 DEF pullVars

LEMMA StreamStep ==
    ASSUME SourceInv, inFlight \in 0..MaxRefreshes, NEW c \in Clients, Streaming(c)
    PROVE  SourceInv'
  <1> USE DEF SourceInv, SourceTypes, Stopped, StoppedStaysDown, sourceVars, pullVars
  <1>1. CASE Connect(c)
    <2>1. conn[c] = "wait" /\ c = client
      BY <1>1 DEF Connect
    <2>2. \E s \in {"fetch", "token"} : conn' = [conn EXCEPT ![c] = s]
      BY <1>1 DEF Connect
    <2>3. waits' \in [Clients -> 0..MaxRefreshes]
      BY <1>1, Numbers DEF Connect
    <2>4. UNCHANGED <<source, client, halted, armed, behind>>
      BY <1>1 DEF Connect
    <2> QED BY <2>1, <2>2, <2>3, <2>4 DEF Conns
  <1>2. CASE Opened(c)
    BY <1>2 DEF Opened, Resync, Conns
  <1>3. CASE Dropped(c)
    BY <1>3 DEF Dropped, Conns
  <1>4. CASE Signal(c)
    BY <1>4 DEF Signal
  <1> QED BY <1>1, <1>2, <1>3, <1>4 DEF Streaming

LEMMA ServerStep ==
    ASSUME SourceInv, ServerChanges
    PROVE  SourceInv'
  BY DEF ServerChanges, SourceInv, SourceTypes, Stopped, StoppedStaysDown, sourceVars

-----------------------------------------------------------------------------
(* The session, its refreshes and the file.                                *)

LoginTypes ==
    /\ session \in Maybe(Accounts) /\ stale \in BOOLEAN
    /\ stored \in Maybe(Accounts) /\ rotated \in BOOLEAN
    /\ unsaved \in BOOLEAN
    /\ step \in [Refreshes -> {"free", "sent", "clear", "save", "ends"}]
    /\ who \in [Refreshes -> Maybe(Accounts)] /\ good \in [Refreshes -> BOOLEAN]
    /\ inFlight \in 0..MaxRefreshes /\ restoring \in 0..MaxRefreshes
    /\ shown \in BOOLEAN
    /\ coming \subseteq Accounts /\ saving \subseteq Accounts
    /\ leaving \in BOOLEAN /\ crossed \in BOOLEAN

Busy == {r \in Refreshes : step[r] # "free"}

Flags ==
    /\ stale => session # None
    /\ inFlight # 0 => step[inFlight] # "free"
    /\ restoring # 0 => step[restoring] # "free"
    /\ inFlight = restoring => inFlight = 0

\* One of a refresh, a sign-in and a sign-out is under way.
Alone ==
    /\ leaving => session = None /\ saving = {}
    /\ saving # {} => saving = {session} /\ ~stale
    /\ saving # {} \/ leaving => Busy = {}
    /\ \A q, r \in Busy : q = r

Saving == saving # {} \/ \E r \in Refreshes : step[r] = "save"

\* The file has the session's token unless it is being written, or could not
\* be.
Kept ==
    /\ rotated => session # None /\ (Saving \/ unsaved)
    /\ session # None /\ ~Saving /\ ~unsaved => stored = session

\* What each point of a refresh knows, of the session, of the file and, when it
\* is the one of restoreSession(), of the source.
RefreshSound(r) ==
    /\ r \in {inFlight, restoring}
    /\ step[r] = "sent" =>
          /\ who[r] # None /\ ~good[r]
          /\ r = inFlight => session = who[r] /\ stale
          /\ r = restoring => session = None /\ stored = who[r]
    /\ step[r] = "save" => session = who[r] /\ who[r] # None /\ good[r] /\ ~stale
    /\ step[r] = "clear" => session = None /\ ~good[r]
    /\ step[r] = "ends" /\ good[r] => session # None /\ ~stale
    /\ r = restoring => source = None /\ (session # None => good[r])
    /\ r = inFlight /\ step[r] # "clear" => (source = None <=> session = None)

Followed == Busy = {} /\ saving = {} /\ ~leaving => (source = None <=> session = None)

Sound == Flags /\ Alone /\ Kept /\ Followed /\ \A r \in Busy : RefreshSound(r)

Unused == \A r \in Refreshes : step[r] = "free" => ~good[r]

LoginInv == LoginTypes /\ Unused /\ (~crossed => Sound)

\* Without a crossing nothing is under way when a refresh starts.
LEMMA NothingElse ==
    ASSUME LoginTypes, Sound, session # None, stale, inFlight = 0
    PROVE  Busy = {} /\ saving = {} /\ ~leaving
  <1>1. saving = {} /\ ~leaving
    BY DEF Sound, Alone
  <1>2. ASSUME NEW r \in Busy PROVE FALSE
    <2>1. RefreshSound(r) /\ r = restoring /\ r # inFlight
      BY Numbers DEF Sound, Busy, RefreshSound
    <2>2. step[r] \in {"sent", "clear", "save", "ends"}
      BY DEF Busy, LoginTypes
    <2> QED BY <2>1, <2>2 DEF RefreshSound
  <1> QED BY <1>1, <1>2

LEMMA StartsStep ==
    ASSUME LoginInv, NEW r \in Refreshes, session # None, stale, inFlight = 0,
           Starts(r, session), inFlight' = r,
           UNCHANGED <<sessionVars, good, restoring, userVars, source>>
    PROVE  LoginInv'
  <1> USE DEF LoginInv, sessionVars, fileVars, userVars
  <1>1. LoginTypes'
    BY Numbers DEF Starts, LoginTypes, Maybe
  <1>2. Unused' /\ ~good[r]
    BY DEF Starts, Unused, LoginTypes
  <1>3. ASSUME ~crossed
        PROVE  Sound'
    <2>1. Sound /\ Busy = {} /\ saving = {} /\ ~leaving
      BY <1>3, NothingElse
    <2>2. \A q \in Refreshes : step'[q] = IF q = r THEN "sent" ELSE "free"
      BY <2>1 DEF Starts, LoginTypes, Busy
    <2>3. who'[r] = session
      BY DEF Starts, LoginTypes
    <2>4. restoring = 0
      BY <2>1 DEF Sound, Flags, Busy, LoginTypes, Refreshes
    <2>5. Busy' = {r}
      BY <2>2 DEF Busy
    <2>6. (unsaved \/ (stored = session /\ ~rotated)) /\ source # None
      BY <2>1 DEF Sound, Kept, Saving, Busy, Followed
    <2>7. Flags' /\ Alone' /\ Kept' /\ Followed'
      BY <2>1, <2>2, <2>4, <2>5, <2>6, Numbers
         DEF Flags, Alone, Kept, Saving, Followed
    <2>8. RefreshSound(r)'
      BY <1>2, <2>2, <2>3, <2>4, <2>6, Numbers DEF RefreshSound
    <2> QED BY <2>5, <2>7, <2>8 DEF Sound
  <1> QED BY <1>1, <1>2, <1>3

\* The steps of one refresh.
LEMMA RefreshStep ==
    ASSUME LoginInv, SourceInv, NEW r \in Refreshes, Refreshing(r)
    PROVE  LoginInv'
  <1> USE DEF LoginInv, sessionVars, fileVars, userVars, refreshVars,
              sourceVars, pullVars
  <1>1. r \in Busy /\ crossed' = crossed
    BY DEF Refreshing, RefreshOk, RefreshRefused, RefreshLost, Saved, Cleared,
           Ends, Restored, Busy
  <1>2. LoginTypes'
    <2> USE DEF LoginTypes, Maybe, To
    <2>1. CASE RefreshOk(r) \/ RefreshRefused(r) \/ RefreshLost(r)
      BY <2>1 DEF RefreshOk, RefreshRefused, RefreshLost
    <2>2. CASE Saved(r) \/ Cleared(r)
      BY <2>2 DEF Saved, SavesToken, Persist, Cleared, Clear, RefusedNotified, Notify
    <2>3. CASE Ends(r) \/ Restored(r)
      <3>1. /\ step' = [step EXCEPT ![r] = "free"]
            /\ who' = [who EXCEPT ![r] = None] /\ good' = [good EXCEPT ![r] = FALSE]
        BY <2>3 DEF Ends, Restored, Freed
      <3>2. inFlight' \in {0, inFlight} /\ restoring' \in {0, restoring}
            /\ UNCHANGED <<session, stale, stored, rotated, unsaved, coming, saving,
                           leaving, crossed>>
        BY <2>3 DEF Ends, Restored
      <3>3. shown' \in {shown, TRUE, FALSE}
        BY <2>3 DEF Ends, Restored, Notify
      <3>4. 0 \in 0..MaxRefreshes
        BY AuthAssumption
      <3> QED BY <3>1, <3>2, <3>3, <3>4
    <2> QED BY <2>1, <2>2, <2>3 DEF Refreshing
  <1>3. Unused'
    BY DEF LoginTypes, Unused, To, Refreshing, RefreshOk, RefreshRefused,
           RefreshLost, Saved, SavesToken, Persist, Cleared, Clear, Ends, Restored, Freed
  <1>4. ASSUME ~crossed
        PROVE  Sound'
    <2>1. /\ Sound /\ RefreshSound(r) /\ Busy = {r} /\ saving = {} /\ ~leaving
          /\ \A q \in Refreshes \ {r} : step[q] = "free"
      BY <1>1, <1>4 DEF Sound, Alone, Busy
    <2>2. inFlight \in {0, r} /\ restoring \in {0, r} /\ (inFlight = 0 \/ restoring = 0)
      BY <2>1 DEF Sound, Flags, LoginTypes, Refreshes
    <2>3. UNCHANGED <<saving, leaving>>
      BY DEF Refreshing, RefreshOk, RefreshRefused, RefreshLost, Saved, Cleared,
             Ends, Restored
    <2>4. ASSUME \A q \in Refreshes \ {r} : step'[q] = "free",
                 step'[r] # "free", Flags', Kept', RefreshSound(r)'
          PROVE  Sound'
      BY <2>1, <2>3, <2>4 DEF Sound, Alone, Followed, Busy
    <2> USE DEF LoginTypes, To, Flags, Kept, Saving, RefreshSound
    <2>5. CASE RefreshOk(r)
      <3>1. \/ step' = [step EXCEPT ![r] = "save"] /\ rotated' = TRUE
            \/ step' = [step EXCEPT ![r] = "ends"] /\ rotated' = rotated
        BY <2>5 DEF RefreshOk
      <3>2. /\ session' = who[r] /\ stale' = FALSE /\ good' = [good EXCEPT ![r] = TRUE]
            /\ step[r] = "sent" /\ UNCHANGED <<stored, unsaved, who, inFlight, restoring, source>>
        BY <2>5 DEF RefreshOk
      <3>3. Flags' /\ Kept'
        <4>1. session' # None
          BY <2>1, <3>2
        <4>2. step'[r] = "save" \/ (step'[r] = "ends" /\ rotated' = rotated)
          BY <3>1
        <4>3. unsaved \/ stored = session'
          BY <2>1, <2>2, <3>2, Numbers DEF Sound
        <4>4. unsaved \/ ~rotated
          BY <2>1, <3>2 DEF Sound
        <4>5. Flags'
          BY <2>2, <3>2, <4>1, <4>2
        <4>6. rotated' => Saving' \/ unsaved'
          BY <3>2, <4>2, <4>4
        <4> QED BY <3>2, <4>1, <4>3, <4>5, <4>6
      <3>4. RefreshSound(r)'
        BY <2>1, <2>2, <3>1, <3>2, Numbers
      <3> QED BY <2>4, <2>1, <3>1, <3>3, <3>4
    <2>6. CASE RefreshRefused(r)
      BY <2>1, <2>2, <2>3, <2>4, <2>6, Numbers DEF RefreshRefused, Sound
    <2>7. CASE RefreshLost(r)
      BY <2>1, <2>2, <2>3, <2>4, <2>7, Numbers DEF RefreshLost, Sound
    <2>8. CASE Saved(r)
      BY <2>1, <2>2, <2>3, <2>4, <2>8, Numbers DEF Saved, SavesToken, Persist, Sound
    <2>9. CASE Cleared(r)
      <3>1. source' = None
        BY <2>1, <2>9, NotifyStep DEF Cleared, RefusedNotified, Maybe
      <3> QED BY <2>1, <2>2, <2>3, <2>4, <2>9, <3>1, Numbers DEF Cleared, Clear, Sound
    <2>10. CASE Ends(r) \/ Restored(r)
      <3>1. \A q \in Refreshes : step'[q] = "free"
        BY <2>1, <2>10 DEF Ends, Restored, Freed
      <3>2. inFlight' = 0 /\ restoring' = 0
        BY <2>1, <2>2, <2>10, Numbers DEF Ends, Restored
      <3>3. source' = None <=> session' = None
        BY <2>1, <2>2, <2>10, NotifyStep DEF Ends, Restored
      <3>4. UNCHANGED sessionVars /\ step[r] = "ends"
        BY <2>10 DEF Ends, Restored
      <3>5. Busy' = {}
        BY <3>1 DEF Busy
      <3> QED BY <2>1, <2>2, <2>3, <3>1, <3>2, <3>3, <3>4, <3>5, Numbers
              DEF Sound, Alone, Followed
    <2> QED BY <2>5, <2>6, <2>7, <2>8, <2>9, <2>10 DEF Refreshing
  <1> QED BY <1>1, <1>2, <1>3, <1>4

\* A process that has just begun has no source.
NoSource ==
    /\ source = None /\ client = 0 /\ behind = FALSE
    /\ conn = [c \in Clients |-> "none"] /\ waits = [c \in Clients |-> 0]
    /\ halted = Clients /\ armed = {}

LEMMA NoSourceInv == NoSource => SourceInv
  <1> SUFFICES ASSUME NoSource PROVE SourceInv
    OBVIOUS
  <1> USE DEF NoSource
  <1>1. 0 \in 0..MaxRefreshes /\ 0 \in 0..MaxClients
    BY AuthAssumption
  <1>2. SourceTypes
    BY <1>1 DEF SourceTypes, Maybe, Conns
  <1>3. Stopped
    BY Numbers DEF Stopped, StoppedStaysDown
  <1> QED BY <1>2, <1>3 DEF SourceInv

\* The user's steps, and the writes to the file that they wait for.
LEMMA UserStep ==
    ASSUME LoginInv, SourceInv,
           Expire \/ SignOut \/ SignedOut
             \/ \E a \in Accounts : Submit(a) \/ SignIn(a) \/ SignInFails(a)
                                      \/ SignInSaved(a)
    PROVE  LoginInv'
  <1> USE DEF LoginInv, sessionVars, fileVars, userVars, refreshVars,
              sourceVars, pullVars
  <1>1. UNCHANGED <<step, who, good, restoring>> /\ inFlight' \in {0, inFlight}
    BY DEF Expire, SignOut, SignedOut, Submit, SignIn, SignInFails, SignInSaved
  <1>2. LoginTypes'
    <2>1. 0 \in 0..MaxRefreshes
      BY AuthAssumption
    <2> USE DEF LoginTypes, Maybe
    <2>2. CASE Expire \/ SignOut \/ SignedOut
      BY <1>1, <2>1, <2>2 DEF Expire, SignOut, SignedOut, Clear, Notify
    <2>3. CASE \E a \in Accounts : Submit(a) \/ SignIn(a) \/ SignInFails(a)
      BY <1>1, <2>3 DEF Submit, SignIn, SignInFails
    <2>4. CASE \E a \in Accounts : SignInSaved(a)
      BY <1>1, <2>4 DEF SignInSaved, Persist, Notify
    <2> QED BY <2>2, <2>3, <2>4
  <1>3. Unused'
    BY <1>1 DEF Unused
  <1>4. ASSUME UNCHANGED <<session, stale, stored, rotated, unsaved, saving,
                           leaving, inFlight, source>>,
               crossed' = crossed
        PROVE  LoginInv'
    BY <1>1, <1>2, <1>3, <1>4
       DEF Sound, Flags, Alone, Kept, Saving, Followed, RefreshSound, Busy
  <1>5. ASSUME ~crossed, Sound, saving = {}, ~leaving, Busy = {}
        PROVE  inFlight = 0 /\ restoring = 0
    BY <1>5, Numbers DEF Sound, Flags, Busy, LoginTypes, Refreshes
  <1>6. CASE Expire
    BY <1>1, <1>2, <1>3, <1>6
       DEF Expire, UnderWay, Sound, Flags, Alone, Kept, Saving, Followed, Busy
  <1>7. CASE SignOut
    <2>1. ASSUME ~crossed'
          PROVE  Sound'
      <3>1. ~crossed /\ Busy = {} /\ saving = {}
        BY <1>7, <2>1 DEF SignOut, UnderWay, Busy
      <3> QED BY <1>1, <1>5, <1>7, <3>1
              DEF SignOut, Sound, Flags, Alone, Kept, Saving, Followed, Busy
    <2> QED BY <1>2, <1>3, <2>1
  <1>8. ASSUME NEW a \in Accounts, SignIn(a)
        PROVE  LoginInv'
    <2>1. ASSUME ~crossed'
          PROVE  Sound'
      <3>1. ~crossed /\ Busy = {} /\ saving = {} /\ ~leaving
        BY <1>8, <2>1 DEF SignIn, UnderWay, Busy
      <3>2. a # None
        BY AuthAssumption
      <3> QED BY <1>1, <1>5, <1>8, <3>1, <3>2
              DEF SignIn, Sound, Flags, Alone, Kept, Saving, Followed, Busy
    <2> QED BY <1>2, <1>3, <2>1
  <1>9. ASSUME SignedOut \/ \E a \in Accounts : SignInSaved(a)
        PROVE  LoginInv'
    <2>1. (source' = None <=> session = None) /\ UNCHANGED <<session, stale>>
      BY <1>9, NotifyStep DEF SignedOut, SignInSaved, LoginTypes
    <2>2. ASSUME ~crossed'
          PROVE  Sound'
      <3>1. ~crossed /\ Sound /\ Busy = {} /\ inFlight' = inFlight
        BY <1>9, <2>2 DEF SignedOut, SignInSaved, Sound, Alone
      <3>2. Flags' /\ Busy' = {}
        BY <1>1, <2>1, <3>1 DEF Sound, Flags, Busy
      <3>3. Kept' /\ saving' = {} /\ ~leaving'
        BY <1>1, <1>9, <2>1, <3>1
           DEF SignedOut, Clear, SignInSaved, Persist, Sound, Alone, Kept,
               Saving, Busy
      <3> QED BY <2>1, <3>2, <3>3 DEF Sound, Alone, Followed
    <2> QED BY <1>2, <1>3, <2>2
  <1>10. CASE \E a \in Accounts : Submit(a) \/ SignInFails(a)
    BY <1>4, <1>10 DEF Submit, SignInFails
  <1> QED BY <1>6, <1>7, <1>8, <1>9, <1>10

LEMMA RestartStep ==
    ASSUME LoginInv, Restart
    PROVE  LoginInv' /\ SourceInv'
  <1>1. LoginTypes' /\ Unused'
    <2>1. 0 \in 0..MaxRefreshes /\ 1 \in 0..MaxRefreshes
      BY AuthAssumption
    <2>2. /\ step' \in [Refreshes -> {"free", "sent", "clear", "save", "ends"}]
          /\ who' \in [Refreshes -> Maybe(Accounts)]
          /\ good' \in [Refreshes -> BOOLEAN]
      BY DEF Restart, LoginInv, LoginTypes, Maybe
    <2> QED BY <2>1, <2>2 DEF Restart, LoginInv, LoginTypes, Unused, Maybe
  <1>2. SourceInv'
    <2>1. NoSource'
      BY DEF Restart, NoSource
    <2> QED BY <2>1, NoSourceInv, PTL
  <1>3. PICK acct \in {stored, None} :
           /\ step' = [r \in Refreshes |->
                         IF r = 1 /\ acct # None THEN "sent" ELSE "free"]
           /\ who' = [r \in Refreshes |-> IF r = 1 THEN acct ELSE None]
           /\ restoring' = IF acct # None THEN 1 ELSE 0
    BY DEF Restart
  <1>4. Busy' = IF acct # None THEN {1} ELSE {}
    BY <1>3, AuthAssumption DEF Busy, Refreshes
  <1>5. Sound'
    BY <1>3, <1>4, AuthAssumption
       DEF Restart, Sound, Flags, Alone, Kept, Saving, Followed, RefreshSound,
           Refreshes
  <1> QED BY <1>1, <1>2, <1>5 DEF LoginInv

-----------------------------------------------------------------------------
(* The theorems.                                                           *)

AuthInv == SourceInv /\ LoginInv

LEMMA InitAuth == Init => AuthInv
  <1> SUFFICES ASSUME Init PROVE AuthInv
    OBVIOUS
  <1>1. SourceInv
    BY NoSourceInv DEF Init, NoSource
  <1>2. LoginTypes /\ Unused
    <2>1. 0 \in 0..MaxRefreshes
      BY AuthAssumption
    <2> QED BY <2>1 DEF Init, LoginTypes, Unused, Maybe
  <1>3. Sound
    BY DEF Init, Sound, Flags, Alone, Kept, Saving, Followed, Busy
  <1> QED BY <1>1, <1>2, <1>3 DEF AuthInv, LoginInv

LEMMA StepAuth == AuthInv /\ [Next]_vars => AuthInv'
  <1> SUFFICES ASSUME AuthInv, [Next]_vars PROVE AuthInv'
    OBVIOUS
  <1> USE DEF AuthInv, sessionVars, fileVars, userVars, refreshVars, sourceVars, pullVars
  <1>1. ASSUME UNCHANGED <<sourceVars, pullVars>>
        PROVE  SourceInv'
    BY <1>1 DEF SourceInv, SourceTypes, Stopped, StoppedStaysDown
  <1>2. ASSUME UNCHANGED <<sessionVars, refreshVars, userVars, source>>
        PROVE  LoginInv'
    BY <1>2 DEF LoginInv, LoginTypes, Unused, Sound, Flags, Alone, Kept, Saving,
         Followed, RefreshSound, Busy
  <1>3. ASSUME NEW r \in Refreshes, Refreshing(r)
        PROVE  AuthInv'
    <2>1. CASE Ends(r)
      BY <1>3, <2>1, RefreshStep, WokenStep DEF Ends
    <2>2. CASE Cleared(r) \/ Restored(r)
      <3>1. SourceInv' \/ UNCHANGED <<sourceVars, pullVars>>
        BY <2>2, NotifyStep DEF Cleared, RefusedNotified, Restored, LoginInv, LoginTypes
      <3> QED BY <1>1, <1>3, <3>1, RefreshStep
    <2>3. CASE UNCHANGED <<sourceVars, pullVars>>
      BY <1>1, <1>3, <2>3, RefreshStep
    <2> QED BY <1>3, <2>1, <2>2, <2>3
            DEF Refreshing, RefreshOk, RefreshRefused, RefreshLost, Saved
  <1>4. ASSUME NEW r \in Refreshes, RequestToken(r)
        PROVE  AuthInv'
    BY <1>1, <1>4, StartsStep DEF RequestToken, NoneInFlight
  <1>5. CASE Expire \/ SignOut \/ \E a \in Accounts :
                Submit(a) \/ SignIn(a) \/ SignInFails(a)
    <2>1. UNCHANGED <<sourceVars, pullVars>>
      BY <1>5 DEF Expire, SignOut, Submit, SignIn, SignInFails
    <2> QED BY <1>1, <1>5, <2>1, UserStep
  <1>6. CASE SignedOut \/ \E a \in Accounts : SignInSaved(a)
    <2>1. SourceInv'
      BY <1>6, NotifyStep DEF SignedOut, SignInSaved, LoginInv, LoginTypes
    <2> QED BY <1>6, <2>1, UserStep
  <1>7. CASE Restart
    BY <1>7, RestartStep
  <1>8. ASSUME NEW c \in Clients, Streaming(c)
        PROVE  AuthInv'
    <2>1. SourceInv'
      BY <1>8, StreamStep DEF LoginInv, LoginTypes
    <2>2. CASE \E r \in Refreshes :
                  /\ session # None /\ stale /\ NoneInFlight
                  /\ Starts(r, session) /\ inFlight' = r
                  /\ UNCHANGED <<sessionVars, good, restoring, userVars, source>>
      BY <2>1, <2>2, StartsStep DEF NoneInFlight
    <2>3. CASE UNCHANGED <<sessionVars, refreshVars, userVars, source>>
      BY <1>2, <2>1, <2>3
    <2> QED BY <1>8, <2>2, <2>3 DEF Streaming, Connect, Opened, Dropped, Signal
  <1>9. CASE ServerChanges
    BY <1>2, <1>9, ServerStep DEF ServerChanges
  <1>10. CASE UNCHANGED vars
    BY <1>1, <1>2, <1>10 DEF vars
  <1> QED BY <1>3, <1>4, <1>5, <1>6, <1>7, <1>8, <1>9, <1>10
          DEF Next, Using, Entering

LEMMA AuthInvariant == Spec => []AuthInv
  BY InitAuth, StepAuth, PTL DEF Spec

\* Every state is well typed; no stopped client has a debounce timer running.
THEOREM AuthTypes == Spec => []AuthTypeOK
  <1>1. AuthInv => AuthTypeOK
    BY DEF AuthInv, SourceInv, SourceTypes, LoginInv, LoginTypes, AuthTypeOK
  <1> QED BY <1>1, AuthInvariant, PTL

\* A stream client that was stopped ends, wherever it was in connect(): even
\* the one whose getToken() returns after the stop.
THEOREM ClientsStayDown == Spec => []StoppedStaysDown
  <1>1. AuthInv => StoppedStaysDown
    BY DEF AuthInv, SourceInv, Stopped
  <1> QED BY <1>1, AuthInvariant, PTL

\* Wherever no sign-in or sign-out crossed a refresh or a write of the file,
\* there is a source exactly when there is a session: every path that ends or
\* begins a session notifies.
THEOREM SourceFollowsSession == Spec => []SourceFollows
  <1>1. AuthInv => SourceFollows
    BY DEF AuthInv, LoginInv, Sound, Followed, SourceFollows, Quiet, Busy
  <1> QED BY <1>1, AuthInvariant, PTL

\* And the file has the session's own, latest refresh token.
THEOREM FileFollowsSession == Spec => []StoredFollows
  <1>1. AuthInv => StoredFollows
    BY DEF AuthInv, LoginInv, Sound, Kept, Saving, StoredFollows, Quiet
  <1> QED BY <1>1, AuthInvariant, PTL

-----------------------------------------------------------------------------
(* The stream.                                                             *)

\* What a client awaits is a refresh that goes on, and not that of
\* restoreSession(), which wakes nobody.
Awaited ==
    /\ \A c \in Clients : conn[c] = "token" <=> waits[c] # 0
    /\ \A c \in Clients : waits[c] # 0 => step[waits[c]] # "free" /\ waits[c] # restoring
    /\ inFlight # 0 => step[inFlight] # "free" /\ inFlight # restoring
    /\ restoring # 0 => step[restoring] # "free"

\* A source that is behind has a client that does something about it: it will
\* connect, waits for a refresh that goes on, is connecting, or is open with
\* its debounce timer running.
ChangeInHand ==
    behind => /\ client # 0 /\ conn[client] \in {"wait", "token", "fetch", "open"}
              /\ conn[client] = "open" => client \in armed
              /\ conn[client] = "token" => step[waits[client]] # "free"

\* The same without the refreshes: the source's client is at work, behind or not.
InHand ==
    /\ client # 0 => conn[client] \in {"wait", "token", "fetch", "open"}
    /\ behind => client # 0 /\ (conn[client] = "open" => client \in armed)

LEMMA NotifyHand ==
    ASSUME AuthInv, Awaited, InHand, NEW acct, Notify(acct)
    PROVE  /\ InHand'
           /\ \A c \in Clients : conn'[c] = "token" <=> conn[c] = "token"
           /\ waits' = waits
  <1> USE DEF AuthInv, SourceInv, SourceTypes, Stopped
  <1>1. ASSUME NEW c \in Clients, Register(acct, c)
        PROVE  /\ InHand'
               /\ \A d \in Clients : conn'[d] = "token" <=> conn[d] = "token"
               /\ waits' = waits
    BY <1>1, Numbers DEF Register, InHand
  <1>2. ASSUME source # None, Unregister
        PROVE  /\ InHand'
               /\ \A d \in Clients : conn'[d] = "token" <=> conn[d] = "token"
               /\ waits' = waits
    <2>1. client \in Clients
      BY <1>2 DEF Clients
    <2>2. \A d \in Clients : conn'[d] = "token" <=> conn[d] = "token"
      BY <1>2, <2>1 DEF Unregister, Conns
    <2> QED BY <1>2, <2>2 DEF Unregister, InHand
  <1>3. CASE UNCHANGED <<sourceVars, pullVars>>
    BY <1>3 DEF sourceVars, pullVars, InHand
  <1> QED BY <1>1, <1>2, <1>3 DEF Notify

\* A refresh goes on, or ends; those who await it are woken.
LEMMA RefreshHand ==
    ASSUME AuthInv, Awaited, InHand, NEW r \in Refreshes, Refreshing(r)
    PROVE  Awaited' /\ InHand'
  <1> USE DEF AuthInv, LoginInv, LoginTypes, SourceInv, SourceTypes, Stopped,
              refreshVars, userVars, sourceVars, pullVars
  <1>1. ASSUME step[r] # "free", NEW v \in {"clear", "save", "ends"}, To(r, v),
               UNCHANGED <<inFlight, restoring, waits>>,
               \A c \in Clients : conn'[c] = "token" <=> conn[c] = "token"
        PROVE  Awaited'
    <2>1. \A q : step[q] # "free" => step'[q] # "free"
      BY <1>1 DEF To
    <2> QED BY <1>1, <2>1 DEF Awaited
  <1>2. CASE RefreshOk(r) \/ RefreshRefused(r) \/ RefreshLost(r) \/ Saved(r)
    <2>1. /\ step[r] # "free" /\ \E v \in {"clear", "save", "ends"} : To(r, v)
          /\ UNCHANGED <<inFlight, restoring, sourceVars, pullVars>>
      BY <1>2 DEF RefreshOk, RefreshRefused, RefreshLost, Saved
    <2> QED BY <1>1, <2>1 DEF InHand
  <1>3. CASE Cleared(r)
    <2>1. Notify(session) /\ step[r] # "free" /\ To(r, "ends") /\ UNCHANGED <<inFlight, restoring>>
      BY <1>3 DEF Cleared, RefusedNotified
    <2> QED BY <1>1, <2>1, NotifyHand
  <1>4. CASE Ends(r)
    <2>1. /\ step' = [step EXCEPT ![r] = "free"] /\ inFlight' = 0 /\ r # restoring
          /\ Woken(r) /\ UNCHANGED <<restoring, client, halted, armed, behind>>
      BY <1>4 DEF Ends, Freed, To
    <2>2. \A c \in Clients :
             /\ waits[c] # r => conn'[c] = conn[c] /\ waits'[c] = waits[c]
             /\ waits[c] = r => /\ waits'[c] = 0 /\ conn'[c] # "token" /\ conn'[c] # "open"
                                /\ c \notin halted => conn'[c] \in {"fetch", "wait"}
      BY <2>1 DEF Woken
    <2>3. Awaited'
      BY <2>1, <2>2, Numbers DEF Awaited
    <2>4. InHand'
      BY <2>1, <2>2, Numbers DEF InHand, Clients
    <2> QED BY <2>3, <2>4
  <1>5. CASE Restored(r)
    <2>1. /\ step' = [step EXCEPT ![r] = "free"] /\ r = restoring /\ restoring' = 0
          /\ inFlight' = inFlight
      BY <1>5 DEF Restored, Freed, To
    <2>2. /\ InHand' /\ waits' = waits
          /\ \A c \in Clients : conn'[c] = "token" <=> conn[c] = "token"
      BY <1>5, NotifyHand DEF Restored, InHand
    <2>3. Awaited'
      BY <2>1, <2>2, Numbers DEF Awaited
    <2> QED BY <2>2, <2>3
  <1> QED BY <1>2, <1>3, <1>4, <1>5 DEF Refreshing

LEMMA StreamHand ==
    ASSUME AuthInv, Awaited, InHand, NEW c \in Clients, Streaming(c)
    PROVE  Awaited' /\ InHand'
  <1> USE DEF AuthInv, LoginInv, LoginTypes, SourceInv, SourceTypes, Stopped,
              refreshVars, userVars, sourceVars
  <1>1. CASE Connect(c)
    <2>0. conn[c] = "wait" /\ UNCHANGED <<client, armed, behind, restoring>>
      BY <1>1 DEF Connect, pullVars
    <2>1. CASE conn' = [conn EXCEPT ![c] = "fetch"] /\ UNCHANGED <<waits, step, inFlight>>
      BY <2>0, <2>1 DEF Awaited, InHand
    <2>2. CASE /\ inFlight # 0 /\ conn' = [conn EXCEPT ![c] = "token"]
               /\ waits' = [waits EXCEPT ![c] = inFlight] /\ UNCHANGED <<step, inFlight>>
      BY <2>0, <2>2 DEF Awaited, InHand
    <2>3. ASSUME NEW r \in Refreshes, Starts(r, session), inFlight' = r,
                 conn' = [conn EXCEPT ![c] = "token"], waits' = [waits EXCEPT ![c] = r]
          PROVE  Awaited' /\ InHand'
      <3>1. step[r] = "free" /\ step' = [step EXCEPT ![r] = "sent"] /\ r # 0
        BY <2>3, Numbers DEF Starts
      <3>2. r # restoring
        BY <3>1 DEF Awaited
      <3> QED BY <2>0, <2>3, <3>1, <3>2 DEF Awaited, InHand
    <2> QED BY <1>1, <2>1, <2>2, <2>3 DEF Connect, NoneInFlight
  <1>2. CASE Opened(c)
    BY <1>2 DEF Opened, Resync, Awaited, InHand
  <1>3. CASE Dropped(c)
    BY <1>3, Numbers DEF Dropped, Awaited, InHand, pullVars
  <1>4. CASE Signal(c)
    BY <1>4 DEF Signal, Awaited, InHand
  <1> QED BY <1>1, <1>2, <1>3, <1>4 DEF Streaming

LEMMA RequestHand ==
    ASSUME AuthInv, Awaited, InHand, NEW r \in Refreshes, RequestToken(r)
    PROVE  Awaited' /\ InHand'
  <1>1. /\ step[r] = "free" /\ step' = [step EXCEPT ![r] = "sent"] /\ r # 0 /\ inFlight' = r
        /\ UNCHANGED <<restoring, client, conn, waits, armed, behind>>
        /\ step \in [Refreshes -> {"free", "sent", "clear", "save", "ends"}]
    BY Numbers DEF RequestToken, Starts, sourceVars, pullVars, AuthInv, LoginInv, LoginTypes
  <1>2. r # restoring
    BY <1>1 DEF Awaited
  <1> QED BY <1>1, <1>2 DEF Awaited, InHand

LEMMA UserHand ==
    ASSUME AuthInv, Awaited, InHand,
           Expire \/ Using \/ Entering \/ ServerChanges \/ UNCHANGED vars
    PROVE  Awaited' /\ InHand'
  <1> USE DEF sessionVars, refreshVars, userVars, sourceVars, pullVars
  <1>1. ASSUME UNCHANGED <<step, restoring, conn, waits>>, inFlight' \in {0, inFlight}
        PROVE  Awaited'
    BY <1>1 DEF Awaited
  <1>2. ASSUME UNCHANGED <<client, conn, armed, behind>> PROVE InHand'
    BY <1>2 DEF InHand
  <1>3. CASE Expire \/ SignOut \/ UNCHANGED vars
             \/ \E a \in Accounts : Submit(a) \/ SignIn(a) \/ SignInFails(a)
    BY <1>1, <1>2, <1>3 DEF Expire, SignOut, Submit, SignIn, SignInFails, vars
  <1>4. CASE SignedOut \/ \E a \in Accounts : SignInSaved(a)
    <2>1. Notify(session) /\ UNCHANGED <<step, restoring, inFlight>>
      BY <1>4 DEF SignedOut, SignInSaved
    <2> QED BY <2>1, NotifyHand DEF Awaited
  <1>5. CASE Restart
    <2>1. 1 \in Refreshes
      BY AuthAssumption DEF Refreshes
    <2> QED BY <1>5, <2>1 DEF Restart, Awaited, InHand
  <1>6. CASE ServerChanges
    <2>1. client # 0 /\ client \in Clients /\ client \notin halted
      BY <1>6 DEF ServerChanges, AuthInv, SourceInv, SourceTypes, Stopped, Clients
    <2>2. InHand'
      BY <1>6, <2>1 DEF ServerChanges, InHand
    <2> QED BY <1>1, <1>6, <2>2 DEF ServerChanges
  <1> QED BY <1>3, <1>4, <1>5, <1>6 DEF Using, Entering

\* The safety behind StreamCatchesUp: whatever refreshes, sign-ins and dropped
\* connections cross, a source that missed a change is never left with a client
\* that has come to rest, nor with one that waits for a refresh that is over.
THEOREM StreamNeverRests == Spec => []ChangeInHand
  <1> DEFINE Inv == AuthInv /\ Awaited /\ InHand
  <1>1. Init => Inv
    BY InitAuth DEF Init, Awaited, InHand
  <1>2. Inv /\ [Next]_vars => Inv'
    BY StepAuth, RefreshHand, RequestHand, StreamHand, UserHand DEF Next
  <1>3. Inv => ChangeInHand
    BY DEF Awaited, InHand, ChangeInHand, AuthInv, SourceInv, SourceTypes, Clients
  <1> QED BY <1>1, <1>2, <1>3, PTL DEF Spec

=============================================================================
