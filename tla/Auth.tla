------------------------------- MODULE Auth -------------------------------
(***************************************************************************)
(* The TypeBuild session of the desktop app (electron/typebuild/auth.ts,   *)
(* browser-signin.ts): its refreshes, the encrypted token file, sign-in by *)
(* password or in the sign-in window, sign-out and the restore at startup; *)
(* the task source that is registered and dropped with it                  *)
(* (electron/main.ts); and the source's live stream of change signals      *)
(* (electron/sources/typebuild-stream.ts).                                 *)
(*                                                                         *)
(* A session, a stored token and a source are known by their account.      *)
(***************************************************************************)
EXTENDS Naturals, FiniteSets

CONSTANTS
    Accounts,      \* accounts a user signs in with
    None,          \* null
    MaxRefreshes,  \* bound: refreshes under way at once
    MaxClients     \* bound: stream clients that have not ended

ASSUME AuthAssumption ==
    /\ IsFiniteSet(Accounts) /\ None \notin Accounts
    /\ MaxRefreshes \in Nat \ {0}
    /\ MaxClients \in Nat \ {0}

Refreshes == 1..MaxRefreshes
Clients == 1..MaxClients

VARIABLES
    session,   \* whose session is in memory
    stale,     \* its id token has expired, or is about to
    stored,    \* whose refresh token is in the file, as far as it can be read
    rotated,   \* the session's refresh token is newer than the one in the file
    unsaved,   \* history: the last write of the file, or the last removal, failed
    step,      \* of a doRefresh(): "free", "sent", "clear", "save", "ends"
    who,       \* whose token it sent
    good,      \* it ends with a token
    inFlight,  \* refreshInFlight: a refresh, or 0
    restoring, \* the refresh of restoreSession(), or 0
    shown,     \* the state the windows were told last: signed in
    coming,    \* whose sign-ins are on their way: the answer to a password,
               \* the exchange of the code of a sign-in window
    saving,    \* whose sign-ins are being written to the file
    leaving,   \* signOut() waits for the file
    source,    \* the account the registered task source is bound to
    client,    \* its stream client, or 0
    conn,      \* of a client: "none", "wait", "token", "fetch", "open", "torn"
    waits,     \* the refresh a client's getToken() waits for
    halted,    \* stopped clients
    armed,     \* clients whose debounce timer runs
    behind,    \* the server changed after the source's last pull began
    crossed    \* history: a sign-in or sign-out while a refresh or a write
               \* of the file was under way

fileVars == <<stored, rotated, unsaved>>
sessionVars == <<session, stale, fileVars>>
refreshVars == <<step, who, good, inFlight, restoring>>
userVars == <<shown, coming, saving, leaving, crossed>>
sourceVars == <<source, client, conn, waits, halted>>
pullVars == <<armed, behind>>
vars == <<sessionVars, refreshVars, userVars, sourceVars, pullVars>>

Maybe(S) == S \union {None}
Conns == {"none", "wait", "token", "fetch", "open", "torn"}

AuthTypeOK ==
    /\ session \in Maybe(Accounts) /\ stale \in BOOLEAN
    /\ stored \in Maybe(Accounts) /\ rotated \in BOOLEAN
    /\ unsaved \in BOOLEAN
    /\ step \in [Refreshes -> {"free", "sent", "clear", "save", "ends"}]
    /\ who \in [Refreshes -> Maybe(Accounts)] /\ good \in [Refreshes -> BOOLEAN]
    /\ inFlight \in 0..MaxRefreshes /\ restoring \in 0..MaxRefreshes
    /\ shown \in BOOLEAN
    /\ coming \subseteq Accounts /\ saving \subseteq Accounts
    /\ leaving \in BOOLEAN
    /\ source \in Maybe(Accounts) /\ client \in 0..MaxClients
    /\ conn \in [Clients -> Conns] /\ waits \in [Clients -> 0..MaxRefreshes]
    /\ halted \subseteq Clients /\ armed \subseteq Clients \ halted
    /\ behind \in BOOLEAN /\ crossed \in BOOLEAN

Init ==
    /\ session = None /\ stale = FALSE /\ stored = None /\ rotated = FALSE
    /\ unsaved = FALSE
    /\ step = [r \in Refreshes |-> "free"]
    /\ who = [r \in Refreshes |-> None]
    /\ good = [r \in Refreshes |-> FALSE] /\ inFlight = 0 /\ restoring = 0
    /\ shown = FALSE /\ coming = {} /\ saving = {}
    /\ leaving = FALSE /\ source = None /\ client = 0
    /\ conn = [c \in Clients |-> "none"] /\ waits = [c \in Clients |-> 0]
    /\ halted = Clients /\ armed = {} /\ behind = FALSE /\ crossed = FALSE

\* Nothing is under way that will set the session or write the file.
Quiet ==
    /\ \A r \in Refreshes : step[r] = "free"
    /\ coming = {} /\ saving = {} /\ ~leaving

-----------------------------------------------------------------------------
(* The source and its stream follow the state that is notified.            *)

\* Mutated form: stop() only aborts the connection.
AbortOnly(c) == halted

\* stop() marks the client, too.
Halt(c) == halted \union {c}

\* register(): a fresh source, bound to the account, with a fresh client.
Register(acct, c) ==
    /\ conn[c] = "none" /\ \A d \in Clients : conn[d] = "none" => c <= d
    /\ source' = acct /\ client' = c
    /\ conn' = [conn EXCEPT ![c] = "wait"] /\ halted' = halted \ {c}
    /\ behind' = TRUE
    /\ UNCHANGED <<waits, armed>>

\* Mutated form: the debounce timer is left alone.
TimerLeft(c) == armed

TimerCleared(c) == armed \ {c}

\* unregister(): the timers are cleared and the connection is aborted; a
\* getToken() cannot be.
Unregister ==
    /\ source' = None /\ client' = 0
    /\ conn' = [conn EXCEPT ![client] =
                  CASE @ = "wait" -> "none"
                    [] @ \in {"fetch", "open"} -> "torn"
                    [] OTHER -> @]
    /\ halted' = Halt(client) /\ armed' = TimerCleared(client)
    /\ behind' = FALSE
    /\ UNCHANGED waits

\* notify(): the windows are told, and the source is registered or dropped,
\* unless it is already.
Notify(acct) ==
    /\ shown' = (acct # None)
    /\ \/ acct # None /\ source = None /\ \E c \in Clients : Register(acct, c)
       \/ acct = None /\ source # None /\ Unregister
       \/ (acct = None <=> source = None) /\ UNCHANGED <<sourceVars, pullVars>>

-----------------------------------------------------------------------------
(* doRefresh() and getIdToken().                                           *)

Starts(r, acct) ==
    /\ step[r] = "free" /\ \A q \in Refreshes : step[q] = "free" => r <= q
    /\ step' = [step EXCEPT ![r] = "sent"] /\ who' = [who EXCEPT ![r] = acct]

To(r, s) == step' = [step EXCEPT ![r] = s]

\* A rotated token is written to the file, the same one is not.
RefreshOk(r) ==
    /\ step[r] = "sent"
    /\ session' = who[r] /\ stale' = FALSE
    /\ good' = [good EXCEPT ![r] = TRUE]
    /\ \/ To(r, "save") /\ rotated' = TRUE
       \/ To(r, "ends") /\ UNCHANGED rotated
    /\ UNCHANGED <<stored, unsaved, who, inFlight, restoring, userVars,
                   sourceVars, pullVars>>

\* Revoked or disabled: the session is dropped.
RefreshRefused(r) ==
    /\ step[r] = "sent"
    /\ session' = None /\ stale' = FALSE /\ rotated' = FALSE
    /\ To(r, "clear")
    /\ UNCHANGED <<stored, unsaved, who, good, inFlight, restoring, userVars,
                   sourceVars, pullVars>>

\* The request fails: the session stays as it is.
RefreshLost(r) ==
    /\ step[r] = "sent" /\ To(r, "ends")
    /\ UNCHANGED <<sessionVars, who, good, inFlight, restoring, userVars,
                   sourceVars, pullVars>>

\* save(): without a key store the file stays as it is, and a write that fails
\* may leave one that cannot be read; nobody is told of either.
Persist(acct) ==
    \/ stored' = acct /\ rotated' = FALSE /\ unsaved' = FALSE
    \/ stored' \in {stored, None} /\ unsaved' = TRUE /\ UNCHANGED rotated

\* clear(): a removal that fails is swallowed, too.
Clear ==
    \/ stored' = None /\ unsaved' = FALSE
    \/ unsaved' = TRUE /\ UNCHANGED stored

\* Mutated form: a rotated token is kept in memory only.
NotSaved(r) == UNCHANGED fileVars

SavesToken(r) == Persist(who[r])

Saved(r) ==
    /\ step[r] = "save" /\ To(r, "ends")
    /\ SavesToken(r)
    /\ UNCHANGED <<session, stale, who, good, inFlight, restoring, userVars,
                   sourceVars, pullVars>>

\* Mutated form: only an answer without a token notifies.
RefusedQuietly == UNCHANGED <<shown, sourceVars, pullVars>>

RefusedNotified == Notify(session)

Cleared(r) ==
    /\ step[r] = "clear" /\ To(r, "ends")
    /\ Clear
    /\ RefusedNotified
    /\ UNCHANGED <<session, stale, rotated, who, good, inFlight, restoring, coming,
                   saving, leaving, crossed>>

\* The waiting getToken()s get the token, or the failure; a client that was
\* stopped meanwhile does nothing with either.
Woken(r) ==
    /\ conn' = [c \in Clients |->
                  CASE waits[c] # r -> conn[c]
                    [] waits[c] = r /\ c \in halted -> "none"
                    [] waits[c] = r /\ c \notin halted ->
                          IF good[r] THEN "fetch" ELSE "wait"]
    /\ waits' = [c \in Clients |-> IF waits[c] = r THEN 0 ELSE waits[c]]

Freed(r) ==
    /\ To(r, "free")
    /\ who' = [who EXCEPT ![r] = None] /\ good' = [good EXCEPT ![r] = FALSE]

\* The promise settles: finally() resets refreshInFlight, whatever it is by
\* now.
Ends(r) ==
    /\ step[r] = "ends" /\ r # restoring
    /\ Freed(r)
    /\ inFlight' = 0
    /\ Woken(r)
    /\ UNCHANGED <<sessionVars, restoring, userVars, source, client,
                   halted, pullVars>>

\* restoreSession() goes on: a session that was restored is notified.
Restored(r) ==
    /\ step[r] = "ends" /\ r = restoring
    /\ Freed(r) /\ restoring' = 0
    /\ IF good[r] THEN Notify(session) ELSE UNCHANGED <<shown, sourceVars, pullVars>>
    /\ UNCHANGED <<sessionVars, inFlight, coming, saving,
                   leaving, crossed>>

\* if (refreshInFlight) return refreshInFlight
NoneInFlight == inFlight = 0

\* getIdToken() of a request to the server.
RequestToken(r) ==
    /\ session # None /\ stale /\ NoneInFlight
    /\ Starts(r, session) /\ inFlight' = r
    /\ UNCHANGED <<sessionVars, good, restoring, userVars, sourceVars, pullVars>>

UnderWay ==
    \/ \E r \in Refreshes : step[r] # "free"
    \/ saving # {} \/ leaving

\* An hour passes; refreshes, writes and the reconnect delay take seconds.
Expire ==
    /\ session # None /\ ~stale /\ ~UnderWay
    /\ \A c \in Clients : conn[c] # "wait"
    /\ stale' = TRUE
    /\ UNCHANGED <<session, fileVars, refreshVars, userVars, sourceVars, pullVars>>

-----------------------------------------------------------------------------
(* The user.  The panel offers to sign in or out by what it was told.      *)

\* The password is sent, or the sign-in window returned a code.  Cancelling
\* from here on, or starting again, settles the flow's promise and leaves the
\* exchange of the code to itself.
Submit(acct) ==
    /\ ~shown /\ acct \notin coming
    /\ coming' = coming \union {acct}
    /\ UNCHANGED <<sessionVars, refreshVars, shown, saving, leaving, crossed,
                   sourceVars, pullVars>>

\* signIn() and adoptSession(), whoever has signed in meanwhile.
SignIn(acct) ==
    /\ acct \in coming /\ coming' = coming \ {acct}
    /\ session' = acct /\ stale' = FALSE /\ rotated' = TRUE
    /\ saving' = saving \union {acct}
    /\ crossed' = (crossed \/ UnderWay)
    /\ UNCHANGED <<stored, unsaved, refreshVars, shown, leaving, sourceVars, pullVars>>

SignInFails(acct) ==
    /\ acct \in coming /\ coming' = coming \ {acct}
    /\ UNCHANGED <<sessionVars, refreshVars, shown, saving, leaving, crossed,
                   sourceVars, pullVars>>

\* persistRefreshToken() of a sign-in is through.
SignInSaved(acct) ==
    /\ acct \in saving /\ saving' = saving \ {acct}
    /\ Persist(acct)
    /\ Notify(session)
    /\ UNCHANGED <<session, stale, refreshVars, coming, leaving, crossed>>

SignOut ==
    /\ shown /\ ~leaving
    /\ session' = None /\ stale' = FALSE /\ rotated' = FALSE /\ inFlight' = 0
    /\ leaving' = TRUE /\ crossed' = (crossed \/ UnderWay)
    /\ UNCHANGED <<stored, unsaved, step, who, good, restoring, shown, coming,
                   saving, sourceVars, pullVars>>

SignedOut ==
    /\ leaving /\ leaving' = FALSE
    /\ Clear
    /\ Notify(session)
    /\ UNCHANGED <<session, stale, rotated, refreshVars, coming, saving, crossed>>

\* The app quits and starts again: restoreSession() refreshes what is stored,
\* when it can be decrypted this time.
Restart ==
    /\ \E acct \in {stored, None} :
          /\ step' = [r \in Refreshes |->
                        IF r = 1 /\ acct # None THEN "sent" ELSE "free"]
          /\ who' = [r \in Refreshes |-> IF r = 1 THEN acct ELSE None]
          /\ restoring' = IF acct # None THEN 1 ELSE 0
    /\ session' = None /\ stale' = FALSE /\ rotated' = FALSE
    /\ unsaved' = FALSE
    /\ good' = [r \in Refreshes |-> FALSE] /\ inFlight' = 0
    /\ shown' = FALSE /\ coming' = {} /\ saving' = {}
    /\ leaving' = FALSE /\ source' = None /\ client' = 0
    /\ conn' = [c \in Clients |-> "none"] /\ waits' = [c \in Clients |-> 0]
    /\ halted' = Clients /\ armed' = {} /\ behind' = FALSE
    /\ crossed' = FALSE /\ UNCHANGED stored

-----------------------------------------------------------------------------
(* The stream.                                                             *)

\* connect(), at once or when the reconnect timer fires: without a session
\* there is no token, and it backs off.
Connect(c) ==
    /\ conn[c] = "wait"
    /\ \/ /\ session # None /\ ~stale
          /\ conn' = [conn EXCEPT ![c] = "fetch"]
          /\ UNCHANGED <<waits, step, who, inFlight>>
       \/ /\ session # None /\ stale /\ ~NoneInFlight
          /\ conn' = [conn EXCEPT ![c] = "token"]
          /\ waits' = [waits EXCEPT ![c] = inFlight]
          /\ UNCHANGED <<step, who, inFlight>>
       \/ \E r \in Refreshes :
             /\ session # None /\ stale /\ NoneInFlight
             /\ Starts(r, session) /\ inFlight' = r
             /\ conn' = [conn EXCEPT ![c] = "token"]
             /\ waits' = [waits EXCEPT ![c] = r]
    /\ UNCHANGED <<sessionVars, good, restoring, userVars, source, client,
                   halted, pullVars>>

\* Mutated form: only `changed` events start a pull.
NoResync(c) == armed

\* "RESYNC ON CONNECT"
Resync(c) == armed \union {c}

Opened(c) ==
    /\ conn[c] = "fetch"
    /\ conn' = [conn EXCEPT ![c] = "open"]
    /\ armed' = Resync(c)
    /\ UNCHANGED <<sessionVars, refreshVars, userVars, source, client, waits,
                   halted, behind>>

\* The fetch fails, the stream ends, or it was aborted: a client that was not
\* stopped reconnects.
Dropped(c) ==
    /\ conn[c] \in {"fetch", "open", "torn"}
    /\ conn' = [conn EXCEPT ![c] = IF c \in halted THEN "none" ELSE "wait"]
    /\ UNCHANGED <<sessionVars, refreshVars, userVars, source, client, waits,
                   halted, pullVars>>

\* The server changes; an open stream says so.
ServerChanges ==
    /\ source # None
    /\ behind' = TRUE
    /\ armed' = armed \union {c \in Clients : conn[c] = "open" /\ c \notin halted}
    /\ UNCHANGED <<sessionVars, refreshVars, userVars, sourceVars>>

\* The debounce timer fires: onSignal() pulls.
Signal(c) ==
    /\ c \in armed
    /\ armed' = armed \ {c} /\ behind' = FALSE
    /\ UNCHANGED <<sessionVars, refreshVars, userVars, sourceVars>>

-----------------------------------------------------------------------------
Refreshing(r) ==
    \/ RefreshOk(r) \/ RefreshRefused(r) \/ RefreshLost(r)
    \/ Saved(r) \/ Cleared(r) \/ Ends(r) \/ Restored(r)

Using ==
    \/ \E a \in Accounts : Submit(a)
    \/ SignOut \/ Restart

Entering ==
    \/ SignedOut
    \/ \E a \in Accounts : SignIn(a) \/ SignInFails(a) \/ SignInSaved(a)

Streaming(c) == Connect(c) \/ Dropped(c) \/ Opened(c) \/ Signal(c)

Next ==
    \/ \E r \in Refreshes : Refreshing(r) \/ RequestToken(r)
    \/ Expire \/ Using \/ Entering
    \/ \E c \in Clients : Streaming(c)
    \/ ServerChanges

\* Requests are answered or time out, timers fire - the reconnect timer perhaps
\* just when there is no session, but not each time - and the server can be
\* reached again and again.
Fairness ==
    /\ WF_vars(\E r \in Refreshes : Refreshing(r))
    /\ SF_vars(\E r \in Refreshes : RefreshOk(r))
    /\ SF_vars(\E c \in Clients : Connect(c))
    /\ SF_vars(\E c \in Clients : Opened(c))
    /\ WF_vars(\E c \in Clients : Signal(c))
    /\ WF_vars(Entering)

Spec == Init /\ [][Next]_vars /\ Fairness

-----------------------------------------------------------------------------
(* Properties.                                                             *)

\* Wherever no sign-in or sign-out crossed a refresh or a write, the source
\* is there exactly when there is a session: no path forgets to notify.
SourceFollows == Quiet /\ ~crossed => (source = None <=> session = None)

\* "the encrypted refresh-token file": what the next start finds there is the
\* session of this one, and its newest token - also after a rotation, a switch
\* of accounts, a quit half way - unless the last write or removal of the file
\* failed ("it just won't survive a restart"), or a sign-in or sign-out
\* crossed a refresh or a write.
StoredFollows ==
    Quiet /\ ~crossed /\ ~unsaved /\ session # None
        => stored = session /\ ~rotated

\* stop(): a client that was stopped ends, wherever it was in connect().
StoppedStaysDown ==
    \A c \in Clients : c # client => conn[c] \in {"none", "token", "torn"}

\* "RESYNC ON CONNECT": with the stream alone, without the interval poll, the
\* source pulls after every change, those it could not be told of included.
StreamCatchesUp == behind ~> ~behind

=============================================================================
