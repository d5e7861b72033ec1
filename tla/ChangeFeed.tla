---------------------------- MODULE ChangeFeed ----------------------------
(***************************************************************************)
(* The change feed of breezed (daemon/breezed.ts) and the laptop that is   *)
(* attached to it (electron/sources.ts, electron/remoteDaemon.ts): the     *)
(* daemon counts changes in seq, the laptop long-polls with the number it  *)
(* knows and re-pulls its tasks when another one comes back.               *)
(*                                                                         *)
(* Only comparisons of the numbers matter, so the state keeps those: the   *)
(* daemon's number beyond 0 (counted), beyond the laptop's (unseen),       *)
(* beyond the one in a reply on its way (after).                           *)
(***************************************************************************)
EXTENDS Naturals

CONSTANT MaxFailures   \* consecutive failures after which a source is dropped

ASSUME FailuresAssumption == MaxFailures \in Nat \ {0}

VARIABLES
    counted,   \* seq > 0
    link,      \* "off", "connecting", "on": the source of this daemon
    valid,     \* the connection's port and token are the daemon's
    poll,      \* the long poll: "none", "sent", "waits", "same", "news"
    unseen,    \* seq # r.seq
    after,     \* seq has passed the number in the reply
    failures,  \* consecutiveFailures
    fresh      \* history: the laptop re-pulled after the last change

feedVars == <<counted, link, valid, poll, unseen, after, failures, fresh>>

FeedTypeOK ==
    /\ counted \in BOOLEAN /\ link \in {"off", "connecting", "on"}
    /\ valid \in BOOLEAN
    /\ poll \in {"none", "sent", "waits", "same", "news"}
    /\ unseen \in BOOLEAN /\ after \in BOOLEAN
    /\ failures \in 0..(MaxFailures - 1) /\ fresh \in BOOLEAN

FeedInit ==
    /\ counted = FALSE /\ link = "off" /\ valid = FALSE
    /\ poll = "none" /\ unseen = FALSE /\ after = FALSE
    /\ failures = 0 /\ fresh = FALSE

-----------------------------------------------------------------------------
(* The daemon's end.                                                       *)

\* bump(): the number grows and every waiting poll is answered with it.
Bump ==
    /\ counted' = TRUE /\ unseen' = (link = "on") /\ fresh' = FALSE
    /\ poll' = IF poll = "waits" /\ valid THEN "news" ELSE poll
    /\ after' = (poll \in {"same", "news"})
    /\ UNCHANGED <<link, valid, failures>>

\* Mutated form: a poll waits for the next change, missed ones or not.
HeldBack == FALSE

\* seq > since: a poll that is behind is answered at once.
Behind == unseen

\* handleChanges()
Serve ==
    /\ poll = "sent" /\ valid
    /\ poll' = IF Behind THEN "news" ELSE "waits"
    /\ after' = FALSE
    /\ UNCHANGED <<counted, link, valid, unseen, failures, fresh>>

\* LONG_POLL_MS passed without a change.
KeepWarm ==
    /\ poll = "waits" /\ valid
    /\ poll' = "same"
    /\ UNCHANGED <<counted, link, valid, unseen, after, failures, fresh>>

\* The daemon starts again: it counts from 0, on another port, with another
\* token.
FeedRestarts ==
    /\ counted' = FALSE /\ valid' = FALSE
    /\ UNCHANGED <<link, poll, unseen, after, failures, fresh>>

-----------------------------------------------------------------------------
(* The laptop's end.                                                       *)

\* connectSource(): by hand, at startup, or under a mounted path.
Connect ==
    /\ link = "off"
    /\ link' = "connecting"
    /\ UNCHANGED <<counted, valid, poll, unseen, after, failures, fresh>>

\* The tunnel is up: the poll loop starts at 0, and the tasks are pulled.
Connected ==
    /\ link = "connecting"
    /\ link' = "on" /\ valid' = TRUE
    /\ poll' = "none" /\ unseen' = counted /\ after' = FALSE
    /\ failures' = 0 /\ fresh' = TRUE
    /\ UNCHANGED counted

ConnectFails ==
    /\ link = "connecting"
    /\ link' = "off"
    /\ UNCHANGED <<counted, valid, poll, unseen, after, failures, fresh>>

\* disconnectSource(): nothing happens to a connection being made.
Detached ==
    /\ link' = "off" /\ valid' = FALSE
    /\ poll' = "none" /\ unseen' = FALSE /\ after' = FALSE
    /\ failures' = 0 /\ fresh' = FALSE
    /\ UNCHANGED counted

Disconnect == link = "on" /\ Detached

PollChanges ==
    /\ link = "on" /\ poll = "none"
    /\ poll' = "sent"
    /\ UNCHANGED <<counted, link, valid, unseen, after, failures, fresh>>

\* Another number than the one it had: remember it and re-pull.
PollAnswered ==
    /\ poll \in {"same", "news"}
    /\ poll' = "none" /\ failures' = 0
    /\ unseen' = after /\ after' = FALSE
    /\ fresh' = (fresh \/ poll = "news")
    /\ UNCHANGED <<counted, link, valid>>

\* Refused, unauthorized, or lost with the tunnel: the third time in a row
\* drops the source.
PollFails ==
    /\ poll # "none"
    /\ \/ failures + 1 = MaxFailures /\ Detached
       \/ /\ failures + 1 < MaxFailures
          /\ failures' = failures + 1
          /\ poll' = "none"
          /\ UNCHANGED <<counted, link, valid, unseen, after, fresh>>

\* CHANGE_POLL_TIMEOUT_MS passed: the tunnel swallowed the request or the
\* reply.  That is no failure; the poll is sent again.
PollTimesOut ==
    /\ poll # "none"
    /\ poll' = "none"
    /\ UNCHANGED <<counted, link, valid, unseen, after, failures, fresh>>

FeedNext ==
    \/ Serve \/ KeepWarm
    \/ Connect \/ Connected \/ ConnectFails \/ Disconnect
    \/ PollChanges \/ PollAnswered \/ PollFails \/ PollTimesOut

\* A tunnel swallows polls only until it works again or its ssh gives up; a
\* daemon that started again answers nobody who knows its old port.
FeedFairness ==
    /\ SF_feedVars(Serve) /\ SF_feedVars(PollAnswered)
    /\ SF_feedVars(PollFails /\ ~valid)
    /\ WF_feedVars(PollChanges)

-----------------------------------------------------------------------------
\* "a laptop can long-poll" for every change: after the last one, an attached
\* laptop pulls its tasks again, or finds out that the daemon is gone.
ChangeReachesLaptop == link = "on" /\ ~fresh ~> fresh \/ link # "on"

=============================================================================
