------------------------------ MODULE Replica ------------------------------
(***************************************************************************)
(* What the delta-sync loop promises, without cursors, pulls, passes or    *)
(* signatures: the app keeps a copy of a server's rows on disk and another *)
(* on screen.  At any moment any rows on screen may be brought up to       *)
(* versions the server has or had, or dropped, and any of these changes    *)
(* may reach the disk with them or be missed by it; nothing is ever        *)
(* invented, and nothing goes back to an older version.  DeltaPoll         *)
(* implements this specification.                                          *)
(***************************************************************************)
EXTENDS Naturals

CONSTANTS
    Keys,    \* what a row is stored under
    NoRow    \* no such row

VARIABLES
    truth,   \* the server's rows: a record with a field at, or NoRow
    stamp,   \* when each of them was last written or deleted
    copy,    \* the rows on disk
    open,    \* the app runs
    view     \* the rows on screen

vars == <<truth, stamp, copy, open, view>>

Empty == [k \in Keys |-> NoRow]

Init ==
    /\ \A k \in Keys : truth[k] # NoRow => truth[k].at = stamp[k]
    /\ copy = Empty /\ view = Empty /\ open = FALSE

\* The server's rows only ever become newer.
Write ==
    /\ \E k \in Keys :
          /\ stamp' = [stamp EXCEPT ![k] = stamp'[k]] /\ stamp'[k] > stamp[k]
          /\ truth' = [truth EXCEPT ![k] = truth'[k]]
          /\ truth'[k] # NoRow => truth'[k].at = stamp'[k]
    /\ UNCHANGED <<copy, open, view>>

\* Of one version there is one content, and a newer one follows an older.
Follows(new, old) == old = NoRow \/ new.at > old.at \/ new = old

\* A row that comes is one the server has or had, and it is not older than the
\* one it is to replace on screen, nor than the one on disk.
Comes(k, new) ==
    /\ new # NoRow
    /\ new.at <= stamp[k]
    /\ new.at = stamp[k] => new = truth[k]
    /\ Follows(new, copy[k]) /\ Follows(new, view[k])

\* Each row stays, goes or comes.
Brought(rows, new) ==
    \A k \in Keys : new[k] \in {rows[k], NoRow} \/ Comes(k, new[k])

\* The screen is brought up; of each row the disk follows or keeps its own.
Sync ==
    /\ open /\ open' = TRUE
    /\ Brought(view, view')
    /\ \A k \in Keys : copy'[k] \in {copy[k], view'[k]}
    /\ Brought(copy, copy')
    /\ UNCHANGED <<truth, stamp>>

\* The app starts from the copy, whatever state the server is in, or from
\* nothing when the copy cannot be read.
Start ==
    /\ ~open /\ open' = TRUE
    /\ view' \in {copy, Empty}
    /\ UNCHANGED <<truth, stamp, copy>>

\* The app dies, in the middle of a sync perhaps.
Stop ==
    /\ open /\ open' = FALSE
    /\ Brought(copy, copy')
    /\ view' = Empty
    /\ UNCHANGED <<truth, stamp>>

Next == Write \/ Sync \/ Start \/ Stop

Spec == Init /\ [][Next]_vars

=============================================================================
