---------------------------- MODULE MCTaskSource ----------------------------
(* TLC instances of TaskSource.                                            *)
EXTENDS TaskSource

CONSTANTS a, b

\* Claimed, released or done: a released task is back where it was.
Lifecycle == {<<"open", "mine">>, <<"mine", "open">>, <<"mine", "done">>}

=============================================================================
