---------------------------- MODULE MCDeltaPoll ----------------------------
(* TLC instances of DeltaPoll.                                             *)
EXTENDS DeltaPoll

CONSTANTS a, b

\* A task is completed, reopened, or changed in a field the signature leaves
\* out.
AllMoves == {<<"open", "done">>, <<"done", "open">>, <<"done", "done">>}

=============================================================================
