------------------------------ MODULE MCEditor ------------------------------
(* Model values for Editor: a heading and another edit of the user, what was *)
(* there before and one edit of an agent.                                    *)
EXTENDS Editor

CONSTANTS h, e, orig, a, note, title

=============================================================================
