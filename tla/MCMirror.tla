----------------------------- MODULE MCMirror -----------------------------
(* Model values for Mirror. *)
EXTENDS Mirror, TLC

CONSTANTS a, b

\* The user holds every task at first, and none of them has a question.
Mine == {[mine |-> TRUE, asked |-> FALSE]}

\* The tasks are interchangeable.
Symmetry == Permutations(Tasks)

=============================================================================
