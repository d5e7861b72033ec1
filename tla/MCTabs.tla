------------------------------- MODULE MCTabs -------------------------------
(* Model values for Tabs. *)
EXTENDS Tabs, TLC

CONSTANTS d, e, t, p, q

\* Directories are interchangeable, and so are shells.
Symmetry == Permutations(Dirs) \union Permutations(Ptys)

=============================================================================
