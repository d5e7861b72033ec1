----------------------------- MODULE MCBreezed -----------------------------
(* TLC instances of Breezed.                                               *)
EXTENDS Breezed

CONSTANTS a, b

=============================================================================
