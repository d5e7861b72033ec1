------------------------------- MODULE MCAuth ------------------------------
(* TLC instances of Auth.                                                  *)
EXTENDS Auth

CONSTANTS a, b

=============================================================================
