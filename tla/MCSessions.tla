---------------------------- MODULE MCSessions ----------------------------
(* TLC instances of Sessions.                                              *)
EXTENDS Sessions

CONSTANT a

=============================================================================
