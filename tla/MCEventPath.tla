---------------------------- MODULE MCEventPath ----------------------------
(* TLC instance of EventPath.                                              *)
EXTENDS EventPath

TwoTroubles == [fault |-> 2, timeout |-> 1, any |-> 2]
=============================================================================
