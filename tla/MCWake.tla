------------------------------ MODULE MCWake ------------------------------
(***************************************************************************)
(* The wake worker on one inbox of two messages, with two sessions that    *)
(* may hold it.                                                            *)
(***************************************************************************)
EXTENDS Wake

CONSTANTS r1, r2
=============================================================================
