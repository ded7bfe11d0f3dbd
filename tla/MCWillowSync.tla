---------------------------- MODULE MCWillowSync ----------------------------
(* Two devices, a snapshot at the second update.                             *)
EXTENDS WillowSync, TLC

CONSTANTS d1, d2, d3
=============================================================================
