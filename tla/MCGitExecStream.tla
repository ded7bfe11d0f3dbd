-------------------------- MODULE MCGitExecStream --------------------------
(* Windows of three units out and two in, a pipe of two, four units out and  *)
(* two in.                                                                   *)
EXTENDS GitExecStream, TLC
=============================================================================
