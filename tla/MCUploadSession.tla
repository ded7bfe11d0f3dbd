-------------------------- MODULE MCUploadSession --------------------------
(* The client's own request and up to two others beside it.                  *)
EXTENDS UploadSession, TLC

CONSTANTS h1, h2, h3
=============================================================================
