------------------------- MODULE MCProjectDelivery -------------------------
(* One repository with two branches, one handler beside the worker.          *)
EXTENDS ProjectDelivery, TLC

CONSTANTS r1, b1, b2, h1, h2, w
=============================================================================
