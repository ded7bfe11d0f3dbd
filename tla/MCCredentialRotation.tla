------------------------ MODULE MCCredentialRotation ------------------------
(* Two socket slots: the one the device uses and one the server has not seen *)
(* close.                                                                    *)
EXTENDS CredentialRotation, TLC

CONSTANTS c1, c2

=============================================================================
