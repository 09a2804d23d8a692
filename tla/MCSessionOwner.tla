--------------------------- MODULE MCSessionOwner ---------------------------
(* Small instances of SessionOwner for TLC.                                *)
EXTENDS SessionOwner
=============================================================================
