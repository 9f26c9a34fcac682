---------------------------- MODULE MCWebAccess -----------------------------
(* Small instances of WebAccess for TLC.                                   *)
EXTENDS WebAccess
=============================================================================
