---------------------------- MODULE MCWebTermStream ----------------------------
(* Small instances of WebTermStream for TLC.                               *)
EXTENDS WebTermStream, TLC
=============================================================================
