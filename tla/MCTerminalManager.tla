------------------------- MODULE MCTerminalManager -------------------------
(* Small instances of TerminalManager for TLC.                             *)
EXTENDS TerminalManager, TLC

\* Callers, chats and sessions are interchangeable: nothing orders them.
Symmetry == Permutations(Callers) \cup Permutations(Chats) \cup Permutations(Sids)
=============================================================================
