----------------------------- MODULE MCEventBus -----------------------------
(* Small instances of EventBus for TLC.                                    *)
EXTENDS EventBus, TLC

\* Publishers and channels are interchangeable.
Symmetry == Permutations(Publishers) \cup Permutations(Channels)
=============================================================================
