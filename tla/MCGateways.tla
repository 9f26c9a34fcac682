------------------------------ MODULE MCGateways ------------------------------
(* Small instances of Gateways for TLC.  No symmetry: a run checks liveness. *)
EXTENDS Gateways, TLC
===============================================================================
