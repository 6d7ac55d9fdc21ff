---------------------------- MODULE MCWellPlaced ----------------------------
(***************************************************************************)
(* The same program, debugged by a user who keeps to its instructions.     *)
(***************************************************************************)
EXTENDS MCDebugger

ASSUME WellPlacedSession == WellPlaced /\ ~Rebreak

=============================================================================
