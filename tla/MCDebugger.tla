----------------------------- MODULE MCDebugger -----------------------------
(***************************************************************************)
(* A small program for the debugger.  Control starts at 8, outside .text   *)
(* (the dynamic loader), and comes to 1:                                   *)
(*                                                                         *)
(*   1: two bytes              -> 3                                        *)
(*   3: two bytes, a branch    -> 5 or back to 1                           *)
(*   5: int3 of the program's own  -> 6                                    *)
(*   6: two bytes, exit        -> ends the process, or fails -> 8          *)
(*   8: one byte               -> 1                                        *)
(***************************************************************************)
EXTENDS Debugger

MCAddr == 1..8
MCByte == {"b1", "b2", "b3", "b4", "b6", "b7", "b8", "cc"}
MCCode == <<"b1", "b2", "b3", "b4", "cc", "b6", "b7", "b8">>
MCSize == <<2, 2, 2, 1, 1, 2, 1, 1>>
MCSucc == <<{3}, {3}, {1, 5}, {5}, {6}, {8}, {8}, {1}>>
MCMayExit == {6}

(* The same program without its loop and with a final exit. *)
StraightSucc == <<{3}, {3}, {5}, {5}, {6}, {}, {}, {1}>>

MCInsn == {1, 3, 5, 6, 8}

=============================================================================
