------------------------------ MODULE MCSetjmp ------------------------------
(***************************************************************************)
(* Bounds for Setjmp: stack words for a frame of the program, setjmp's     *)
(* return address and the signal frame with its red zone.                  *)
(***************************************************************************)
EXTENDS Setjmp

MCDepth == 4

=============================================================================
