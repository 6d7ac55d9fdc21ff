------------------------------ MODULE MCLogger ------------------------------
(***************************************************************************)
(* Two names, two descriptors besides the output.                          *)
(***************************************************************************)
EXTENDS Logger

MCFD == {3, 4, 5}

=============================================================================
