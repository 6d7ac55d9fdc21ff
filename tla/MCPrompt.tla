------------------------------ MODULE MCPrompt ------------------------------
(***************************************************************************)
(* Numbers of four bits: 2 is in .text and 9 is beyond the range of long   *)
(* (-8..7).  One program has no .text, one has two, of which the first     *)
(* counts.                                                                 *)
(***************************************************************************)
EXTENDS Prompt

MCNumber == [w \in {"0", "2", "9", "-1", "-3"} |->
  CASE w = "0" -> 0 [] w = "2" -> 2 [] w = "9" -> 9 [] w = "-1" -> -1 [] OTHER -> -3]

MCFiles ==
  {<<[name |-> ".init", addr |-> 0, size |-> 2]>>,
   <<[name |-> ".init", addr |-> 0, size |-> 2], [name |-> ".text", addr |-> 2, size |-> 4],
     [name |-> ".text", addr |-> 6, size |-> 2]>>}

=============================================================================
