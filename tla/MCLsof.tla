------------------------------- MODULE MCLsof -------------------------------
(***************************************************************************)
(* Two programs: sh maps itself, a library twice and anonymous memory; su  *)
(* maps itself.  A descriptor is a log that is open for writing, or data   *)
(* opened with O_PATH.                                                     *)
(***************************************************************************)
EXTENDS Lsof

MCMapLines ==
  LET lib == CHOOSE f \in Lib : TRUE
  IN  [e \in {"sh", "su"} |-> IF e = "sh" THEN <<"sh", lib, "anon", lib>> ELSE <<"su">>]

MCKind ==
  [f \in File |-> CASE f = "/" -> "DIR" [] f = "log" -> "CHR" [] OTHER -> "REG"]

MCOpening == {[file |-> "log", mode |-> "w"], [file |-> "data", mode |-> ""]}

=============================================================================
