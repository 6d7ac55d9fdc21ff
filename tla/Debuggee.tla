------------------------------ MODULE Debuggee ------------------------------
(***************************************************************************)
(* What a debugger promises about the program: as seen by its user the     *)
(* program executes its own instructions and nothing else, whatever break  *)
(* points there are.  It moves only while the user lets it run, by at most *)
(* one instruction on a single step, and its instruction pointer changes   *)
(* at a stop only when the user sets it.                                   *)
(***************************************************************************)
EXTENDS Naturals

CONSTANTS
  Succ,      \* where the instruction at an address may continue
  MayExit,   \* addresses of instructions that may end the program
  EntryRip,  \* the first instruction
  JumpArgs,  \* addresses the user may set the instruction pointer to
  Kills      \* can the program be killed from outside?

VARIABLES
  mode,  \* absent, paused, stepping, stepped or running
  ip     \* the instruction the program is at

Init == mode = "absent" /\ ip = 0

Launch == mode = "absent" /\ mode' \in {"paused", "running"} /\ ip' = EntryRip

LetRun == mode = "paused" /\ mode' \in {"running", "stepping"} /\ UNCHANGED ip

Jump == mode = "paused" /\ ip' \in JumpArgs /\ UNCHANGED mode

Execute ==
  /\ \/ mode = "running" /\ UNCHANGED mode
     \/ mode = "stepping" /\ mode' = "stepped"
  /\ ip' \in Succ[ip]

(* A single step that a signal cuts short. *)
Interrupt == mode = "stepping" /\ mode' = "stepped" /\ UNCHANGED ip

Pause == mode \in {"running", "stepped"} /\ mode' = "paused" /\ UNCHANGED ip

Gone == mode' = "absent" /\ ip' = 0

Exit == mode \in {"running", "stepping"} /\ ip \in MayExit /\ Gone

(* The user ends the session, or somebody kills the program. *)
Quit == mode = "paused" /\ Gone
Killed == Kills /\ mode # "absent" /\ Gone

Next == Launch \/ LetRun \/ Jump \/ Execute \/ Interrupt \/ Pause \/ Exit \/ Quit \/ Killed

Spec == Init /\ [][Next]_<<mode, ip>>

=============================================================================
