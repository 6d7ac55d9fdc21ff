------------------------------ MODULE Debugger ------------------------------
(***************************************************************************)
(* The command handlers of the debugger (class debugger in command.hpp)    *)
(* together with the process they drive.                                   *)
(*                                                                         *)
(* A handler that lets the process run is split at its waitpid: the        *)
(* command itself runs up to the ptrace request, pc then names the waitpid *)
(* the debugger is blocked in, and the action that consumes the wait       *)
(* status does the rest of the handler.  Between the two only the process  *)
(* takes steps.                                                            *)
(*                                                                         *)
(* A command given in the wrong state, with a bad argument, or whose       *)
(* ptrace request fails because the process was killed prints a message    *)
(* and changes nothing: it is a stuttering step and has no action.         *)
(***************************************************************************)
EXTENDS Tracee, BreakpointTable

CONSTANTS
  TextBegin, TextEnd,  \* the .text section of the program
  Unset,               \* (unsigned long long)-1, above every address
  BreakArgs,           \* addresses the user gives to break
  JumpArgs,            \* values the user gives to "set rip"
  Rebreak,             \* does the user break twice at one address?
  MaxBreakpoints       \* bound on the length of the table

ASSUME CommandAssumption ==
  /\ TextBegin \in Nat /\ TextEnd \in Nat
  /\ Unset \in Nat /\ \A a \in Addr : a < Unset
  /\ BreakArgs \subseteq Nat
  /\ JumpArgs \subseteq Nat
  /\ Rebreak \in BOOLEAN
  /\ MaxBreakpoints \in Nat

VARIABLES
  state,                \* state_t
  last_cmd_is_set_rip,
  bptab,                \* breakpoint_table::data
  text_begin, text_end,
  pc,                   \* where the debugger is
  over,                 \* addr and cur_code of check_then_restore_si_reput
  report                \* the last "breakpoint @" or "terminated" message

dbgVars == <<state, last_cmd_is_set_rip, bptab, text_begin, text_end, pc, over, report>>
vars == <<traceeVars, dbgVars>>

State == {"NOLOAD", "LOADED", "RUNNING"}

(* siOver, contOver: the waitpid of check_then_restore_si_reput, called by *)
(* step_in or cont; stepping, continuing: the waitpid of step_in and of    *)
(* cont; resume: cont between the two; forked: the waitpid of start, while *)
(* a child whose execvp failed is a second debugger on the same input.     *)
Waiting == {"siOver", "contOver", "stepping", "continuing"}
PC == Waiting \cup {"prompt", "resume", "forked", "exited", "aborted"}

Report == [kind : {"none", "hit", "nohit", "exited"}, at : Int]
Breakpoint == UNION {[addr : {a}, code : [Word(a) -> Byte]] : a \in Addr}
Over == [addr : Addr, word : UNION {[Word(a) -> Byte] : a \in Addr}]

(* The values of each variable: break points are at mapped addresses and   *)
(* keep the word that was there.                                           *)
TypeOK ==
  /\ child \in ChildState
  /\ rip \in Nat
  /\ mem \in [Addr -> Byte]
  /\ cause \in Cause
  /\ state \in State
  /\ last_cmd_is_set_rip \in BOOLEAN
  /\ bptab \in Seq(Breakpoint)
  /\ text_begin \in Nat /\ text_end \in Nat
  /\ pc \in PC
  /\ over \in Over
  /\ report \in Report

Init ==
  /\ child = "none" /\ rip = EntryRip /\ mem = Code /\ cause = "exec"
  /\ state = "NOLOAD"
  /\ last_cmd_is_set_rip = FALSE
  /\ bptab = <<>>
  /\ text_begin = Unset /\ text_end = Unset
  /\ pc = "prompt"
  /\ over = [addr |-> EntryRip, word |-> PeekText(Code, EntryRip)]
  /\ report = [kind |-> "none", at |-> 0]

-----------------------------------------------------------------------------
(* Parts of handlers.                                                      *)

Listed(a) == Include(bptab, a)

(* The byte saved for a listed address. *)
SavedByte(a) == EntryAt(bptab, a).code[a]

(* The message of check_hit_break_point_or_not for address a. *)
ReportAt(a) == [kind |-> IF Listed(a) THEN "hit" ELSE "nohit", at |-> a]

(* Mutant: skips a break point on the first address. *)
ReputAfter(m, begin) ==
  [x \in Addr |-> IF Listed(x) /\ x > begin THEN CC ELSE m[x]]

(* reput_all_breakpoints_from: int3 at every listed address from begin on. *)
reput_all_breakpoints_from(m, begin) ==
  [x \in Addr |-> IF Listed(x) /\ x >= begin THEN CC ELSE m[x]]

(* First half of check_then_restore_si_reput: keep the current word, put   *)
(* the saved byte back and single step.                                    *)
RestoreAndStep(m, a) ==
  /\ over' = [addr |-> a, word |-> PeekText(m, a)]
  /\ mem' = PokeByte(m, a, SavedByte(a))
  /\ child' = "stepping"

(* Mutant: continues without stepping over the break point at r. *)
BeginContNoStep(m, r, set) ==
  /\ child' = "running" /\ mem' = m
  /\ pc' = "continuing"
  /\ UNCHANGED over

(* cont, up to its first waitpid, from code bytes m, instruction pointer r *)
(* and flag set.                                                           *)
BeginCont(m, r, set) ==
  \/ /\ ~set /\ Listed(r)
     /\ RestoreAndStep(m, r)
     /\ pc' = "contOver"
  \/ /\ set \/ ~Listed(r)
     /\ child' = "running" /\ mem' = m
     /\ pc' = "continuing"
     /\ UNCHANGED over

-----------------------------------------------------------------------------
(* Commands. *)

Running == pc = "prompt" /\ state = "RUNNING" /\ child = "stopped"

(* load: elf64_parser finds a .text section or leaves the range as it was. *)
load ==
  /\ pc = "prompt" /\ state = "NOLOAD"
  /\ \/ text_begin' = TextBegin /\ text_end' = TextEnd
     \/ UNCHANGED <<text_begin, text_end>>
  /\ state' = "LOADED"
  /\ last_cmd_is_set_rip' = FALSE
  /\ UNCHANGED <<traceeVars, bptab, pc, over, report>>

(* fork, execve, the first waitpid and the break points of earlier runs;   *)
(* a fresh image takes the place of mem.                                   *)
Launch ==
  /\ pc = "prompt" /\ state = "LOADED"
  /\ rip' = EntryRip /\ cause' = "exec"
  /\ report' = ReportAt(EntryRip)
  /\ state' = "RUNNING"
  /\ last_cmd_is_set_rip' = FALSE
  /\ UNCHANGED <<bptab, text_begin, text_end>>

FreshImage == reput_all_breakpoints_from(Code, text_begin)

start ==
  /\ Launch
  /\ child' = "stopped" /\ mem' = FreshImage
  /\ UNCHANGED <<pc, over>>

(* run when loaded: start, then cont. *)
run ==
  /\ Launch
  /\ BeginCont(FreshImage, EntryRip, FALSE)

(* start or run when execvp fails: the child comes back from start into    *)
(* the command loop, LOADED and without a process, while its parent still  *)
(* waits.  It refuses every command but exit, and start, which would fail  *)
(* once more and is left out.                                              *)
StartFails ==
  /\ pc = "prompt" /\ state = "LOADED"
  /\ pc' = "forked"
  /\ UNCHANGED <<traceeVars, state, last_cmd_is_set_rip, bptab, text_begin, text_end, over, report>>

(* The second debugger ends by exit or at the end of its input: the parent *)
(* sees an exit where start asserts a stop.                                *)
ForkedExits ==
  /\ pc = "forked"
  /\ pc' = "aborted"
  /\ UNCHANGED <<traceeVars, state, last_cmd_is_set_rip, bptab, text_begin, text_end, over, report>>

(* cont, and run when already running: the flag that run clears at its end *)
(* is cleared by cont's own end as well.                                   *)
cont ==
  /\ Running
  /\ BeginCont(mem, rip, last_cmd_is_set_rip)
  /\ UNCHANGED <<rip, cause, state, last_cmd_is_set_rip, bptab, text_begin, text_end, report>>

(* run when cont gives up because the process is dead. *)
RunDead ==
  /\ pc = "prompt" /\ state = "RUNNING" /\ child = "killed"
  /\ last_cmd_is_set_rip' = FALSE
  /\ UNCHANGED <<traceeVars, state, bptab, text_begin, text_end, pc, over, report>>

step_in ==
  /\ Running
  /\ \/ /\ Listed(rip)
        /\ RestoreAndStep(mem, rip)
        /\ pc' = "siOver"
     \/ /\ ~Listed(rip)
        /\ child' = "stepping"
        /\ pc' = "stepping"
        /\ UNCHANGED <<mem, over>>
  /\ UNCHANGED <<rip, cause, state, last_cmd_is_set_rip, bptab, text_begin, text_end, report>>

(* set rip v.  reg_handler takes the value 0 for a request to read. *)
set_reg(v) ==
  /\ Running
  /\ rip' = IF v = 0 THEN rip ELSE v
  /\ last_cmd_is_set_rip' = TRUE
  /\ UNCHANGED <<child, mem, cause, state, bptab, text_begin, text_end, pc, over, report>>

(* Mutants: the address is not checked; the word is read after the poke. *)
BreakUnchecked(a) ==
  /\ Running
  /\ Len(bptab) < MaxBreakpoints
  /\ mem' = [x \in Addr |-> IF x = a THEN CC ELSE mem[x]]
  /\ bptab' = Add(bptab, a, PeekText(mem, a))
  /\ UNCHANGED <<child, rip, cause, state, last_cmd_is_set_rip, text_begin, text_end, pc, over, report>>

BreakThenPeek(a) ==
  /\ Running
  /\ a >= text_begin /\ a <= text_end
  /\ a \in Addr
  /\ Len(bptab) < MaxBreakpoints
  /\ mem' = PokeByte(mem, a, CC)
  /\ bptab' = Add(bptab, a, PeekText(mem', a))
  /\ UNCHANGED <<child, rip, cause, state, last_cmd_is_set_rip, text_begin, text_end, pc, over, report>>

(* break a.  An existing break point at a is announced, not refused. *)
set_break_point(a) ==
  /\ Running
  /\ a >= text_begin /\ a <= text_end
  /\ a \in Addr
  /\ Len(bptab) < MaxBreakpoints
  /\ mem' = PokeByte(mem, a, CC)
  /\ bptab' = Add(bptab, a, PeekText(mem, a))
  /\ UNCHANGED <<child, rip, cause, state, last_cmd_is_set_rip, text_begin, text_end, pc, over, report>>

(* delete i, for the position i of the table. *)
delete_break_point(i) ==
  /\ Running
  /\ IncludeIdx(bptab, i)
  /\ mem' = PokeByte(mem, bptab[i].addr, bptab[i].code[bptab[i].addr])
  /\ bptab' = Del(bptab, i)
  /\ UNCHANGED <<child, rip, cause, state, last_cmd_is_set_rip, text_begin, text_end, pc, over, report>>

(* exit, q or end of input; PTRACE_O_EXITKILL takes the process along. *)
exit ==
  /\ pc = "prompt"
  /\ pc' = "exited"
  /\ state' = "LOADED" /\ last_cmd_is_set_rip' = FALSE
  /\ child' = "none"
  /\ UNCHANGED <<rip, mem, cause, bptab, text_begin, text_end, over, report>>

-----------------------------------------------------------------------------
(* Returns of waitpid. *)

(* Mutant: no release. *)
ChildExitedNoRelease ==
  /\ pc \in Waiting /\ child = "exited"
  /\ child' = "none"
  /\ pc' = "prompt"
  /\ report' = [kind |-> "exited", at |-> 0]
  /\ UNCHANGED <<rip, mem, cause, state, last_cmd_is_set_rip, bptab, text_begin, text_end, over>>

(* wait_then_check_exit, WIFEXITED: release. *)
ChildExited ==
  /\ pc \in Waiting /\ child = "exited"
  /\ child' = "none" /\ state' = "LOADED" /\ last_cmd_is_set_rip' = FALSE
  /\ pc' = "prompt"
  /\ report' = [kind |-> "exited", at |-> 0]
  /\ UNCHANGED <<rip, mem, cause, bptab, text_begin, text_end, over>>

(* wait_then_check_exit, neither exited nor stopped: the assert fails. *)
AssertFails ==
  /\ pc \in Waiting /\ child = "killed"
  /\ pc' = "aborted"
  /\ UNCHANGED <<traceeVars, state, last_cmd_is_set_rip, bptab, text_begin, text_end, over, report>>

(* Mutant: the int3 is not put back. *)
StepOverDoneNoReput ==
  /\ pc \in {"siOver", "contOver"} /\ child = "stopped"
  /\ pc' = IF pc = "siOver" THEN "prompt" ELSE "resume"
  /\ UNCHANGED <<traceeVars, state, last_cmd_is_set_rip, bptab, text_begin, text_end, over, report>>

(* Second half of check_then_restore_si_reput, then the rest of step_in or *)
(* of cont.                                                                *)
StepOverDone ==
  /\ pc \in {"siOver", "contOver"} /\ child = "stopped"
  /\ mem' = PokeText(mem, over.word)
  /\ \/ /\ pc = "siOver"
        /\ pc' = "prompt"
        /\ report' = ReportAt(rip)
        /\ last_cmd_is_set_rip' = FALSE
     \/ /\ pc = "contOver"
        /\ pc' = "resume"
        /\ UNCHANGED <<report, last_cmd_is_set_rip>>
  /\ UNCHANGED <<child, rip, cause, state, bptab, text_begin, text_end, over>>

(* PTRACE_CONT after the step; it fails when the process is dead. *)
Resume ==
  /\ pc = "resume"
  /\ \/ child = "stopped" /\ child' = "running" /\ pc' = "continuing"
     \/ child = "killed" /\ pc' = "prompt" /\ UNCHANGED child
  /\ UNCHANGED <<rip, mem, cause, state, last_cmd_is_set_rip, bptab, text_begin, text_end, over, report>>

(* Mutant: waits again until a break point is hit. *)
StepDoneWaits ==
  /\ pc = "stepping" /\ child = "stopped"
  /\ pc' = IF Listed(rip) THEN "prompt" ELSE pc
  /\ UNCHANGED <<traceeVars, state, last_cmd_is_set_rip, bptab, text_begin, text_end, over, report>>

(* step_in with no break point at its start. *)
StepDone ==
  /\ pc = "stepping" /\ child = "stopped"
  /\ pc' = "prompt"
  /\ report' = ReportAt(rip)
  /\ last_cmd_is_set_rip' = FALSE
  /\ UNCHANGED <<traceeVars, state, bptab, text_begin, text_end, over>>

(* Mutants: the break point is looked up at rip; rip is not moved back. *)
ContDoneAtRip ==
  /\ pc = "continuing" /\ child = "stopped"
  /\ pc' = "prompt"
  /\ report' = ReportAt(rip)
  /\ last_cmd_is_set_rip' = FALSE
  /\ UNCHANGED <<traceeVars, state, bptab, text_begin, text_end, over>>

ContDoneNoRewind ==
  /\ pc = "continuing" /\ child = "stopped"
  /\ pc' = "prompt"
  /\ report' = ReportAt(rip - 1)
  /\ last_cmd_is_set_rip' = FALSE
  /\ UNCHANGED <<traceeVars, state, bptab, text_begin, text_end, over>>

(* cont: any stop whose rip is one past a listed address counts as a hit,  *)
(* and rip is moved back.                                                  *)
ContDone ==
  /\ pc = "continuing" /\ child = "stopped"
  /\ pc' = "prompt"
  /\ rip' = IF Listed(rip - 1) THEN rip - 1 ELSE rip
  /\ report' = ReportAt(rip - 1)
  /\ last_cmd_is_set_rip' = FALSE
  /\ UNCHANGED <<child, mem, cause, state, bptab, text_begin, text_end, over>>

-----------------------------------------------------------------------------
Command ==
  \/ load \/ start \/ run \/ StartFails \/ ForkedExits
  \/ cont \/ RunDead \/ step_in \/ exit
  \/ \E v \in JumpArgs : set_reg(v)
  \/ \E a \in BreakArgs : (Rebreak \/ ~Listed(a)) /\ set_break_point(a)
  \/ \E i \in 1..MaxBreakpoints : delete_break_point(i)

WaitReturns == ChildExited \/ AssertFails \/ StepOverDone \/ Resume \/ StepDone \/ ContDone

Process == (TraceeStep \/ Kill) /\ UNCHANGED dbgVars

(* The debugger is gone: nothing happens any more. *)
Terminated == pc \in {"exited", "aborted"} /\ UNCHANGED vars

Next == Command \/ WaitReturns \/ Process \/ Terminated

Spec == Init /\ [][Next]_vars

(* The process is scheduled and the debugger returns from waitpid once     *)
(* there is a status to return; the user owes the debugger no command.     *)
Fairness ==
  /\ WF_vars(TraceeStep /\ UNCHANGED dbgVars)
  /\ WF_vars(WaitReturns)

FairSpec == Spec /\ Fairness

(* A user who, whatever else he types, types cont again and again. *)
PersistentSpec == FairSpec /\ WF_vars(cont)

-----------------------------------------------------------------------------
(* Properties. *)

SteppingOver == pc \in {"siOver", "contOver"}

(* The debugger is RUNNING exactly while there is a process it has not yet *)
(* seen the end of, and the process executes, or has ended on its own,     *)
(* only while the debugger is blocked in the waitpid that goes with it: no *)
(* handler comes back to the prompt with the process still moving.  An     *)
(* assert on a wait status fails for a killed process, or for a start that *)
(* never got a process, and then never after one was seen.                 *)
StateMatchesChild ==
  /\ state = "RUNNING" <=> child # "none"
  /\ child = "running" => pc = "continuing"
  /\ child = "stepping" => pc \in {"siOver", "contOver", "stepping"}
  /\ child = "exited" => pc \in Waiting
  /\ pc \notin {"prompt", "forked", "exited", "aborted"} => state = "RUNNING"
  /\ pc = "forked" => state = "LOADED"
  /\ pc = "aborted" => child = "killed" \/ state = "LOADED"

(* The byte an address should hold. *)
Armed(x) == IF Listed(x) THEN CC ELSE Code[x]

(* Every listed address holds int3 and every other address the program's   *)
(* own byte, except the one instruction being stepped over.  This is what  *)
(* break, delete, the restore and reput around a single step, and the      *)
(* re-arming of a new process have to maintain together.                   *)
TableMatchesMemory ==
  Live => \A x \in Addr :
    mem[x] = IF SteppingOver /\ x = over.addr THEN Code[x] ELSE Armed(x)

(* The byte saved with every break point is the program's own byte there:  *)
(* "get the original code at target address" in set_break_point.           *)
SavedCodeIsOriginal ==
  \A i \in 1..Len(bptab) : bptab[i].code[bptab[i].addr] = Code[bptab[i].addr]

(* The inductive invariant behind the two: no address is listed twice, the *)
(* listed addresses are in .text (so a new process gets all of them), and  *)
(* the word kept while stepping over is the one memory must have again.    *)
TableInText ==
  /\ state = "NOLOAD" => bptab = <<>>
  /\ \A i \in 1..Len(bptab) : bptab[i].addr >= text_begin

OverHoldsWord ==
  (Live /\ SteppingOver) =>
    /\ Listed(over.addr)
    /\ over.addr \in DOMAIN over.word
    /\ \A x \in DOMAIN over.word : over.word[x] = Armed(x)

IInv ==
  /\ TypeOK
  /\ StateMatchesChild
  /\ Distinct(bptab)
  /\ TableInText
  /\ SavedCodeIsOriginal
  /\ TableMatchesMemory
  /\ OverHoldsWord

StopsAtBreakpoint ==
  (child = "running" /\ Listed(rip)) =>
    \/ UNCHANGED <<child, rip>>
    \/ child' = "stopped" /\ rip' = IF cause' = "int3" THEN rip + 1 ELSE rip
    \/ child' = "killed"

(* A process that runs freely and reaches a listed address stops there:    *)
(* it never executes past it.                                              *)
NoMissedBreakpoint == [][StopsAtBreakpoint]_vars

HitIffTrap ==
  (pc = "continuing" /\ pc' = "prompt" /\ child' = "stopped") =>
    (report'.kind = "hit" <=> cause = "int3" /\ Listed(rip - 1))

(* cont reports a break point if and only if the process executed the int3 *)
(* of that break point: "cont may 1) stop at the byte after 0xcc or        *)
(* 2) normaly exit" in check_hit_break_point_or_not.                       *)
HitMeansTrap == [][HitIffTrap]_vars

(* Mutant: disasm reads memory only. *)
DisasmMemory(a) == PeekText(mem, a)

(* What disasm hands to the disassembler for address a, and the bytes of   *)
(* it that are printed with the instruction there.                         *)
disasm(a) == IF Listed(a) THEN EntryAt(bptab, a).code ELSE PeekText(mem, a)
Printed(a) == {x \in Word(a) : x < a + Size[a]}

(* "the output should not have the machine code cc" in disasm: at the      *)
(* prompt, the bytes printed for an instruction are the program's own.     *)
DisasmHidesTraps ==
  (pc = "prompt" /\ child = "stopped") =>
    \A a \in Insn : (a >= text_begin /\ a <= text_end) =>
      \A x \in Printed(a) : disasm(a)[x] = Code[x]

(* A single step comes back to the prompt, also over a break point and     *)
(* into an exit, for an instruction that finishes: a system call that      *)
(* blocks in the kernel keeps step_in in its waitpid.                      *)
StepReturns == pc \in {"siOver", "stepping"} ~> pc \in {"prompt", "aborted"}

(* A user who keeps typing cont gets a program without loops to its end:   *)
(* break points are stepped over, not hit again and again.                 *)
SessionEnds == state = "RUNNING" ~> state # "RUNNING"

-----------------------------------------------------------------------------
(* The program as the user sees it: between the int3 of a break point and  *)
(* the correction of rip in cont, it is still at the break point.          *)
Mode ==
  CASE ~Live -> "absent"
    [] Live /\ pc = "prompt" -> "paused"
    [] Live /\ pc \in {"siOver", "stepping"} ->
         IF child = "stopped" THEN "stepped" ELSE "stepping"
    [] OTHER -> "running"

AtTrap == pc = "continuing" /\ child = "stopped" /\ cause = "int3" /\ Listed(rip - 1)

Ip == IF ~Live THEN 0 ELSE IF AtTrap THEN rip - 1 ELSE rip

User == INSTANCE Debuggee WITH
  mode <- Mode, ip <- Ip, JumpArgs <- JumpArgs \ {0}

(* The user keeps to the program's instructions: break points and jumps go *)
(* to instruction starts, and no signal arrives one byte past a break      *)
(* point (the one stop that cont mistakes for a hit).                      *)
WellPlaced ==
  /\ EntryRip \in Insn
  /\ \A a \in Insn : Succ[a] \subseteq Insn
  /\ JumpArgs \ {0} \subseteq Insn
  /\ \A a \in Insn : Code[a] = CC => Succ[a] = {a + 1}
  /\ \A a \in Insn : \A k \in 1 .. Size[a] - 1 : a + k \notin BreakArgs
  /\ \A b \in BreakArgs : b + 1 \notin SignalAddrs

(* What WellPlaced gives on top of IInv: the user always sees the program  *)
(* at one of its instructions, a single step starts on the original byte,  *)
(* cont stops on a signal only where it cannot take it for a hit, and a    *)
(* saved word shows the instruction it covers.                             *)
PlaceInv ==
  /\ \A i \in 1..Len(bptab) : bptab[i].addr \in BreakArgs
  /\ Live => Ip \in Insn
  /\ (SteppingOver /\ child = "stepping") => rip = over.addr
  /\ (pc = "stepping" /\ child = "stepping") => ~Listed(rip)
  /\ (pc = "continuing" /\ child = "stopped") =>
       \/ cause = "int3"
       \/ cause = "signal" /\ ~Listed(rip - 1)
  /\ \A i \in 1..Len(bptab) : bptab[i].addr \in Insn =>
       \A x \in Printed(bptab[i].addr) : bptab[i].code[x] = Code[x]

(* The debugger implements the abstract debuggee: break points, stepping   *)
(* over them and restarting never change what the program executes.        *)
Transparent == User!Spec

=============================================================================
