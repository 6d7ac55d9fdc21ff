------------------------- MODULE TransparencyProofs -------------------------
(***************************************************************************)
(* The debugger implements the abstract debuggee, and what follows from    *)
(* the same invariant, for a user who keeps to the program's instructions  *)
(* (WellPlaced) and does not break twice at one address.                   *)
(***************************************************************************)
EXTENDS DebuggerProofs

USE ProgramAssumption, CommandAssumption

(* A process that runs freely never executes past a listed address,        *)
(* wherever break points and jumps go.                                     *)
THEOREM NoMissed == ASSUME ~Rebreak PROVE Spec => NoMissedBreakpoint
<1>1. IInv /\ [Next]_vars => [StopsAtBreakpoint]_vars
  <2> SUFFICES ASSUME IInv, Next, child = "running", Listed(rip)
               PROVE  StopsAtBreakpoint
    BY DEF StopsAtBreakpoint
  <2>1. pc = "continuing" /\ Live
    BY DEF IInv, StateMatchesChild, Live, Executing
  <2>2. rip \in Addr /\ mem[rip] = CC
    <3>1. rip \in Addr
      BY ListedEntry DEF IInv, TypeOK
    <3> QED
      BY <2>1, <3>1 DEF IInv, TableMatchesMemory, Armed, SteppingOver
  <2>3. CASE Process
    BY <2>2, <2>3 DEF StopsAtBreakpoint, Process, TraceeStep, Trap, Execute, ExecuteClobbered,
       ExitProcess, SignalStop, Kill
  <2>4. ~Command /\ ~WaitReturns
    BY <2>1 DEF Command, load, start, run, Launch, cont, RunDead, step_in, exit,
       StartFails, ForkedExits, set_reg, set_break_point, delete_break_point, Running, WaitReturns,
       ChildExited, AssertFails, StepOverDone, Resume, StepDone, ContDone
  <2> QED
    BY <2>1, <2>3, <2>4 DEF Next, Terminated
<1> QED
  BY <1>1, Invariance, PTL DEF NoMissedBreakpoint, Spec

-----------------------------------------------------------------------------
(* The invariant of a well-placed session. *)

LEMMA ListedInArgs ==
  ASSUME IInv, PlaceInv, NEW a, Listed(a)
  PROVE  a \in BreakArgs
BY ListedIff DEF IInv, TypeOK, PlaceInv

(* Where the process executes it is at an instruction of the program, and  *)
(* unless it is about to execute an int3, all of its bytes are there.      *)
LEMMA AtInsn ==
  ASSUME PlaceInv, Executing
  PROVE  rip \in Insn /\ rip \in Addr /\ Ip = rip /\ Live
<1>1. Live /\ child # "stopped"
  BY DEF Live, Executing
<1>2. Ip = rip
  BY <1>1 DEF Ip, AtTrap
<1>3. Ip \in Insn
  BY <1>1 DEF PlaceInv
<1> QED
  BY <1>1, <1>2, <1>3

LEMMA InsnIntact ==
  ASSUME IInv, PlaceInv, WellPlaced, Executing, mem[rip] # CC
  PROVE  Intact(rip) /\ ~ExecuteClobbered
<1>1. rip \in Insn /\ rip \in Addr /\ Live
  BY AtInsn
<1>2. ASSUME NEW k \in 0..(Size[rip] - 1), rip + k \in Addr
      PROVE  mem[rip + k] = Code[rip + k]
  <2>1. CASE k = 0
    <3>1. mem[rip] = Code[rip]
      BY <1>1 DEF IInv, TableMatchesMemory, Armed
    <3> QED
      BY <1>1, <2>1, <3>1
  <2>2. CASE k # 0
    <3>1. k \in 1..(Size[rip] - 1)
      BY <1>1, <2>2
    <3>2. rip + k \notin BreakArgs
      BY <1>1, <3>1 DEF WellPlaced
    <3>3. ~Listed(rip + k)
      BY <3>2, ListedInArgs
    <3> QED
      BY <1>1, <1>2, <3>3 DEF IInv, TableMatchesMemory, Armed
  <2> QED
    BY <2>1, <2>2
<1>3. Intact(rip)
  BY <1>2 DEF Intact
<1> QED
  BY <1>3 DEF ExecuteClobbered

(* An int3 that is not one of the debugger's is the program's own. *)
LEMMA OwnTrap ==
  ASSUME IInv, PlaceInv, WellPlaced, Executing, mem[rip] = CC,
         child = "stepping" \/ ~Listed(rip)
  PROVE  rip + 1 \in Succ[rip] /\ rip + 1 \in Insn
<1>1. rip \in Insn /\ rip \in Addr /\ Live
  BY AtInsn
<1>2. Code[rip] = CC
  <2>1. CASE ~Listed(rip)
    BY <1>1, <2>1 DEF IInv, TableMatchesMemory, Armed
  <2>2. CASE Listed(rip) /\ child = "stepping"
    <3>1. SteppingOver
      BY <2>2 DEF IInv, StateMatchesChild, PlaceInv, SteppingOver
    <3> QED
      BY <1>1, <2>2, <3>1 DEF PlaceInv, IInv, TableMatchesMemory
  <2> QED
    BY <2>1, <2>2
<1> QED
  BY <1>1, <1>2 DEF WellPlaced

-----------------------------------------------------------------------------
(* The table's part of the invariant. *)

ArgsInv ==
  /\ \A i \in 1..Len(bptab) : bptab[i].addr \in BreakArgs
  /\ \A i \in 1..Len(bptab) : bptab[i].addr \in Insn =>
       \A x \in Printed(bptab[i].addr) : bptab[i].code[x] = Code[x]

(* An instruction's bytes after the first are never armed. *)
LEMMA TailNotListed ==
  ASSUME IInv, PlaceInv, WellPlaced, NEW a \in Insn, NEW x \in Printed(a), x # a
  PROVE  ~Listed(x)
<1>1. a \in Nat /\ x \in Nat /\ Size[a] \in Nat /\ x >= a /\ x < a + Size[a]
  BY DEF Printed, Word
<1>2. x - a \in 1..(Size[a] - 1) /\ x = a + (x - a)
  BY <1>1
<1>3. x \notin BreakArgs
  BY <1>2 DEF WellPlaced
<1> QED
  BY <1>3, ListedInArgs

LEMMA NextArgs ==
  ASSUME ~Rebreak, WellPlaced, IInv, PlaceInv, [Next]_vars
  PROVE  ArgsInv'
<1>1. ASSUME bptab' = bptab PROVE ArgsInv'
  BY <1>1 DEF PlaceInv, ArgsInv, Printed
<1>2. ASSUME NEW a \in BreakArgs, ~Listed(a), set_break_point(a) PROVE ArgsInv'
  <2>1. a \in Addr /\ PeekText(mem, a) \in [Word(a) -> Byte]
    BY <1>2, PeekTextType DEF set_break_point, IInv, TypeOK
  <2> DEFINE e == [addr |-> a, code |-> PeekText(mem, a)]
  <2>2. e \in Breakpoint
    BY <2>1, MakeBreakpoint
  <2>3. bptab' = Add(bptab, a, PeekText(mem, a))
    BY <1>2 DEF set_break_point
  <2>4. /\ Len(bptab') = Len(bptab) + 1 /\ Len(bptab) \in Nat
        /\ \A j \in 1..Len(bptab) : bptab'[j] = bptab[j]
        /\ bptab'[Len(bptab) + 1] = e
    BY <2>2, <2>3, AddEffect DEF IInv, TypeOK
  <2>5. Live /\ ~SteppingOver
    BY <1>2 DEF set_break_point, Running, Live, SteppingOver
  <2>6. ASSUME a \in Insn, NEW x \in Printed(a) PROVE e.code[x] = Code[x]
    <3>1. x \in Word(a) /\ x \in Addr
      BY <2>1, <2>6, OwnWord DEF Printed
    <3>2. ~Listed(x)
      BY <1>2, <2>6, TailNotListed
    <3>3. mem[x] = Code[x]
      BY <2>5, <3>1, <3>2 DEF IInv, TableMatchesMemory, Armed
    <3> QED
      BY <3>1, <3>3 DEF PeekText, Restrict
  <2> HIDE DEF e
  <2>7. e.addr = a
    BY DEF e
  <2> SUFFICES ASSUME NEW j \in 1..Len(bptab')
               PROVE  /\ bptab'[j].addr \in BreakArgs
                      /\ bptab'[j].addr \in Insn =>
                           \A x \in Printed(bptab'[j].addr) : bptab'[j].code[x] = Code[x]
    BY DEF ArgsInv, Printed
  <2>8. CASE j \in 1..Len(bptab)
    BY <2>4, <2>8 DEF PlaceInv
  <2>9. CASE j = Len(bptab) + 1
    BY <2>4, <2>6, <2>7, <2>9
  <2> QED
    BY <2>4, <2>8, <2>9
<1>3. ASSUME NEW i \in 1..MaxBreakpoints, delete_break_point(i) PROVE ArgsInv'
  <2>1. i \in 1..Len(bptab) /\ bptab' = Del(bptab, i)
    BY <1>3 DEF delete_break_point, IncludeIdx
  <2>2. \A j \in 1..Len(bptab') : \E k \in 1..Len(bptab) : bptab'[j] = bptab[k]
    <3>1. bptab \in Seq(Breakpoint)
      BY DEF IInv, TypeOK
    <3> QED
      BY <2>1, <3>1, DelEntries
  <2> SUFFICES ASSUME NEW j \in 1..Len(bptab')
               PROVE  /\ bptab'[j].addr \in BreakArgs
                      /\ bptab'[j].addr \in Insn =>
                           \A x \in Printed(bptab'[j].addr) : bptab'[j].code[x] = Code[x]
    BY DEF ArgsInv, Printed
  <2>3. PICK k \in 1..Len(bptab) : bptab'[j] = bptab[k]
    BY <2>2
  <2> QED
    BY <2>3 DEF PlaceInv
<1>4. CASE load \/ start \/ run \/ cont \/ step_in \/ RunDead \/ exit
           \/ StartFails \/ ForkedExits \/ \E v \in JumpArgs : set_reg(v)
  BY <1>1, <1>4 DEF load, start, run, Launch, cont, step_in, RunDead, exit,
     StartFails, ForkedExits, set_reg
<1>5. CASE WaitReturns
  BY <1>1, <1>5 DEF WaitReturns, ChildExited, AssertFails, StepOverDone, Resume,
     StepDone, ContDone
<1>6. CASE Process \/ UNCHANGED vars
  BY <1>1, <1>6 DEF Process, vars, dbgVars
<1> QED
  BY <1>2, <1>3, <1>4, <1>5, <1>6 DEF Next, Command, Terminated

-----------------------------------------------------------------------------
(* The process's part of the invariant. *)

StopInv ==
  /\ Live => Ip \in Insn
  /\ (SteppingOver /\ child = "stepping") => rip = over.addr
  /\ (pc = "stepping" /\ child = "stepping") => ~Listed(rip)
  /\ (pc = "continuing" /\ child = "stopped") =>
       \/ cause = "int3"
       \/ cause = "signal" /\ ~Listed(rip - 1)

LEMMA BeginContStop ==
  ASSUME NEW m, NEW r \in Insn, NEW set, BeginCont(m, r, set), rip' = r,
         bptab' = bptab
  PROVE  StopInv'
<1>1. Ip' = rip' /\ pc' \in {"contOver", "continuing"} /\ child' # "stopped"
  BY DEF BeginCont, RestoreAndStep, Ip, AtTrap, Live, Executing
<1>2. SteppingOver' => over'.addr = r
  BY DEF BeginCont, RestoreAndStep, SteppingOver
<1> QED
  BY <1>1, <1>2 DEF StopInv, SteppingOver

LEMMA NextStop ==
  ASSUME ~Rebreak, WellPlaced, IInv, PlaceInv, [Next]_vars
  PROVE  StopInv'
<1>1. CASE ~Live'
  BY <1>1 DEF StopInv, Live, Executing
<1>2. ASSUME pc' \in {"prompt", "exited", "aborted"}, Live' => rip' \in Insn
      PROVE  StopInv'
  BY <1>2 DEF StopInv, Ip, AtTrap, SteppingOver
<1>3. Running => rip \in Insn
  BY DEF Running, PlaceInv, Ip, AtTrap, Live
<1>4. CASE load
  BY <1>1, <1>4 DEF load, traceeVars, Live, Executing, IInv, StateMatchesChild
<1>5. CASE start
  BY <1>2, <1>5 DEF start, Launch, WellPlaced
<1>6. CASE run
  BY <1>6, BeginContStop DEF run, Launch, WellPlaced
<1>7. CASE cont
  BY <1>3, <1>7, BeginContStop DEF cont
<1>8. CASE step_in
  BY <1>3, <1>8 DEF step_in, RestoreAndStep, StopInv, SteppingOver, Ip, AtTrap, Listed
<1>9. CASE RunDead \/ exit \/ ChildExited \/ AssertFails \/ StartFails \/ ForkedExits
  BY <1>1, <1>9 DEF RunDead, exit, ChildExited, AssertFails, StartFails, ForkedExits,
     traceeVars, Live, Executing, IInv, StateMatchesChild
<1>10. ASSUME NEW v \in JumpArgs, set_reg(v) PROVE StopInv'
  BY <1>2, <1>3, <1>10 DEF set_reg, Running, WellPlaced
<1>11. ASSUME NEW a \in BreakArgs, set_break_point(a) PROVE StopInv'
  BY <1>2, <1>3, <1>11 DEF set_break_point, Running
<1>12. ASSUME NEW i \in 1..MaxBreakpoints, delete_break_point(i) PROVE StopInv'
  BY <1>2, <1>3, <1>12 DEF delete_break_point, Running
<1>13. CASE StepOverDone
  <2>1. rip \in Insn
    BY <1>13 DEF StepOverDone, PlaceInv, Live, Ip, AtTrap
  <2> QED
    BY <1>13, <2>1 DEF StepOverDone, StopInv, SteppingOver, Ip, AtTrap
<1>14. CASE Resume
  <2>1. Live => rip \in Insn
    BY <1>14 DEF Resume, PlaceInv, Ip, AtTrap
  <2> QED
    BY <1>14, <2>1 DEF Resume, StopInv, SteppingOver, Ip, AtTrap, Live, Executing
<1>15. CASE StepDone
  <2>1. rip \in Insn
    BY <1>15 DEF StepDone, PlaceInv, Live, Ip, AtTrap
  <2> QED
    BY <1>2, <1>15, <2>1 DEF StepDone, traceeVars
<1>16. CASE ContDone
  <2>1. rip' = Ip /\ Ip \in Insn
    BY <1>16 DEF ContDone, PlaceInv, Live, Ip, AtTrap
  <2> QED
    BY <1>2, <1>16, <2>1 DEF ContDone
<1>17. CASE Process
  <2>1. UNCHANGED <<pc, bptab, over>>
    BY <1>17 DEF Process, dbgVars
  <2>2. \A x : Listed(x)' <=> Listed(x)
    BY <2>1 DEF Listed
  <2>3. CASE ExitProcess \/ Kill
    BY <1>1, <2>3 DEF ExitProcess, Kill, Live, Executing
  <2>4. ASSUME Executing PROVE rip \in Insn /\ rip \in Addr /\ rip \in Nat
    BY <2>4, AtInsn
  <2>5. CASE Execute
    <3>1. rip' \in Insn /\ child' # "stepping"
      BY <2>4, <2>5 DEF Execute, Executing, Retire, WellPlaced
    <3>2. child' = "stopped" => pc # "continuing"
      BY <2>5 DEF Execute, Executing, Retire, IInv, StateMatchesChild
    <3> QED
      BY <2>1, <3>1, <3>2 DEF StopInv, Ip, AtTrap, SteppingOver
  <2>6. CASE ExecuteClobbered
    BY <2>6, InsnIntact DEF ExecuteClobbered
  <2>7. CASE Trap
    <3>1. rip' = rip + 1 /\ child' = "stopped" /\ cause' = "int3" /\ Executing
      BY <2>7 DEF Trap
    <3>2. CASE child = "stepping" \/ ~Listed(rip)
      <4>1. rip' \in Insn
        BY <2>7, <3>1, <3>2, OwnTrap DEF Trap
      <4>2. child = "stepping" => pc # "continuing"
        BY DEF IInv, StateMatchesChild
      <4>3. ~AtTrap'
        BY <2>1, <2>2, <2>4, <3>1, <3>2, <4>2 DEF AtTrap
      <4> QED
        BY <3>1, <4>1, <4>3 DEF StopInv, Ip
    <3>3. CASE child # "stepping" /\ Listed(rip)
      <4>1. pc = "continuing"
        BY <3>1, <3>3 DEF IInv, StateMatchesChild, Executing
      <4>2. AtTrap'
        BY <2>1, <2>2, <2>4, <3>1, <3>3, <4>1 DEF AtTrap
      <4>3. Ip' = rip
        BY <2>4, <3>1, <4>2 DEF Ip, Live
      <4> QED
        BY <2>4, <3>1, <4>3 DEF StopInv
    <3> QED
      BY <3>2, <3>3
  <2>8. CASE SignalStop
    <3>1. rip' = rip /\ child' = "stopped" /\ cause' = "signal" /\ Executing
      BY <2>8 DEF SignalStop
    <3>2. rip \in SignalAddrs
      BY <2>4, <2>8, <3>1, InsnIntact DEF SignalStop
    <3>3. ~Listed(rip - 1)
      <4>1. ASSUME Listed(rip - 1) PROVE FALSE
        <5>1. rip - 1 \in BreakArgs /\ (rip - 1) + 1 = rip
          BY <2>4, <3>1, <4>1, ListedInArgs
        <5> QED
          BY <3>2, <5>1 DEF WellPlaced
      <4> QED
        BY <4>1
    <3> QED
      BY <2>2, <2>4, <3>1, <3>3 DEF StopInv, Ip, AtTrap
  <2> QED
    BY <1>17, <2>3, <2>5, <2>6, <2>7, <2>8 DEF Process, TraceeStep
<1>18. CASE UNCHANGED vars
  BY <1>18 DEF vars, dbgVars, traceeVars, PlaceInv, StopInv, Ip, AtTrap, Live,
     Executing, SteppingOver, Listed
<1> QED
  BY <1>4, <1>5, <1>6, <1>7, <1>8, <1>9, <1>10, <1>11, <1>12, <1>13, <1>14, <1>15,
     <1>16, <1>17, <1>18 DEF Next, Command, WaitReturns, Terminated

LEMMA PlaceInit == Init => PlaceInv
BY DEF Init, PlaceInv, Live, Executing, SteppingOver

LEMMA PlaceNext ==
  ~Rebreak /\ WellPlaced /\ IInv /\ PlaceInv /\ [Next]_vars => PlaceInv'
<1> SUFFICES ASSUME ~Rebreak, WellPlaced, IInv, PlaceInv, [Next]_vars
             PROVE  PlaceInv'
  OBVIOUS
<1>1. ArgsInv' /\ StopInv'
  BY NextArgs, NextStop
<1> QED
  BY <1>1 DEF PlaceInv, ArgsInv, StopInv

LEMMA PlaceInvariance ==
  ASSUME ~Rebreak, WellPlaced PROVE Spec => [](IInv /\ PlaceInv)
<1>1. IInv /\ PlaceInv /\ [Next]_vars => IInv' /\ PlaceInv'
  BY InvNext, PlaceNext
<1> QED
  BY <1>1, InvInit, PlaceInit, PTL DEF Spec

(* In a well-placed session cont reports a break point exactly when the    *)
(* process ran into it.                                                    *)
THEOREM HitCorrect == ASSUME ~Rebreak, WellPlaced PROVE Spec => HitMeansTrap
<1>1. IInv /\ PlaceInv /\ [Next]_vars => [HitIffTrap]_vars
  <2> SUFFICES ASSUME PlaceInv, Next, pc = "continuing", pc' = "prompt",
                      child' = "stopped"
               PROVE  report'.kind = "hit" <=> cause = "int3" /\ Listed(rip - 1)
    BY DEF HitIffTrap
  <2>1. ContDone
    BY DEF Next, Command, load, start, run, Launch, cont, RunDead, step_in, exit,
       StartFails, ForkedExits, set_reg, set_break_point, delete_break_point, Running, WaitReturns,
       ChildExited, AssertFails, StepOverDone, Resume, StepDone, Process, dbgVars,
       Terminated
  <2>2. report'.kind = "hit" <=> Listed(rip - 1)
    BY <2>1 DEF ContDone, ReportAt
  <2>3. Listed(rip - 1) => cause = "int3"
    BY <2>1 DEF ContDone, PlaceInv
  <2> QED
    BY <2>2, <2>3
<1> QED
  BY <1>1, PlaceInvariance, PTL DEF HitMeansTrap, Spec

(* In a well-placed session the disassembly of the program's instructions  *)
(* never shows a break point's int3.                                       *)
THEOREM DisasmCorrect ==
  ASSUME ~Rebreak, WellPlaced PROVE Spec => []DisasmHidesTraps
<1>1. IInv /\ PlaceInv => DisasmHidesTraps
  <2> SUFFICES ASSUME IInv, PlaceInv, pc = "prompt", child = "stopped",
                      NEW a \in Insn, NEW x \in Printed(a)
               PROVE  disasm(a)[x] = Code[x]
    BY DEF DisasmHidesTraps
  <2>1. x \in Word(a) /\ x \in Addr /\ a \in Addr
    BY OwnWord DEF Printed
  <2>2. CASE Listed(a)
    <3>1. \E i \in 1..Len(bptab) : EntryAt(bptab, a) = bptab[i] /\ bptab[i].addr = a
      BY <2>2, ListedEntry DEF IInv, TypeOK
    <3> QED
      BY <2>2, <3>1 DEF disasm, PlaceInv
  <2>3. CASE ~Listed(a)
    <3>1. ~Listed(x)
      BY <2>3, TailNotListed
    <3>2. mem[x] = Code[x]
      BY <2>1, <3>1 DEF IInv, TableMatchesMemory, Armed, Live
    <3> QED
      BY <2>1, <2>3, <3>2 DEF disasm, PeekText, Restrict
  <2> QED
    BY <2>2, <2>3
<1> QED
  BY <1>1, PlaceInvariance, PTL

-----------------------------------------------------------------------------
(* The refinement. *)

(* The user's view, case by case. *)
ViewFacts ==
  /\ ~Live => Mode = "absent" /\ Ip = 0
  /\ Live => Mode # "absent"
  /\ Live /\ pc = "prompt" => Mode = "paused" /\ Ip = rip
  /\ Live /\ pc \in {"siOver", "stepping"} =>
       Mode = (IF child = "stopped" THEN "stepped" ELSE "stepping") /\ Ip = rip
  /\ Live /\ pc \in {"contOver", "resume", "continuing"} => Mode = "running"
  /\ Live /\ ~AtTrap => Ip = rip
  /\ Live /\ AtTrap => Ip = rip - 1

LEMMA View == ViewFacts /\ ViewFacts'
BY DEF ViewFacts, Mode, Ip, AtTrap

(* Every step of the debugger or of the process is a step of the abstract  *)
(* debuggee or leaves the user's view as it is.                            *)
LEMMA ViewStep ==
  ASSUME ~Rebreak, WellPlaced, IInv, PlaceInv, [Next]_vars
  PROVE  User!Next \/ UNCHANGED <<Mode, Ip>>
<1> USE View DEF ViewFacts
<1>1. CASE ~Live /\ ~Live'
  BY <1>1
<1>2. CASE load
  BY <1>1, <1>2 DEF load, traceeVars, Live, Executing, IInv, StateMatchesChild
<1>3. CASE start \/ run
  <2>1. ~Live /\ Live' /\ ~AtTrap' /\ rip' = EntryRip
    BY <1>3 DEF start, run, Launch, BeginCont, RestoreAndStep, Live, Executing,
       AtTrap, IInv, StateMatchesChild
  <2>2. pc' \in {"prompt", "contOver", "continuing"}
    BY <1>3 DEF start, run, Launch, BeginCont
  <2>3. User!Launch
    BY <2>1, <2>2 DEF User!Launch
  <2> QED
    BY <2>3 DEF User!Next
<1>4. CASE cont
  <2>1. Live /\ Live' /\ pc = "prompt" /\ ~AtTrap' /\ rip' = rip
        /\ pc' \in {"contOver", "continuing"}
    BY <1>4 DEF cont, Running, BeginCont, RestoreAndStep, Live, Executing, AtTrap
  <2>2. User!LetRun
    BY <2>1 DEF User!LetRun
  <2> QED
    BY <2>2 DEF User!Next
<1>5. CASE step_in
  <2>1. Live /\ Live' /\ pc = "prompt" /\ rip' = rip /\ child' = "stepping"
        /\ pc' \in {"siOver", "stepping"}
    BY <1>5 DEF step_in, Running, RestoreAndStep, Live, Executing
  <2>2. User!LetRun
    BY <2>1 DEF User!LetRun
  <2> QED
    BY <2>2 DEF User!Next
<1>6. ASSUME NEW v \in JumpArgs, set_reg(v)
      PROVE  User!Next \/ UNCHANGED <<Mode, Ip>>
  <2>1. Live /\ Live' /\ pc = "prompt" /\ pc' = "prompt"
    BY <1>6 DEF set_reg, Running, Live
  <2>2. CASE v = 0
    BY <1>6, <2>1, <2>2 DEF set_reg
  <2>3. CASE v # 0
    BY <1>6, <2>1, <2>3 DEF set_reg, User!Jump, User!Next
  <2> QED
    BY <2>2, <2>3
<1>7. CASE \/ \E a \in BreakArgs : set_break_point(a)
           \/ \E i \in 1..MaxBreakpoints : delete_break_point(i)
  BY <1>7 DEF set_break_point, delete_break_point, Running, Live
<1>8. CASE exit
  <2>1. pc = "prompt" /\ ~Live'
    BY <1>8 DEF exit, Live, Executing
  <2>2. CASE Live
    BY <2>1, <2>2 DEF User!Quit, User!Gone, User!Next
  <2> QED
    BY <1>1, <2>1, <2>2
<1>9. CASE RunDead \/ ChildExited \/ AssertFails \/ StartFails \/ ForkedExits
  BY <1>1, <1>9 DEF RunDead, ChildExited, AssertFails, StartFails, ForkedExits,
     traceeVars, Live, Executing, IInv, StateMatchesChild
<1>10. CASE StepOverDone
  <2>1. Live /\ Live' /\ rip' = rip /\ child = "stopped" /\ ~AtTrap /\ ~AtTrap'
    BY <1>10 DEF StepOverDone, Live, AtTrap
  <2>2. CASE pc = "siOver" /\ pc' = "prompt"
    BY <2>1, <2>2 DEF User!Pause, User!Next
  <2>3. CASE pc = "contOver" /\ pc' = "resume"
    BY <2>1, <2>3
  <2> QED
    BY <1>10, <2>2, <2>3 DEF StepOverDone
<1>11. CASE Resume
  <2>1. CASE child = "stopped" /\ child' = "running" /\ pc' = "continuing"
    BY <1>11, <2>1 DEF Resume, Live, Executing, AtTrap
  <2>2. CASE child = "killed" /\ UNCHANGED child
    BY <1>1, <2>2 DEF Live, Executing
  <2> QED
    BY <1>11, <2>1, <2>2 DEF Resume
<1>12. CASE StepDone
  BY <1>12 DEF StepDone, traceeVars, Live, User!Pause, User!Next
<1>13. CASE ContDone
  <2>1. Live /\ Live' /\ rip' = Ip
    BY <1>13 DEF ContDone, PlaceInv, Live, Executing, AtTrap
  <2> QED
    BY <1>13, <2>1 DEF ContDone, User!Pause, User!Next
<1>14. CASE Process
  <2>1. UNCHANGED <<pc, bptab>>
    BY <1>14 DEF Process, dbgVars
  <2>2. CASE Kill
    BY <2>2 DEF Kill, Live, Executing, User!Killed, User!Gone, User!Next
  <2>3. CASE TraceeStep
    <3>1. Executing
      BY <2>3 DEF TraceeStep, Trap, Execute, ExecuteClobbered, ExitProcess, SignalStop
    <3>2. rip \in Insn /\ rip \in Addr /\ rip \in Nat /\ Ip = rip /\ Live
      BY <3>1, AtInsn
    <3>3. /\ pc \in Waiting
          /\ child = "stepping" \/ (child = "running" /\ pc = "continuing")
          /\ child = "stepping" => pc # "continuing"
      BY <3>1 DEF Executing, IInv, StateMatchesChild, Waiting
    <3>4. CASE Execute
      <4>1. /\ rip' \in Succ[rip] /\ Live' /\ ~AtTrap'
            /\ child' = IF child = "stepping" THEN "stopped" ELSE child
        BY <2>1, <3>2, <3>3, <3>4 DEF Execute, Retire, Live, Executing, AtTrap
      <4>2. User!Execute
        BY <2>1, <3>2, <3>3, <4>1 DEF User!Execute, Waiting
      <4> QED
        BY <4>2 DEF User!Next
    <3>5. CASE ExecuteClobbered
      BY <3>5, InsnIntact DEF ExecuteClobbered
    <3>6. CASE ExitProcess
      <4>1. rip \in MayExit /\ ~Live'
        BY <3>6, InsnIntact DEF ExitProcess, Live, Executing
      <4> QED
        BY <3>2, <3>3, <4>1 DEF User!Exit, User!Gone, User!Next, Waiting
    <3>7. CASE Trap
      <4>1. rip' = rip + 1 /\ child' = "stopped" /\ cause' = "int3" /\ Live'
        BY <3>7 DEF Trap, Live
      <4>2. CASE child = "stepping" \/ ~Listed(rip)
        <5>1. rip' \in Succ[rip]
          BY <3>1, <3>7, <4>1, <4>2, OwnTrap DEF Trap
        <5>2. ~AtTrap'
          BY <2>1, <3>2, <3>3, <4>1, <4>2 DEF AtTrap, Listed
        <5>3. User!Execute
          BY <2>1, <3>2, <3>3, <4>1, <5>1, <5>2 DEF User!Execute, Waiting
        <5> QED
          BY <5>3 DEF User!Next
      <4>3. CASE child # "stepping" /\ Listed(rip)
        <5>1. AtTrap'
          BY <2>1, <3>2, <3>3, <4>1, <4>3 DEF AtTrap, Listed
        <5> QED
          BY <2>1, <3>2, <3>3, <4>1, <4>3, <5>1
      <4> QED
        BY <4>2, <4>3
    <3>8. CASE SignalStop
      <4>1. rip' = rip /\ child' = "stopped" /\ Live' /\ ~AtTrap'
        BY <3>8 DEF SignalStop, Live, AtTrap
      <4> QED
        BY <2>1, <3>2, <3>3, <4>1 DEF User!Interrupt, User!Next, Waiting
    <3> QED
      BY <2>3, <3>4, <3>5, <3>6, <3>7, <3>8 DEF TraceeStep
  <2> QED
    BY <1>14, <2>2, <2>3 DEF Process
<1>15. CASE UNCHANGED vars
  BY <1>15 DEF vars, dbgVars, traceeVars, Mode, Ip, AtTrap, Live, Executing, Listed
<1> QED
  BY <1>2, <1>3, <1>4, <1>5, <1>6, <1>7, <1>8, <1>9, <1>10, <1>11, <1>12, <1>13,
     <1>14, <1>15 DEF Next, Command, WaitReturns, Terminated

(* A well-placed session shows its user the program executing its own      *)
(* instructions and nothing else: the debugger implements Debuggee.        *)
THEOREM Transparency == ASSUME ~Rebreak, WellPlaced PROVE Spec => Transparent
<1>1. Init => User!Init
  BY View DEF Init, ViewFacts, Live, Executing, User!Init
<1>2. IInv /\ PlaceInv /\ [Next]_vars => [User!Next]_<<Mode, Ip>>
  BY ViewStep
<1> QED
  BY <1>1, <1>2, PlaceInvariance, PTL DEF Transparent, User!Spec, Spec

=============================================================================
