--------------------------- MODULE DebuggerProofs ---------------------------
(***************************************************************************)
(* Proofs about the debugger, for every program, every text section and    *)
(* every number of break points.                                           *)
(***************************************************************************)
EXTENDS Debugger, SequenceTheorems, WellFoundedInduction, TLAPS

-----------------------------------------------------------------------------
(* What the operations of breakpoint_table return, for every table. *)

(* A non-empty set of naturals has a least element. *)
LEMMA LeastNat ==
  ASSUME NEW T, T \subseteq Nat, T # {}
  PROVE  \E x \in T : \A y \in T : x <= y
<1> DEFINE R == OpToRel(<, Nat)
<1>1. IsWellFoundedOn(R, Nat)
  BY NatLessThanWellFounded, Zenon
<1> HIDE DEF R
<1>2. PICK x \in T : \A y \in T : ~(<<y, x>> \in R)
  BY <1>1, WFMin, Zenon
<1>3. \A y \in T : ~(y < x)
  BY <1>2 DEF R, OpToRel
<1> QED
  BY <1>3

(* dict_addr2idx finds an entry of that address whenever there is one, and *)
(* the entry it finds is the first.                                        *)
LEMMA FindsEntry ==
  ASSUME NEW data, Len(data) \in Nat, NEW addr,
         \E i \in 1..Len(data) : data[i].addr = addr
  PROVE  /\ dict_addr2idx(data, addr) \in 1..Len(data)
         /\ data[dict_addr2idx(data, addr)].addr = addr
         /\ \A j \in 1..(dict_addr2idx(data, addr) - 1) : data[j].addr # addr
<1> DEFINE T == {i \in 1..Len(data) : data[i].addr = addr}
<1>1. T \subseteq Nat /\ T # {}
  OBVIOUS
<1>2. PICK m \in T : \A y \in T : m <= y
  BY <1>1, LeastNat
<1>3. /\ m \in 1..Len(data)
      /\ data[m].addr = addr
      /\ \A j \in 1..(m-1) : data[j].addr # addr
  BY <1>2
<1> QED
  BY <1>3 DEF dict_addr2idx

(* include(addr) answers whether some entry has that address. *)
LEMMA IncludeIff ==
  ASSUME NEW data, Len(data) \in Nat, NEW addr
  PROVE  Include(data, addr) <=> \E i \in 1..Len(data) : data[i].addr = addr
<1>1. CASE \E i \in 1..Len(data) : data[i].addr = addr
  BY <1>1, FindsEntry DEF Include, IncludeIdx
<1>2. CASE ~\E i \in 1..Len(data) : data[i].addr = addr
  BY <1>2 DEF Include, IncludeIdx, dict_addr2idx
<1> QED
  BY <1>1, <1>2

(* add: one more entry at the end, the others where they were. *)
LEMMA AddEffect ==
  ASSUME NEW S, NEW data \in Seq(S), NEW addr, NEW code,
         [addr |-> addr, code |-> code] \in S
  PROVE  /\ Add(data, addr, code) \in Seq(S)
         /\ Len(Add(data, addr, code)) = Len(data) + 1
         /\ \A j \in 1..Len(data) : Add(data, addr, code)[j] = data[j]
         /\ Add(data, addr, code)[Len(data) + 1] = [addr |-> addr, code |-> code]
BY DEF Add

(* del: one entry less, the later ones moved down by one. *)
LEMMA DelEffect ==
  ASSUME NEW S, NEW data \in Seq(S), NEW idx \in 1..Len(data)
  PROVE  /\ Del(data, idx) \in Seq(S)
         /\ Len(Del(data, idx)) = Len(data) - 1
         /\ \A j \in 1..(Len(data) - 1) :
              Del(data, idx)[j] = IF j < idx THEN data[j] ELSE data[j + 1]
<1> DEFINE s == SubSeq(data, 1, idx - 1)
           t == SubSeq(data, idx + 1, Len(data))
<1>1. /\ s \in Seq(S) /\ Len(s) = idx - 1
      /\ \A j \in 1..(idx - 1) : s[j] = data[j]
  OBVIOUS
<1>2. /\ t \in Seq(S) /\ Len(t) = Len(data) - idx
      /\ \A j \in 1..(Len(data) - idx) : t[j] = data[idx + j]
  OBVIOUS
<1>3. Del(data, idx) = s \o t
  BY DEF Del, RemoveAt
<1> HIDE DEF s, t
<1>4. /\ s \o t \in Seq(S)
      /\ Len(s \o t) = Len(s) + Len(t)
      /\ \A j \in 1..Len(s) + Len(t) :
           (s \o t)[j] = IF j <= Len(s) THEN s[j] ELSE t[j - Len(s)]
  BY <1>1, <1>2, ConcatProperties, Zenon
<1>5. ASSUME NEW j \in 1..(Len(data) - 1)
      PROVE  (s \o t)[j] = IF j < idx THEN data[j] ELSE data[j + 1]
  <2>1. CASE j < idx
    BY <1>1, <1>4, <2>1
  <2>2. CASE ~(j < idx)
    <3>1. j - (idx - 1) \in 1..(Len(data) - idx) /\ idx + (j - (idx - 1)) = j + 1
      BY <2>2
    <3> QED
      BY <1>1, <1>2, <1>4, <2>2, <3>1
  <2> QED
    BY <2>1, <2>2
<1>6. Len(s) + Len(t) = Len(data) - 1
  BY <1>1, <1>2
<1> QED
  BY <1>3, <1>4, <1>5, <1>6

(* The entries of a table after del are entries it had before. *)
LEMMA DelEntries ==
  ASSUME NEW S, NEW data \in Seq(S), NEW idx \in 1..Len(data)
  PROVE  \A j \in 1..Len(Del(data, idx)) :
           \E k \in 1..Len(data) : Del(data, idx)[j] = data[k]
<1>1. /\ Len(Del(data, idx)) = Len(data) - 1
      /\ \A j \in 1..(Len(data) - 1) :
           Del(data, idx)[j] = IF j < idx THEN data[j] ELSE data[j + 1]
  BY DelEffect
<1> TAKE j \in 1..Len(Del(data, idx))
<1>2. CASE j < idx
  BY <1>1, <1>2
<1>3. CASE ~(j < idx)
  BY <1>1, <1>3
<1> QED
  BY <1>2, <1>3

(* The addresses of a table after add. *)
LEMMA AddInclude ==
  ASSUME NEW S, NEW data \in Seq(S), NEW addr, NEW code, NEW x,
         [addr |-> addr, code |-> code] \in S
  PROVE  Include(Add(data, addr, code), x) <=> Include(data, x) \/ x = addr
<1> DEFINE e == [addr |-> addr, code |-> code]
           d == Add(data, addr, code)
<1>1. /\ Len(d) = Len(data) + 1 /\ Len(data) \in Nat
      /\ \A j \in 1..Len(data) : d[j] = data[j]
      /\ d[Len(data) + 1].addr = addr
  BY AddEffect
<1>2. Include(data, x) <=> \E i \in 1..Len(data) : data[i].addr = x
  BY <1>1, IncludeIff
<1>3. Include(d, x) <=> \E i \in 1..Len(d) : d[i].addr = x
  BY <1>1, IncludeIff
<1> HIDE DEF d
<1>4. (\E i \in 1..Len(d) : d[i].addr = x)
        <=> (\E i \in 1..Len(data) : data[i].addr = x) \/ x = addr
  BY <1>1
<1> QED
  BY <1>2, <1>3, <1>4 DEF d

(* The addresses of a table after del, when no address occurs twice. *)
LEMMA DelInclude ==
  ASSUME NEW S, NEW data \in Seq(S), NEW idx \in 1..Len(data), NEW x,
         Distinct(data)
  PROVE  Include(Del(data, idx), x) <=> Include(data, x) /\ x # data[idx].addr
<1> DEFINE d == Del(data, idx)
<1>1. /\ Len(d) = Len(data) - 1 /\ Len(data) \in Nat /\ Len(d) \in Nat
      /\ \A j \in 1..(Len(data) - 1) : d[j] = IF j < idx THEN data[j] ELSE data[j + 1]
  BY DelEffect
<1>2. Include(data, x) <=> \E i \in 1..Len(data) : data[i].addr = x
  BY <1>1, IncludeIff
<1>3. Include(d, x) <=> \E i \in 1..Len(d) : d[i].addr = x
  BY <1>1, IncludeIff
<1> HIDE DEF d
<1>4. ASSUME NEW i \in 1..Len(d), d[i].addr = x
      PROVE  Include(data, x) /\ x # data[idx].addr
  BY <1>1, <1>2, <1>4 DEF Distinct
<1>5. ASSUME NEW i \in 1..Len(data), data[i].addr = x, x # data[idx].addr
      PROVE  Include(d, x)
  <2>1. CASE i < idx
    BY <1>1, <1>3, <1>5, <2>1
  <2>2. CASE i > idx
    <3>1. i - 1 \in 1..Len(d) /\ d[i - 1] = data[i]
      BY <1>1, <2>2
    <3> QED
      BY <1>3, <1>5, <3>1
  <2> QED
    BY <1>1, <1>5, <2>1, <2>2
<1> QED
  BY <1>2, <1>3, <1>4, <1>5 DEF d

(* add of a new address, and del, keep the addresses distinct. *)
LEMMA AddDistinct ==
  ASSUME NEW S, NEW data \in Seq(S), NEW addr, NEW code,
         [addr |-> addr, code |-> code] \in S,
         Distinct(data), ~Include(data, addr)
  PROVE  Distinct(Add(data, addr, code))
<1>1. \A i \in 1..Len(data) : data[i].addr # addr
  BY IncludeIff
<1> DEFINE d == Add(data, addr, code)
<1>2. /\ Len(d) = Len(data) + 1 /\ Len(data) \in Nat
      /\ \A j \in 1..Len(data) : d[j] = data[j]
      /\ d[Len(data) + 1].addr = addr
  BY AddEffect
<1> HIDE DEF d
<1>3. Distinct(d)
  BY <1>1, <1>2 DEF Distinct
<1> QED
  BY <1>3 DEF d

LEMMA DelDistinct ==
  ASSUME NEW S, NEW data \in Seq(S), NEW idx \in 1..Len(data), Distinct(data)
  PROVE  Distinct(Del(data, idx))
<1> DEFINE d == Del(data, idx)
<1>0. Len(data) \in Nat
  OBVIOUS
<1>1. /\ Len(d) = Len(data) - 1
      /\ \A j \in 1..(Len(data) - 1) : d[j] = IF j < idx THEN data[j] ELSE data[j + 1]
  BY DelEffect, Zenon
<1> HIDE DEF d
<1>2. Distinct(d)
  BY <1>0, <1>1 DEF Distinct
<1> QED
  BY <1>2 DEF d

-----------------------------------------------------------------------------
(* Facts about the helpers. *)

USE ProgramAssumption, CommandAssumption

LEMMA OwnWord == \A a \in Addr : a \in Word(a) /\ Word(a) \subseteq Addr
BY DEF Word

LEMMA PeekTextType ==
  ASSUME NEW m \in [Addr -> Byte], NEW a \in Addr
  PROVE  PeekText(m, a) \in [Word(a) -> Byte]
BY OwnWord DEF PeekText, Restrict

LEMMA BreakpointFields ==
  ASSUME NEW e \in Breakpoint
  PROVE  e.addr \in Addr /\ e.code \in [Word(e.addr) -> Byte]
BY DEF Breakpoint

LEMMA MakeBreakpoint ==
  ASSUME NEW a \in Addr, NEW w \in [Word(a) -> Byte]
  PROVE  [addr |-> a, code |-> w] \in Breakpoint
<1>1. [addr |-> a, code |-> w] \in [addr : {a}, code : [Word(a) -> Byte]]
  OBVIOUS
<1> QED
  BY <1>1, Zenon DEF Breakpoint

(* Listed finds exactly the addresses of the table's entries, and what it  *)
(* finds is an entry of that address.                                      *)
LEMMA ListedIff ==
  ASSUME bptab \in Seq(Breakpoint), NEW a
  PROVE  Listed(a) <=> \E i \in 1..Len(bptab) : bptab[i].addr = a
BY IncludeIff DEF Listed

LEMMA ListedEntry ==
  ASSUME bptab \in Seq(Breakpoint), NEW a, Listed(a)
  PROVE  /\ a \in Addr
         /\ \E i \in 1..Len(bptab) :
              /\ EntryAt(bptab, a) = bptab[i]
              /\ bptab[i].addr = a
         /\ SavedByte(a) \in Byte
<1>1. \E i \in 1..Len(bptab) : bptab[i].addr = a
  BY ListedIff
<1>2. /\ dict_addr2idx(bptab, a) \in 1..Len(bptab)
      /\ bptab[dict_addr2idx(bptab, a)].addr = a
  BY <1>1, FindsEntry
<1>3. EntryAt(bptab, a) \in Breakpoint
  BY <1>2 DEF EntryAt
<1>4. EntryAt(bptab, a).addr = a
  BY <1>2 DEF EntryAt
<1>5. a \in Addr /\ EntryAt(bptab, a).code \in [Word(a) -> Byte]
  BY <1>3, <1>4, BreakpointFields
<1>6. SavedByte(a) \in Byte
  BY <1>5, OwnWord DEF SavedByte
<1> QED
  BY <1>2, <1>5, <1>6 DEF EntryAt

LEMMA PokeByteType ==
  ASSUME NEW m \in [Addr -> Byte], NEW a \in Addr, NEW b \in Byte
  PROVE  PokeByte(m, a, b) \in [Addr -> Byte]
BY DEF PokeByte

LEMMA PokeTextType ==
  ASSUME NEW m \in [Addr -> Byte], NEW a \in Addr, NEW w \in [Word(a) -> Byte]
  PROVE  PokeText(m, w) \in [Addr -> Byte]
BY DEF PokeText

LEMMA ReputType ==
  ASSUME NEW m \in [Addr -> Byte], NEW b
  PROVE  reput_all_breakpoints_from(m, b) \in [Addr -> Byte]
BY DEF reput_all_breakpoints_from

LEMMA ReportType == ASSUME NEW a \in Int PROVE ReportAt(a) \in Report
BY DEF ReportAt, Report

LEMMA NoReportType ==
  /\ [kind |-> "none", at |-> 0] \in Report
  /\ [kind |-> "exited", at |-> 0] \in Report
BY DEF Report

-----------------------------------------------------------------------------
(* Type correctness. *)

LEMMA RestoreAndStepType ==
  ASSUME bptab \in Seq(Breakpoint), NEW m \in [Addr -> Byte], NEW a,
         Listed(a), RestoreAndStep(m, a)
  PROVE  /\ over' \in Over
         /\ mem' \in [Addr -> Byte]
         /\ child' \in ChildState
<1>1. a \in Addr /\ SavedByte(a) \in Byte
  BY ListedEntry
<1>2. PeekText(m, a) \in [Word(a) -> Byte]
  BY <1>1, PeekTextType
<1>3. over' \in Over
  BY <1>1, <1>2 DEF RestoreAndStep, Over
<1>4. mem' \in [Addr -> Byte]
  BY <1>1, PokeByteType DEF RestoreAndStep
<1> QED
  BY <1>3, <1>4 DEF RestoreAndStep, ChildState

LEMMA BeginContType ==
  ASSUME TypeOK, NEW m \in [Addr -> Byte], NEW r, NEW set, BeginCont(m, r, set)
  PROVE  /\ over' \in Over
         /\ mem' \in [Addr -> Byte]
         /\ child' \in ChildState
         /\ pc' \in PC
<1>1. CASE Listed(r) /\ RestoreAndStep(m, r) /\ pc' = "contOver"
  BY <1>1, RestoreAndStepType DEF TypeOK, PC, Waiting
<1>2. CASE child' = "running" /\ mem' = m /\ pc' = "continuing" /\ UNCHANGED over
  BY <1>2 DEF TypeOK, PC, Waiting, ChildState, Over
<1> QED
  BY <1>1, <1>2 DEF BeginCont

LEMMA InitType == Init => TypeOK
<1> SUFFICES ASSUME Init PROVE TypeOK
  OBVIOUS
<1>1. PeekText(Code, EntryRip) \in [Word(EntryRip) -> Byte]
  BY PeekTextType
<1>2. over \in Over
  BY <1>1 DEF Init, Over
<1>3. report \in Report /\ bptab \in Seq(Breakpoint)
  BY NoReportType DEF Init
<1>4. rip \in Nat /\ text_begin \in Nat /\ text_end \in Nat /\ mem \in [Addr -> Byte]
  BY DEF Init
<1> QED
  BY <1>2, <1>3, <1>4 DEF Init, TypeOK, ChildState, Cause, State, PC

LEMMA NextType == TypeOK /\ [Next]_vars => TypeOK'
<1> SUFFICES ASSUME TypeOK, [Next]_vars PROVE TypeOK'
  OBVIOUS
<1> USE DEF TypeOK
<1>1. CASE load
  BY <1>1 DEF load, traceeVars, State
<1>2. CASE start
  <2>1. FreshImage \in [Addr -> Byte] /\ ReportAt(EntryRip) \in Report
    BY ReputType, ReportType DEF FreshImage
  <2> QED
    BY <1>2, <2>1 DEF start, Launch, State, Cause, ChildState
<1>3. CASE run
  <2>1. FreshImage \in [Addr -> Byte] /\ ReportAt(EntryRip) \in Report
    BY ReputType, ReportType DEF FreshImage
  <2>2. /\ over' \in Over /\ mem' \in [Addr -> Byte]
        /\ child' \in ChildState /\ pc' \in PC
    BY <1>3, <2>1, BeginContType DEF run
  <2> QED
    BY <1>3, <2>1, <2>2 DEF run, Launch, State, Cause
<1>4. CASE cont
  <2>1. /\ over' \in Over /\ mem' \in [Addr -> Byte]
        /\ child' \in ChildState /\ pc' \in PC
    BY <1>4, BeginContType DEF cont
  <2> QED
    BY <1>4, <2>1 DEF cont
<1>5. CASE RunDead
  BY <1>5 DEF RunDead, traceeVars
<1>6. CASE step_in
  <2>1. CASE Listed(rip) /\ RestoreAndStep(mem, rip) /\ pc' = "siOver"
    <3>1. over' \in Over /\ mem' \in [Addr -> Byte] /\ child' \in ChildState
      BY <2>1, RestoreAndStepType
    <3> QED
      BY <1>6, <2>1, <3>1 DEF step_in, PC, Waiting
  <2>2. CASE child' = "stepping" /\ pc' = "stepping" /\ UNCHANGED <<mem, over>>
    BY <1>6, <2>2 DEF step_in, PC, Waiting, ChildState
  <2> QED
    BY <1>6, <2>1, <2>2 DEF step_in
<1>7. ASSUME NEW v \in JumpArgs, set_reg(v) PROVE TypeOK'
  BY <1>7 DEF set_reg
<1>8. ASSUME NEW a \in BreakArgs, set_break_point(a) PROVE TypeOK'
  <2>1. a \in Addr /\ PeekText(mem, a) \in [Word(a) -> Byte]
    BY <1>8, PeekTextType DEF set_break_point
  <2>2. bptab' \in Seq(Breakpoint)
    BY <1>8, <2>1, MakeBreakpoint, AddEffect DEF set_break_point
  <2>3. mem' \in [Addr -> Byte]
    BY <1>8, <2>1, PokeByteType DEF set_break_point
  <2> QED
    BY <1>8, <2>2, <2>3 DEF set_break_point
<1>9. ASSUME NEW i \in 1..MaxBreakpoints, delete_break_point(i) PROVE TypeOK'
  <2>1. i \in 1..Len(bptab) /\ bptab[i] \in Breakpoint
    BY <1>9 DEF delete_break_point, IncludeIdx
  <2>2. bptab' \in Seq(Breakpoint)
    BY <1>9, <2>1, DelEffect DEF delete_break_point
  <2>3. bptab[i].addr \in Addr /\ bptab[i].code[bptab[i].addr] \in Byte
    BY <2>1, BreakpointFields, OwnWord
  <2>4. mem' \in [Addr -> Byte]
    BY <1>9, <2>3, PokeByteType DEF delete_break_point
  <2> QED
    BY <1>9, <2>2, <2>4 DEF delete_break_point
<1>10. CASE exit
  BY <1>10 DEF exit, PC, State, ChildState
<1>11. CASE ChildExited
  BY <1>11, NoReportType DEF ChildExited, PC, State, ChildState
<1>12. CASE AssertFails
  BY <1>12 DEF AssertFails, traceeVars, PC
<1>13. CASE StepOverDone
  <2>1. mem' \in [Addr -> Byte] /\ ReportAt(rip) \in Report
    <3>1. PICK a \in Addr : over.word \in [Word(a) -> Byte]
      BY DEF Over
    <3>2. PokeText(mem, over.word) \in [Addr -> Byte]
      BY <3>1, PokeTextType
    <3>3. ReportAt(rip) \in Report
      BY ReportType
    <3> QED
      BY <1>13, <3>2, <3>3 DEF StepOverDone
  <2> QED
    BY <1>13, <2>1 DEF StepOverDone, PC
<1>14. CASE Resume
  BY <1>14 DEF Resume, PC, Waiting, ChildState
<1>15. CASE StepDone
  <2>1. ReportAt(rip) \in Report
    BY ReportType
  <2> QED
    BY <1>15, <2>1 DEF StepDone, traceeVars, PC
<1>16. CASE ContDone
  <2>1. Listed(rip - 1) => rip - 1 \in Nat
    BY ListedEntry
  <2>2. ReportAt(rip - 1) \in Report
    BY ReportType
  <2> QED
    BY <1>16, <2>1, <2>2 DEF ContDone, PC
<1>17. CASE Process
  BY <1>17 DEF Process, dbgVars, TraceeStep, Trap, Execute, ExecuteClobbered,
     ExitProcess, SignalStop, Kill, Retire, ChildState, Cause
<1>18. CASE UNCHANGED vars
  BY <1>18 DEF vars, traceeVars, dbgVars
<1>19. CASE StartFails \/ ForkedExits
  BY <1>19 DEF StartFails, ForkedExits, traceeVars, PC
<1> QED
  BY <1>1, <1>2, <1>3, <1>4, <1>5, <1>6, <1>7, <1>8, <1>9, <1>10, <1>11, <1>12,
     <1>13, <1>14, <1>15, <1>16, <1>17, <1>18, <1>19
     DEF Next, Command, WaitReturns, Terminated

(* Every value the debugger keeps about the process stays within its type, *)
(* whatever the user types (a second break at an address included).        *)
THEOREM TypeCorrect == Spec => []TypeOK
BY InitType, NextType, PTL DEF Spec

-----------------------------------------------------------------------------
(* The debugger's state and the process. *)

LEMMA NextState ==
  TypeOK /\ StateMatchesChild /\ [Next]_vars => StateMatchesChild'
<1> SUFFICES ASSUME TypeOK, StateMatchesChild, [Next]_vars
             PROVE  StateMatchesChild'
  OBVIOUS
<1> USE DEF StateMatchesChild, Waiting
<1>1. CASE load
  BY <1>1 DEF load, traceeVars
<1>2. CASE start
  BY <1>2 DEF start, Launch
<1>3. CASE run
  BY <1>3 DEF run, Launch, BeginCont, RestoreAndStep
<1>4. CASE cont
  BY <1>4 DEF cont, Running, BeginCont, RestoreAndStep
<1>5. CASE RunDead
  BY <1>5 DEF RunDead, traceeVars
<1>6. CASE step_in
  BY <1>6 DEF step_in, Running, RestoreAndStep
<1>7. ASSUME NEW v \in JumpArgs, set_reg(v) PROVE StateMatchesChild'
  BY <1>7 DEF set_reg
<1>8. ASSUME NEW a \in BreakArgs, set_break_point(a) PROVE StateMatchesChild'
  BY <1>8 DEF set_break_point
<1>9. ASSUME NEW i \in 1..MaxBreakpoints, delete_break_point(i)
      PROVE  StateMatchesChild'
  BY <1>9 DEF delete_break_point
<1>10. CASE exit
  BY <1>10 DEF exit
<1>11. CASE ChildExited
  BY <1>11 DEF ChildExited
<1>12. CASE AssertFails
  BY <1>12 DEF AssertFails, traceeVars
<1>13. CASE StepOverDone
  BY <1>13 DEF StepOverDone
<1>14. CASE Resume
  BY <1>14 DEF Resume
<1>15. CASE StepDone
  BY <1>15 DEF StepDone, traceeVars
<1>16. CASE ContDone
  BY <1>16 DEF ContDone
<1>17. CASE Process
  BY <1>17 DEF Process, dbgVars, TraceeStep, Trap, Execute, ExecuteClobbered,
     ExitProcess, SignalStop, Kill, Retire, Executing, Live
<1>18. CASE UNCHANGED vars
  BY <1>18 DEF vars, traceeVars, dbgVars
<1>19. CASE StartFails \/ ForkedExits
  BY <1>19 DEF StartFails, ForkedExits, traceeVars
<1> QED
  BY <1>1, <1>2, <1>3, <1>4, <1>5, <1>6, <1>7, <1>8, <1>9, <1>10, <1>11, <1>12,
     <1>13, <1>14, <1>15, <1>16, <1>17, <1>18, <1>19
     DEF Next, Command, WaitReturns, Terminated

(* The debugger never loses track of whether there is a process, and the   *)
(* process never executes while the debugger is at its prompt.             *)
THEOREM StateCorrect == Spec => []StateMatchesChild
<1>1. Init => StateMatchesChild
  BY DEF Init, StateMatchesChild, Waiting
<1> QED
  BY <1>1, InitType, NextType, NextState, PTL DEF Spec

-----------------------------------------------------------------------------
(* The table of break points, when no address is broken twice. *)

TableInv == Distinct(bptab) /\ TableInText /\ SavedCodeIsOriginal

LEMMA NextTable ==
  ASSUME ~Rebreak, IInv, [Next]_vars
  PROVE  TableInv'
<1> USE DEF IInv
<1>1. ASSUME bptab' = bptab, text_begin' = text_begin,
             state' = "NOLOAD" => state = "NOLOAD"
      PROVE  TableInv'
  BY <1>1 DEF TableInv, TableInText, SavedCodeIsOriginal
<1>2. CASE load
  <2>1. bptab = <<>> /\ bptab' = <<>>
    BY <1>2 DEF load, TableInText
  <2> QED
    BY <2>1 DEF TableInv, TableInText, SavedCodeIsOriginal, Distinct
<1>3. ASSUME NEW a \in BreakArgs, ~Listed(a), set_break_point(a) PROVE TableInv'
  <2>1. a \in Addr /\ PeekText(mem, a) \in [Word(a) -> Byte]
    BY <1>3, PeekTextType DEF set_break_point, TypeOK
  <2> DEFINE e == [addr |-> a, code |-> PeekText(mem, a)]
  <2>2. e \in Breakpoint
    BY <2>1, MakeBreakpoint
  <2>3. bptab' = Add(bptab, a, PeekText(mem, a))
    BY <1>3 DEF set_break_point
  <2>4. /\ Len(bptab') = Len(bptab) + 1 /\ Len(bptab) \in Nat
        /\ \A j \in 1..Len(bptab) : bptab'[j] = bptab[j]
        /\ bptab'[Len(bptab) + 1] = e
    BY <2>2, <2>3, AddEffect DEF TypeOK
  <2>5. Distinct(bptab')
    BY <1>3, <2>2, <2>3, AddDistinct DEF TypeOK, Listed
  <2>6. TableInText'
    BY <1>3, <2>4 DEF set_break_point, TableInText, Running
  <2>7. mem[a] = Code[a]
    BY <1>3, <2>1 DEF TableMatchesMemory, Armed, set_break_point, Running, Live,
       SteppingOver
  <2>8. e.code[e.addr] = Code[e.addr]
    BY <2>1, <2>7, OwnWord DEF PeekText, Restrict
  <2>9. SavedCodeIsOriginal'
    BY <2>4, <2>8 DEF SavedCodeIsOriginal
  <2> QED
    BY <2>5, <2>6, <2>9 DEF TableInv
<1>4. ASSUME NEW i \in 1..MaxBreakpoints, delete_break_point(i) PROVE TableInv'
  <2>1. i \in 1..Len(bptab) /\ bptab' = Del(bptab, i)
    BY <1>4 DEF delete_break_point, IncludeIdx
  <2>2. Distinct(bptab')
    BY <2>1, DelDistinct DEF TypeOK
  <2>3. \A j \in 1..Len(bptab') : \E k \in 1..Len(bptab) : bptab'[j] = bptab[k]
    BY <2>1, DelEntries DEF TypeOK
  <2>4. TableInText'
    <3>1. state' # "NOLOAD" /\ text_begin' = text_begin
      BY <1>4 DEF delete_break_point, Running
    <3> QED
      BY <2>3, <3>1 DEF TableInText
  <2>5. SavedCodeIsOriginal'
    BY <2>3 DEF SavedCodeIsOriginal
  <2> QED
    BY <2>2, <2>4, <2>5 DEF TableInv
<1>5. CASE start \/ run
  BY <1>1, <1>5 DEF start, run, Launch
<1>6. CASE cont \/ step_in \/ RunDead \/ exit \/ StartFails \/ ForkedExits
           \/ \E v \in JumpArgs : set_reg(v)
  BY <1>1, <1>6 DEF cont, step_in, RunDead, exit, StartFails, ForkedExits, set_reg
<1>7. CASE WaitReturns
  BY <1>1, <1>7 DEF WaitReturns, ChildExited, AssertFails, StepOverDone, Resume,
     StepDone, ContDone
<1>8. CASE Process
  BY <1>1, <1>8 DEF Process, dbgVars
<1>9. CASE UNCHANGED vars
  BY <1>1, <1>9 DEF vars, dbgVars
<1> QED
  BY <1>2, <1>3, <1>4, <1>5, <1>6, <1>7, <1>8, <1>9 DEF Next, Command, Terminated

-----------------------------------------------------------------------------
(* The table and the process's memory. *)

MemInv == TableMatchesMemory /\ OverHoldsWord

LEMMA SavedIsCode ==
  ASSUME IInv, NEW a, Listed(a)
  PROVE  a \in Addr /\ SavedByte(a) = Code[a]
<1>1. /\ a \in Addr
      /\ \E i \in 1..Len(bptab) : EntryAt(bptab, a) = bptab[i] /\ bptab[i].addr = a
  BY ListedEntry DEF IInv, TypeOK
<1> QED
  BY <1>1 DEF IInv, SavedCodeIsOriginal, SavedByte

(* A new process gets every break point of the table. *)
LEMMA FreshIsArmed ==
  ASSUME IInv
  PROVE  \A x \in Addr : FreshImage[x] = Armed(x)
<1>1. \A x : Listed(x) => x >= text_begin
  BY ListedIff DEF IInv, TypeOK, TableInText
<1> QED
  BY <1>1 DEF FreshImage, reput_all_breakpoints_from, Armed

(* Putting the saved byte back and stepping, from armed memory. *)
LEMMA RestoreAndStepMem ==
  ASSUME IInv, NEW m \in [Addr -> Byte], \A x \in Addr : m[x] = Armed(x),
         NEW a, Listed(a), RestoreAndStep(m, a),
         bptab' = bptab, pc' \in {"siOver", "contOver"}
  PROVE  MemInv'
<1>1. a \in Addr /\ SavedByte(a) = Code[a]
  BY SavedIsCode
<1>2. \A x : Listed(x)' = Listed(x) /\ Armed(x)' = Armed(x)
  BY DEF Listed, Armed
<1>3. /\ over'.addr = a
      /\ over'.word = [x \in Word(a) |-> m[x]]
      /\ mem' = [m EXCEPT ![a] = Code[a]]
  BY <1>1 DEF RestoreAndStep, PeekText, Restrict, PokeByte
<1>4. TableMatchesMemory'
  BY <1>1, <1>2, <1>3 DEF TableMatchesMemory, SteppingOver
<1>5. a \in Word(a) /\ Word(a) \subseteq Addr
  BY <1>1, OwnWord
<1>6. OverHoldsWord'
  BY <1>2, <1>3, <1>5 DEF OverHoldsWord
<1> QED
  BY <1>4, <1>6 DEF MemInv

(* Outside the step over a break point, armed memory is all there is to    *)
(* show.                                                                   *)
LEMMA ArmedMem ==
  ASSUME bptab' = bptab, ~SteppingOver', \A x \in Addr : mem'[x] = Armed(x)
  PROVE  MemInv'
<1>1. \A x : Armed(x)' = Armed(x)
  BY DEF Listed, Armed
<1> QED
  BY <1>1 DEF MemInv, TableMatchesMemory, OverHoldsWord, SteppingOver

LEMMA BeginContMem ==
  ASSUME IInv, NEW m \in [Addr -> Byte], \A x \in Addr : m[x] = Armed(x),
         NEW r, NEW set, BeginCont(m, r, set), bptab' = bptab
  PROVE  MemInv'
<1>1. CASE Listed(r) /\ RestoreAndStep(m, r) /\ pc' = "contOver"
  BY <1>1, RestoreAndStepMem
<1>2. CASE mem' = m /\ pc' = "continuing"
  BY <1>2, ArmedMem DEF SteppingOver
<1> QED
  BY <1>1, <1>2 DEF BeginCont

LEMMA NextMem ==
  ASSUME ~Rebreak, IInv, [Next]_vars
  PROVE  MemInv'
<1>1. CASE ~Live'
  BY <1>1 DEF MemInv, TableMatchesMemory, OverHoldsWord
<1>2. ASSUME Live, ~SteppingOver PROVE \A x \in Addr : mem[x] = Armed(x)
  BY <1>2 DEF IInv, TableMatchesMemory
<1>3. Running => Live /\ ~SteppingOver
  BY DEF Running, Live, SteppingOver
<1>4. CASE load
  <2>1. child = "none"
    BY <1>4 DEF load, IInv, StateMatchesChild
  <2> QED
    BY <1>1, <1>4, <2>1 DEF load, traceeVars, Live, Executing
<1>5. CASE start
  <2>1. \A x \in Addr : mem'[x] = Armed(x)
    BY <1>5, FreshIsArmed DEF start
  <2> QED
    BY <1>5, <2>1, ArmedMem DEF start, Launch, SteppingOver
<1>6. CASE run
  <2>1. FreshImage \in [Addr -> Byte]
    BY ReputType DEF FreshImage
  <2> QED
    BY <1>6, <2>1, FreshIsArmed, BeginContMem DEF run, Launch
<1>7. CASE cont
  BY <1>2, <1>3, <1>7, BeginContMem DEF cont, IInv, TypeOK
<1>8. CASE step_in
  <2>1. \A x \in Addr : mem[x] = Armed(x)
    BY <1>2, <1>3, <1>8 DEF step_in
  <2>2. CASE Listed(rip) /\ RestoreAndStep(mem, rip) /\ pc' = "siOver"
    BY <1>8, <2>1, <2>2, RestoreAndStepMem DEF step_in, IInv, TypeOK
  <2>3. CASE pc' = "stepping" /\ mem' = mem
    BY <1>8, <2>1, <2>3, ArmedMem DEF step_in, SteppingOver
  <2> QED
    BY <1>8, <2>2, <2>3 DEF step_in
<1>9. CASE RunDead \/ exit \/ ChildExited \/ AssertFails \/ StartFails \/ ForkedExits
  BY <1>1, <1>9 DEF RunDead, exit, ChildExited, AssertFails, StartFails, ForkedExits,
     traceeVars, Live, Executing, IInv, StateMatchesChild
<1>10. ASSUME NEW v \in JumpArgs, set_reg(v) PROVE MemInv'
  BY <1>2, <1>3, <1>10, ArmedMem DEF set_reg, SteppingOver
<1>11. ASSUME NEW a \in BreakArgs, ~Listed(a), set_break_point(a) PROVE MemInv'
  <2>1. \A x \in Addr : mem[x] = Armed(x)
    BY <1>2, <1>3, <1>11 DEF set_break_point
  <2>2. a \in Addr /\ PeekText(mem, a) \in [Word(a) -> Byte]
    BY <1>11, PeekTextType DEF set_break_point, IInv, TypeOK
  <2>3. [addr |-> a, code |-> PeekText(mem, a)] \in Breakpoint
    BY <2>2, MakeBreakpoint
  <2>4. \A x : Listed(x)' <=> Listed(x) \/ x = a
    BY <1>11, <2>3, AddInclude DEF set_break_point, Listed, IInv, TypeOK
  <2>5. mem' = [mem EXCEPT ![a] = CC] /\ pc' = "prompt"
    BY <1>11 DEF set_break_point, PokeByte, Running
  <2>6. TableMatchesMemory'
    BY <2>1, <2>2, <2>4, <2>5 DEF TableMatchesMemory, SteppingOver, Armed, IInv, TypeOK
  <2> QED
    BY <2>5, <2>6 DEF MemInv, OverHoldsWord, SteppingOver
<1>12. ASSUME NEW i \in 1..MaxBreakpoints, delete_break_point(i) PROVE MemInv'
  <2>1. \A x \in Addr : mem[x] = Armed(x)
    BY <1>2, <1>3, <1>12 DEF delete_break_point
  <2>2. i \in 1..Len(bptab) /\ bptab' = Del(bptab, i)
    BY <1>12 DEF delete_break_point, IncludeIdx
  <2>3. \A x : Listed(x)' <=> Listed(x) /\ x # bptab[i].addr
    BY <2>2, DelInclude DEF Listed, IInv, TypeOK
  <2>4. bptab[i].addr \in Addr
    BY <2>2, BreakpointFields DEF IInv, TypeOK
  <2>5. /\ mem' = [mem EXCEPT ![bptab[i].addr] = Code[bptab[i].addr]]
        /\ pc' = "prompt"
    BY <1>12, <2>2 DEF delete_break_point, PokeByte, Running, IInv, SavedCodeIsOriginal
  <2>6. TableMatchesMemory'
    BY <2>1, <2>3, <2>4, <2>5 DEF TableMatchesMemory, SteppingOver, Armed, IInv, TypeOK
  <2> QED
    BY <2>5, <2>6 DEF MemInv, OverHoldsWord, SteppingOver
<1>13. CASE StepOverDone
  <2>1. Live /\ SteppingOver
    BY <1>13 DEF StepOverDone, Live, SteppingOver
  <2>2. /\ over.addr \in DOMAIN over.word
        /\ \A x \in DOMAIN over.word : over.word[x] = Armed(x)
    BY <2>1 DEF IInv, OverHoldsWord
  <2>3. \A x \in Addr : x # over.addr => mem[x] = Armed(x)
    BY <2>1 DEF IInv, TableMatchesMemory
  <2>4. \A x \in Addr : mem'[x] = Armed(x)
    BY <1>13, <2>2, <2>3 DEF StepOverDone, PokeText
  <2> QED
    BY <1>13, <2>4, ArmedMem DEF StepOverDone, SteppingOver
<1>14. CASE Resume \/ StepDone \/ ContDone
  <2>1. CASE Live
    <3>1. ~SteppingOver /\ ~SteppingOver' /\ mem' = mem /\ bptab' = bptab
      BY <1>14 DEF Resume, StepDone, ContDone, traceeVars, SteppingOver
    <3> QED
      BY <1>2, <2>1, <3>1, ArmedMem
  <2>2. CASE ~Live
    BY <1>1, <1>14, <2>2 DEF Resume, StepDone, ContDone, Live, Executing
  <2> QED
    BY <2>1, <2>2
<1>15. CASE Process
  <2>1. mem' = mem /\ UNCHANGED dbgVars
    BY <1>15 DEF Process, TraceeStep, Trap, Execute, ExecuteClobbered, ExitProcess,
       SignalStop, Kill, Retire
  <2>2. Live
    BY <1>15 DEF Process, TraceeStep, Trap, Execute, ExecuteClobbered, ExitProcess,
       SignalStop, Kill, Live
  <2> QED
    BY <2>1, <2>2 DEF MemInv, IInv, TableMatchesMemory, OverHoldsWord, SteppingOver,
       Armed, Listed, dbgVars
<1>16. CASE UNCHANGED vars
  BY <1>16 DEF MemInv, IInv, TableMatchesMemory, OverHoldsWord, SteppingOver,
     Armed, Listed, vars, dbgVars, traceeVars, Live, Executing
<1> QED
  BY <1>4, <1>5, <1>6, <1>7, <1>8, <1>9, <1>10, <1>11, <1>12, <1>13, <1>14, <1>15,
     <1>16 DEF Next, Command, WaitReturns, Terminated

LEMMA InvInit == Init => IInv
<1> SUFFICES ASSUME Init PROVE IInv
  OBVIOUS
<1>1. bptab = <<>> /\ ~Live /\ state = "NOLOAD"
  BY DEF Init, Live, Executing
<1>2. Distinct(bptab) /\ TableInText /\ SavedCodeIsOriginal
  BY <1>1 DEF Distinct, TableInText, SavedCodeIsOriginal
<1>3. TableMatchesMemory /\ OverHoldsWord
  BY <1>1 DEF TableMatchesMemory, OverHoldsWord
<1>4. StateMatchesChild
  BY DEF Init, StateMatchesChild, Waiting
<1> QED
  BY <1>2, <1>3, <1>4, InitType DEF IInv

LEMMA InvNext == ~Rebreak /\ IInv /\ [Next]_vars => IInv'
<1> SUFFICES ASSUME ~Rebreak, IInv, [Next]_vars PROVE IInv'
  OBVIOUS
<1>1. TypeOK' /\ StateMatchesChild'
  BY NextType, NextState DEF IInv
<1>2. TableInv' /\ MemInv'
  BY NextTable, NextMem
<1> QED
  BY <1>1, <1>2 DEF IInv, TableInv, MemInv

LEMMA Invariance == ASSUME ~Rebreak PROVE Spec => []IInv
<1>1. IInv /\ [Next]_vars => IInv'
  BY InvNext
<1> QED
  BY <1>1, InvInit, PTL DEF Spec

(* Unless the user breaks twice at one address, memory holds an int3 at    *)
(* exactly the listed addresses and the program's bytes everywhere else,   *)
(* at every moment of every session (restarts, kills, clobbered            *)
(* instructions and signals included), apart from the one byte being       *)
(* stepped over.                                                           *)
THEOREM MemoryCorrect == ASSUME ~Rebreak PROVE Spec => []TableMatchesMemory
<1>1. IInv => TableMatchesMemory
  BY DEF IInv
<1> QED
  BY <1>1, Invariance, PTL

(* Under the same condition no break point ever saves a byte that is not   *)
(* the program's own.                                                      *)
THEOREM SavedCorrect == ASSUME ~Rebreak PROVE Spec => []SavedCodeIsOriginal
<1>1. IInv => SavedCodeIsOriginal
  BY DEF IInv
<1> QED
  BY <1>1, Invariance, PTL

=============================================================================
