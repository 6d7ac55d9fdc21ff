------------------------------- MODULE Tracee -------------------------------
(***************************************************************************)
(* The process being debugged and the part of ptrace the debugger uses.    *)
(* None of this is code of the repository: it is the kernel, the CPU and   *)
(* an arbitrary program, modelled from how command.hpp drives them.        *)
(*                                                                         *)
(* The program is given by its bytes and, for every address, the size of   *)
(* the instruction that the original bytes there decode to and where it    *)
(* may continue.  A byte that holds CC is the one-byte instruction int3.   *)
(***************************************************************************)
EXTENDS Integers, Functions

CONSTANTS
  Addr,         \* mapped code addresses
  Byte,         \* byte values
  CC,           \* 0xcc, the int3 instruction
  Code,         \* the program image: the original byte at every address
  Size,         \* size of the instruction that starts at an address
  Succ,         \* addresses where that instruction may continue
  Insn,         \* addresses where the program's own instructions start
  MayExit,      \* addresses of instructions that may end the process
  SignalAddrs,  \* addresses at which a signal other than int3's can arrive
  EntryRip,     \* where execve leaves the instruction pointer
  Kills,        \* can somebody send SIGKILL to the process?
  WordSize      \* bytes PTRACE_PEEKTEXT and PTRACE_POKETEXT transfer

ASSUME ProgramAssumption ==
  /\ Addr \subseteq Nat
  /\ CC \in Byte
  /\ Code \in [Addr -> Byte]
  /\ Size \in [Addr -> Nat \ {0}]
  /\ Succ \in [Addr -> SUBSET Addr]
  /\ Insn \subseteq Addr
  /\ MayExit \subseteq Addr
  /\ SignalAddrs \subseteq Addr
  /\ EntryRip \in Addr
  /\ Kills \in BOOLEAN
  /\ WordSize \in Nat \ {0}

VARIABLES
  child,   \* what the process is doing
  rip,     \* its instruction pointer
  mem,     \* its code bytes as they are now
  cause    \* why it stopped last (the debugger never looks at this)

traceeVars == <<child, rip, mem, cause>>

ChildState == {"none", "stopped", "stepping", "running", "exited", "killed"}
Cause == {"exec", "int3", "step", "signal"}

Executing == child \in {"stepping", "running"}
Live == Executing \/ child = "stopped"

-----------------------------------------------------------------------------
(* ptrace requests on code: a word is the function from its addresses to   *)
(* their bytes.                                                            *)
Word(a) == Addr \cap (a .. a + WordSize - 1)

PeekText(m, a) == Restrict(m, Word(a))

PokeText(m, w) == [x \in Addr |-> IF x \in DOMAIN w THEN w[x] ELSE m[x]]

(* POKETEXT of the word just read with its low byte replaced: the other    *)
(* bytes are written back as they were.                                    *)
PokeByte(m, a, b) == [m EXCEPT ![a] = b]

-----------------------------------------------------------------------------
(* Are the bytes of the instruction at a still the program's own? *)
Intact(a) == \A k \in 0 .. Size[a] - 1 : a + k \in Addr => mem[a + k] = Code[a + k]

(* The instruction completes and control is at t. *)
Retire(t) ==
  /\ rip' = t
  /\ IF child = "stepping"
       THEN child' = "stopped" /\ cause' = "step"
       ELSE UNCHANGED <<child, cause>>
  /\ UNCHANGED mem

(* An int3 byte, the program's own or one the debugger put there. *)
Trap ==
  /\ Executing
  /\ rip \in Addr /\ mem[rip] = CC
  /\ rip' = rip + 1
  /\ child' = "stopped" /\ cause' = "int3"
  /\ UNCHANGED mem

Execute ==
  /\ Executing
  /\ rip \in Addr /\ mem[rip] # CC /\ Intact(rip)
  /\ \E t \in Succ[rip] : Retire(t)

(* An instruction with a foreign byte in it does something arbitrary. *)
ExecuteClobbered ==
  /\ Executing
  /\ rip \in Addr /\ mem[rip] # CC /\ ~Intact(rip)
  /\ \E t \in Addr : Retire(t)

ExitProcess ==
  /\ Executing
  /\ rip \in Addr /\ mem[rip] # CC /\ (rip \in MayExit \/ ~Intact(rip))
  /\ child' = "exited"
  /\ UNCHANGED <<rip, mem, cause>>

(* Signal-delivery stop before the instruction at rip: a fault or a signal *)
(* from outside.  Nothing is mapped outside Addr, so control there faults. *)
SignalStop ==
  /\ Executing
  /\ \/ rip \notin Addr
     \/ rip \in SignalAddrs
     \/ rip \in Addr /\ mem[rip] # CC /\ ~Intact(rip)
  /\ child' = "stopped" /\ cause' = "signal"
  /\ UNCHANGED <<rip, mem>>

(* SIGKILL, which ptrace cannot hold back. *)
Kill ==
  /\ Kills
  /\ Live
  /\ child' = "killed"
  /\ UNCHANGED <<rip, mem, cause>>

TraceeStep == Trap \/ Execute \/ ExecuteClobbered \/ ExitProcess \/ SignalStop

=============================================================================
