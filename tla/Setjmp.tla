------------------------------- MODULE Setjmp -------------------------------
(***************************************************************************)
(* setjmp and longjmp of libmini64.asm, one machine instruction at a time, *)
(* in a program that calls functions, blocks and unblocks a signal and     *)
(* jumps, also out of the handler of that signal.  The signal may arrive   *)
(* between any two instructions.                                           *)
(*                                                                         *)
(* The stack is a sequence of words that grows upward here: rsp is the     *)
(* number of words in use, and words above rsp keep what they held.  A     *)
(* function keeps its caller's registers in the word of its return address *)
(* and gives all of them one value of its own.                             *)
(***************************************************************************)
EXTENDS Integers, Sequences

CONSTANTS
  Val,     \* values of the callee-saved registers
  Site,    \* call sites of setjmp
  Depth,   \* bound: words of stack
  JumpVal, \* second arguments of longjmp
  Guarded  \* does the program guard its jump buffer with a flag?

ASSUME SetjmpAssumption ==
  /\ Depth \in Nat
  /\ Val # {} /\ Site # {}
  /\ {"body", "sigreturn"} \cap Site = {}
  /\ JumpVal \subseteq Int
  /\ Guarded \in BOOLEAN

VARIABLES
  at,        \* the code being executed: the program's own, setjmp, longjmp
  k,         \* the next instruction of it
  regs,      \* callee-saved registers
  rsp, stack,
  rsi,       \* the return address, in setjmp
  esi,       \* the second argument, in longjmp
  eax,       \* the return value
  jb,        \* the program's jmp_buf
  mask,      \* is the signal blocked?
  handling,  \* does its handler run?
  ctx,       \* what the kernel saved of the interrupted code
  canjump,   \* the program's flag: the buffer is filled and its frame exists
  captured,  \* what the program saw when setjmp returned last
  landed,    \* where control came back to last, by setjmp or longjmp
  given      \* history: what the longjmp under way was called with, in the
             \* handler and outside it

data == <<jb, mask, canjump, captured, landed>>
vars == <<at, k, regs, rsp, stack, rsi, esi, eax, data, handling, ctx, given>>

Kept == {"rbx", "rbp", "r12", "r13", "r14", "r15"}

(* setjmp between its pop and its ret, and longjmp before its jmp: what    *)
(* each instruction is about, a field of jmp_buf or the return value.      *)
SetjmpCode == <<"eax", "rbx", "rsp", "push", "rbp", "r12", "r13", "r14", "r15", "rip">>
LongjmpCode == <<"eax", "rbx", "rsp", "rbp", "r12", "r13", "r14", "r15">>

Code == {"body", "setjmp", "longjmp"}
Label == Site \cup {"body", "sigreturn"}
Word == [ret : Label, val : Val]
Buffer == [regs : [Kept -> Val], rsp : Nat, rip : Label]

Uniform(v) == [r \in Kept |-> v]
SomeVal == CHOOSE v \in Val : TRUE
Blank == [regs |-> Uniform(SomeVal), rsp |-> 0, rip |-> "body"]
Idle == [at |-> "body", k |-> 0, regs |-> Uniform(SomeVal), rsp |-> 0, rsi |-> "body",
         esi |-> 0, eax |-> 0, mask |-> FALSE]

(* The values of registers, stack and buffer: rsp stays within the stack.  *)
TypeOK ==
  /\ at \in Code /\ k \in 0..11
  /\ regs \in [Kept -> Val]
  /\ rsp \in 0..Depth /\ stack \in [1..Depth -> Word]
  /\ rsi \in Label /\ esi \in Int /\ eax \in Int
  /\ jb \in Buffer
  /\ mask \in BOOLEAN /\ handling \in BOOLEAN
  /\ ctx \in [at : Code, k : 0..11, regs : [Kept -> Val], rsp : 0..Depth,
              rsi : Label, esi : Int, eax : Int, mask : BOOLEAN]
  /\ canjump \in BOOLEAN
  /\ captured \in [buf : Buffer, mask : BOOLEAN]
  /\ landed \in Label
  /\ given \in [BOOLEAN -> Int]

Init ==
  /\ at = "body" /\ k = 0 /\ regs \in {Uniform(v) : v \in Val}
  /\ rsp = 0 /\ stack = [i \in 1..Depth |-> [ret |-> "body", val |-> SomeVal]]
  /\ rsi = "body" /\ esi = 0 /\ eax = 0
  /\ jb = Blank
  /\ mask = FALSE /\ handling = FALSE /\ ctx = Idle
  /\ canjump = FALSE /\ captured = [buf |-> Blank, mask |-> FALSE]
  /\ landed = "body"
  /\ given = [h \in BOOLEAN |-> 0]

-----------------------------------------------------------------------------
(* The program. *)

Push(w) == stack' = [stack EXCEPT ![rsp + 1] = w] /\ rsp' = rsp + 1

(* Call a function; it keeps its caller's registers and uses them. *)
Call ==
  /\ at = "body" /\ rsp < Depth
  /\ Push([ret |-> "body", val |-> regs["rbx"]])
  /\ \E v \in Val : regs' = Uniform(v)
  /\ UNCHANGED <<at, k, rsi, esi, eax, data, handling, ctx, given>>

(* Return from it; a buffer filled in it can no longer be jumped to. *)
Return ==
  /\ at = "body" /\ rsp > 0 /\ stack[rsp].ret = "body"
  /\ regs' = Uniform(stack[rsp].val)
  /\ rsp' = rsp - 1
  /\ canjump' = (canjump /\ captured.buf.rsp < rsp)
  /\ UNCHANGED <<at, k, stack, rsi, esi, eax, jb, mask, handling, ctx, captured, landed, given>>

CallSetjmp ==
  /\ at = "body" /\ ~handling /\ rsp < Depth
  /\ \E s \in Site : Push([ret |-> s, val |-> regs["rbx"]])
  /\ at' = "setjmp" /\ k' = 0
  /\ canjump' = (canjump /\ ~Guarded)
  /\ UNCHANGED <<regs, rsi, esi, eax, jb, mask, handling, ctx, captured, landed, given>>

CallLongjmp ==
  /\ at = "body" /\ canjump
  /\ at' = "longjmp" /\ k' = 1
  /\ esi' \in JumpVal /\ given' = [given EXCEPT ![handling] = esi']
  /\ UNCHANGED <<regs, rsp, stack, rsi, eax, data, handling, ctx>>

(* sigprocmask, outside the handler. *)
sigprocmask ==
  /\ at = "body" /\ ~handling
  /\ mask' = ~mask
  /\ UNCHANGED <<at, k, regs, rsp, stack, rsi, esi, eax, jb, handling, ctx, canjump, captured, landed, given>>

-----------------------------------------------------------------------------
(* The kernel. *)

Running ==
  [at |-> at, k |-> k, regs |-> regs, rsp |-> rsp, rsi |-> rsi, esi |-> esi, eax |-> eax,
   mask |-> mask]

(* The signal frame goes past the red zone, one word here; its return      *)
(* address is the sa_restorer that sigaction has set.  The handler uses    *)
(* the registers like any function.                                        *)
Deliver ==
  /\ ~mask /\ ~handling /\ rsp + 2 <= Depth
  /\ ctx' = Running
  /\ stack' = [stack EXCEPT ![rsp + 2] = [ret |-> "sigreturn", val |-> SomeVal]]
  /\ rsp' = rsp + 2
  /\ mask' = TRUE /\ handling' = TRUE
  /\ at' = "body" /\ k' = 0
  /\ \E v \in Val : regs' = Uniform(v)
  /\ UNCHANGED <<rsi, esi, eax, jb, canjump, captured, landed, given>>

(* The handler returns to sys_rt_sigreturn: everything is as before. *)
sys_rt_sigreturn ==
  /\ at = "body" /\ handling /\ rsp = ctx.rsp + 2
  /\ at' = ctx.at /\ k' = ctx.k /\ regs' = ctx.regs /\ rsp' = ctx.rsp
  /\ rsi' = ctx.rsi /\ esi' = ctx.esi /\ eax' = ctx.eax /\ mask' = ctx.mask
  /\ handling' = FALSE /\ ctx' = Idle
  /\ UNCHANGED <<stack, jb, canjump, captured, landed, given>>

-----------------------------------------------------------------------------
(* The library. *)

(* Mutant: the return address is read and not popped. *)
SetjmpPeek ==
  /\ at = "setjmp" /\ k = 0
  /\ rsi' = stack[rsp].ret
  /\ k' = 1
  /\ UNCHANGED <<at, regs, rsp, stack, esi, eax, data, handling, ctx, given>>

(* pop rsi *)
SetjmpPop ==
  /\ at = "setjmp" /\ k = 0
  /\ rsi' = stack[rsp].ret
  /\ rsp' = rsp - 1
  /\ k' = 1
  /\ UNCHANGED <<at, regs, stack, esi, eax, data, handling, ctx, given>>

(* Mutant: the stack pointer is adjusted after it is saved. *)
SaveOff(r) ==
  CASE r = "rsp" -> [jb EXCEPT !.rsp = rsp + 1]
    [] r = "rip" -> [jb EXCEPT !.rip = rsi]
    [] OTHER -> [jb EXCEPT !.regs[r] = regs[r]]

(* mov [rdi + offset of r], r *)
Save(r) ==
  CASE r = "rsp" -> [jb EXCEPT !.rsp = rsp]
    [] r = "rip" -> [jb EXCEPT !.rip = rsi]
    [] OTHER -> [jb EXCEPT !.regs[r] = regs[r]]

(* xor eax, eax; push rsi; and the fields of the buffer. *)
SetjmpStep ==
  /\ at = "setjmp" /\ k \in 1..10
  /\ \/ /\ SetjmpCode[k] = "eax"
        /\ eax' = 0
        /\ UNCHANGED <<rsp, stack, jb>>
     \/ /\ SetjmpCode[k] = "push"
        /\ Push([ret |-> rsi, val |-> SomeVal])
        /\ UNCHANGED <<eax, jb>>
     \/ /\ SetjmpCode[k] \notin {"eax", "push"}
        /\ jb' = Save(SetjmpCode[k])
        /\ UNCHANGED <<rsp, stack, eax>>
  /\ k' = k + 1
  /\ UNCHANGED <<at, regs, rsi, esi, mask, handling, ctx, canjump, captured, landed, given>>

(* ret; the program may set its flag. *)
SetjmpRet ==
  /\ at = "setjmp" /\ k = 11
  /\ landed' = stack[rsp].ret
  /\ rsp' = rsp - 1
  /\ at' = "body" /\ k' = 0
  /\ canjump' = TRUE
  /\ captured' = [buf |-> [regs |-> regs, rsp |-> rsp', rip |-> landed'], mask |-> mask]
  /\ UNCHANGED <<regs, stack, rsi, esi, eax, jb, mask, handling, ctx, given>>

(* mov eax, esi; then mov r, [rdi + offset of r] *)
LongjmpStep ==
  /\ at = "longjmp" /\ k \in 1..8
  /\ \/ LongjmpCode[k] = "eax" /\ eax' = esi /\ UNCHANGED <<rsp, regs>>
     \/ LongjmpCode[k] = "rsp" /\ rsp' = jb.rsp /\ UNCHANGED <<regs, eax>>
     \/ /\ LongjmpCode[k] \in Kept
        /\ regs' = [regs EXCEPT ![LongjmpCode[k]] = jb.regs[LongjmpCode[k]]]
        /\ UNCHANGED <<rsp, eax>>
  /\ k' = k + 1
  /\ UNCHANGED <<at, stack, rsi, esi, data, handling, ctx, given>>

(* jmp [rdi + 56]: a handler that jumps is left for good, and the signal   *)
(* mask stays as it is.                                                    *)
LongjmpJmp ==
  /\ at = "longjmp" /\ k = 9
  /\ landed' = jb.rip
  /\ at' = "body" /\ k' = 0
  /\ handling' = FALSE /\ ctx' = Idle
  /\ given' = [h \in BOOLEAN |-> 0]
  /\ UNCHANGED <<regs, rsp, stack, rsi, esi, eax, jb, mask, canjump, captured>>

-----------------------------------------------------------------------------
Program == Call \/ Return \/ CallSetjmp \/ CallLongjmp \/ sigprocmask
Kernel == Deliver \/ sys_rt_sigreturn
Library == SetjmpPop \/ SetjmpStep \/ SetjmpRet \/ LongjmpStep \/ LongjmpJmp

Next == Program \/ Kernel \/ Library

Spec == Init /\ [][Next]_vars

-----------------------------------------------------------------------------
(* Properties. *)

Jumps == at = "longjmp" /\ at' = "body" /\ ~handling'

LandsRight ==
  Jumps => /\ [regs |-> regs', rsp |-> rsp', rip |-> landed'] = captured.buf
           /\ eax' = given[handling]

(* longjmp brings the program back to the state setjmp last returned in:   *)
(* callee-saved registers, stack pointer and call site, and returns the    *)
(* value this call of longjmp was given (0 stays 0, unlike in the C        *)
(* library), whatever was pushed over setjmp's frame since, and although   *)
(* signals interrupt both and the handler may call longjmp with a value of *)
(* its own, for a program that lets it jump only while the buffer is whole.*)
LandsWhereSet == [][LandsRight]_vars

RestoresMask == Jumps => mask' = captured.mask

(* "The saved signal mask must be restored by the longjmp function" in the *)
(* assignment, and the mask field of jmp_buf_s in libmini.h.               *)
MaskRestored == [][RestoresMask]_vars

=============================================================================
