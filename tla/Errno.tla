-------------------------------- MODULE Errno --------------------------------
(***************************************************************************)
(* The one errno of a hw3 program, written by every system call wrapper of *)
(* libmini.c and read by perror, while signal handlers interrupt the       *)
(* program between any two of those steps and call wrappers themselves.    *)
(*                                                                         *)
(* A system call is the failure it returns, 0 when it succeeds.  sleep     *)
(* never touches errno and is left out.                                    *)
(***************************************************************************)
EXTENDS Integers

CONSTANTS
  Failure,   \* numbers a system call may fail with
  MaxDepth   \* the main program and the handlers nested in it

Result == {0} \cup Failure

ASSUME ErrnoAssumption ==
  /\ Failure \subseteq Nat \ {0}
  /\ MaxDepth \in Nat \ {0}

PERRMSG_MIN == 0
PERRMSG_MAX == 34

(* A message stands for its index in errmsg; Outside is whatever lies      *)
(* behind the table.                                                       *)
InTable(n) == PERRMSG_MIN <= n /\ n <= PERRMSG_MAX
NoMessage == -1
Unknown == -2
Unspecified == -3
Outside == -4

VARIABLES
  errno,
  depth,    \* the frame that executes: 1 is main, the others are handlers
  frames

vars == <<errno, depth, frames>>

Writes == {"prefix", "colon", "message", "newline"}
Resume == {"idle", "test"} \cup Writes
PC == Resume \cup {"returned", "zeroed", "opened", "crashed"}

Frame == [
  pc : PC,
  then : Resume,             \* where the wrapper in progress returns to
  ret : Result,              \* what its system call returned
  backup : Result,           \* perror's copy of errno
  msg : {NoMessage, Unknown, Outside} \cup Result,  \* what perror has write print
  saved : Result,            \* errno when the handler was entered
  last : Result,             \* how the frame's last call ended
  wanted : {Unspecified} \cup Result,      \* the failure perror was called for
  prefixed : BOOLEAN,        \* does perror print a prefix?
  clean : BOOLEAN]           \* has no handler changed errno since?

(* The values of errno and of the frames. *)
TypeOK ==
  /\ errno \in Result
  /\ depth \in 1..MaxDepth
  /\ frames \in [1..MaxDepth -> Frame]

(* A frame that starts when errno is e. *)
NewFrame(e) ==
  [pc |-> "idle", then |-> "idle", ret |-> 0, backup |-> 0, msg |-> NoMessage,
   saved |-> e, last |-> e, wanted |-> Unspecified, prefixed |-> FALSE,
   clean |-> TRUE]

Init ==
  /\ errno = 0 /\ depth = 1
  /\ frames = [i \in 1..MaxDepth |-> NewFrame(0)]

Top == frames[depth]
Become(f) == frames' = [frames EXCEPT ![depth] = f] /\ UNCHANGED depth

-----------------------------------------------------------------------------
(* The wrappers. *)

(* Where perror goes on after each of its writes; a call of the program    *)
(* itself returns to it.                                                   *)
After(pc) ==
  CASE pc = "prefix" -> "colon" [] pc = "colon" -> "test"
    [] pc = "message" -> "newline" [] OTHER -> "idle"

(* sys_...: the program's call of a wrapper, or perror's of write. *)
SysCall ==
  /\ Top.pc \in {"idle"} \cup Writes
  /\ \E r \in Result :
       Become([Top EXCEPT !.pc = "returned", !.then = After(Top.pc), !.ret = r,
                          !.msg = NoMessage])
  /\ UNCHANGED errno

(* Mutant: a call that succeeds leaves errno as it is. *)
ClearErrnoNever ==
  /\ Top.pc = "returned"
  /\ Become([Top EXCEPT !.pc = "zeroed", !.clean = TRUE])
  /\ UNCHANGED errno

(* WRAPPER_RETval: errno = 0 ... *)
ClearErrno ==
  /\ Top.pc = "returned"
  /\ errno' = 0
  /\ Become([Top EXCEPT !.pc = "zeroed", !.clean = TRUE])

(* Mutant: the failure is stored as the kernel returns it, negative. *)
StoreErrnoSigned ==
  /\ Top.pc = "zeroed"
  /\ \/ Top.ret = 0 /\ UNCHANGED errno
     \/ Top.ret # 0 /\ errno' = -Top.ret
  /\ Become([Top EXCEPT !.pc = Top.then, !.then = "idle", !.ret = 0, !.last = Top.ret])

(* ... then errno = -ret, when the call failed. *)
StoreErrno ==
  /\ Top.pc = "zeroed"
  /\ \/ Top.ret = 0 /\ UNCHANGED errno
     \/ Top.ret # 0 /\ errno' = Top.ret
  /\ Become([Top EXCEPT !.pc = Top.then, !.then = "idle", !.ret = 0, !.last = Top.ret,
                        !.clean = Top.clean \/ Top.ret # 0])

(* open, in assembly: the system call, then one store. *)
OpenCall ==
  /\ Top.pc = "idle"
  /\ \E r \in Result : Become([Top EXCEPT !.pc = "opened", !.ret = r])
  /\ UNCHANGED errno

OpenStore ==
  /\ Top.pc = "opened"
  /\ errno' = Top.ret
  /\ Become([Top EXCEPT !.pc = "idle", !.ret = 0, !.last = Top.ret, !.clean = TRUE])

-----------------------------------------------------------------------------
(* perror. *)

(* The copy of errno; with a prefix, two writes come before the test. *)
perror ==
  /\ Top.pc = "idle"
  /\ \E pc \in {"prefix", "test"} :
       Become([Top EXCEPT !.pc = pc, !.backup = errno, !.prefixed = (pc = "prefix"),
                 !.wanted = IF Top.clean THEN Top.last ELSE Unspecified])
  /\ UNCHANGED errno

(* Mutant: the message is looked up with errno. *)
MessageOfErrno == IF InTable(errno) THEN errno ELSE Unknown

(* The test is of errno, the index is the copy. *)
Message ==
  IF ~InTable(errno) THEN Unknown
  ELSE IF InTable(Top.backup) THEN Top.backup
  ELSE Outside

(* What lies behind the table is no string: write prints anything, or      *)
(* strlen crashes the program.                                             *)
Choose ==
  /\ Top.pc = "test"
  /\ \E pc \in {"message"} \cup (IF Message = Outside THEN {"crashed"} ELSE {}) :
       Become([Top EXCEPT !.pc = pc, !.backup = 0, !.wanted = Unspecified, !.prefixed = FALSE,
                 !.msg = Message])
  /\ UNCHANGED errno

Crashed == Top.pc = "crashed" /\ UNCHANGED vars

-----------------------------------------------------------------------------
(* Handlers, which may put errno back when they return or not. *)

Interrupt ==
  /\ depth < MaxDepth /\ Top.pc # "crashed"
  /\ depth' = depth + 1
  /\ frames' = [frames EXCEPT ![depth + 1] = NewFrame(errno)]
  /\ UNCHANGED errno

HandlerReturn ==
  /\ depth > 1 /\ Top.pc = "idle"
  /\ depth' = depth - 1
  /\ \/ errno' = Top.saved
     \/ UNCHANGED errno
  /\ frames' = [frames EXCEPT ![depth] = NewFrame(0),
                  ![depth - 1].clean = @ /\ errno' = Top.saved]

Next ==
  \/ SysCall \/ ClearErrno \/ StoreErrno \/ OpenCall \/ OpenStore
  \/ perror \/ Choose \/ Crashed
  \/ Interrupt \/ HandlerReturn

Spec == Init /\ [][Next]_vars

-----------------------------------------------------------------------------
(* Properties. *)

(* What errno is to a frame: cleared by a wrapper in progress, otherwise   *)
(* the outcome of the frame's own last call.                               *)
View(f) == IF f.pc = "zeroed" THEN 0 ELSE f.last

(* A program whose handlers put errno back finds in errno the outcome of   *)
(* its own last call, wherever handlers interrupted the two stores of the  *)
(* wrapper (WRAPPER_RETval) and whatever they called.                      *)
ErrnoIsMine == (Top.pc = "idle" /\ Top.clean) => errno = Top.last

Chooses == frames[depth].pc = "test" /\ frames'[depth].pc \in {"message", "crashed"}

PerrorStep ==
  LET f == frames[depth]
      m == frames'[depth].msg
      right == IF InTable(f.wanted) THEN f.wanted ELSE Unknown
      wrong == IF InTable(f.wanted) THEN Unknown ELSE Outside
  IN  (Chooses /\ f.clean /\ f.wanted # Unspecified) =>
        /\ (~f.prefixed \/ InTable(f.last) = InTable(f.wanted)) => m = right
        /\ m \in {right, wrong}

(* perror without a prefix prints the message of the failure it was called *)
(* for, and Unknown for one that errmsg does not have.  With a prefix its  *)
(* own writes have replaced errno before the test of line 350, and it does *)
(* the same only when the write of the colon ended on the same side of the *)
(* table's end as that failure: otherwise it says Unknown of a failure in  *)
(* the table, or reads outside it.  It never names another failure.        *)
PerrorNames == [][PerrorStep]_vars

=============================================================================
