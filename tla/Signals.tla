------------------------------ MODULE Signals ------------------------------
(***************************************************************************)
(* The signal functions of libmini.c, and pause and sleep, in a program    *)
(* that calls them in any order from its main code and from its handlers   *)
(* while signals arrive.                                                   *)
(*                                                                         *)
(* The program has one sigset_t.  A signal set is eight bytes; memset      *)
(* starts at an index that the code does not initialise and that is        *)
(* signed: what the bytes of the set before it hold stays as it was, and   *)
(* from a negative one memset also overwrites what lies before the set.    *)
(* errno is left out: a call that fails, with a number that is no signal   *)
(* for instance, changes nothing else and has no action, and neither has   *)
(* sigismember, which only reads the set.                                  *)
(***************************************************************************)
EXTENDS Integers, Sequences, FiniteSets

CONSTANTS
  Sig,       \* signals the program uses
  Alarm,     \* SIGALRM
  Leftover,  \* values memset may find in i
  MaxDepth,  \* bound on nested handlers
  MaxUndefined \* bound on the calls whose behaviour is undefined

ASSUME SignalsAssumption ==
  /\ Sig \subseteq 1..31 /\ Alarm \in Sig
  /\ Leftover \subseteq Int
  /\ MaxDepth \in Nat /\ MaxUndefined \in Nat

VARIABLES
  set,      \* the program's sigset_t
  mask, pending, action, timer,   \* the kernel's view of the process
  frames,   \* handlers in progress, the innermost last
  wait,     \* the blocking call the innermost code is in
  mainmask, \* what the program set its mask to, outside of handlers
  queries,  \* calls of sigaction with a null act
  overruns, \* calls in which memset wrote before its set
  status

vars == <<set, mask, pending, action, timer, frames, wait, mainmask, queries, overruns, status>>

Handler == {"SIG_DFL", "SIG_IGN", "handler", "wild"}
Action == [sa_handler : Handler, sa_mask : SUBSET Sig, restorer : BOOLEAN]
Frame == [mask : SUBSET Sig, restorer : BOOLEAN]
Default == [sa_handler |-> "SIG_DFL", sa_mask |-> {}, restorer |-> FALSE]

(* The values the variables of the program and of the kernel take: every   *)
(* set of signals the library builds has only signals in it.               *)
TypeOK ==
  /\ set \subseteq Sig /\ mask \subseteq Sig /\ pending \subseteq Sig
  /\ action \in [Sig -> Action]
  /\ timer \in BOOLEAN
  /\ frames \in Seq(Frame)
  /\ wait \in {"no", "pause", "sleep"}
  /\ mainmask \subseteq Sig
  /\ queries \in Nat /\ overruns \in Nat
  /\ status \in {"alive", "killed", "crashed"}

(* An automatic sigset_t holds anything. *)
Init ==
  /\ set \in SUBSET Sig
  /\ mask = {} /\ pending = {} /\ action = [s \in Sig |-> Default] /\ timer = FALSE
  /\ frames = <<>> /\ wait = "no" /\ mainmask = {} /\ queries = 0 /\ overruns = 0
  /\ status = "alive"

-----------------------------------------------------------------------------
(* The kernel. *)

Ready == status = "alive" /\ wait = "no"

Raise ==
  /\ status = "alive"
  /\ \E s \in Sig : pending' = pending \cup {s}
  /\ UNCHANGED <<set, mask, action, timer, frames, wait, mainmask, queries, overruns, status>>

AlarmFires ==
  /\ status = "alive" /\ timer
  /\ timer' = FALSE /\ pending' = pending \cup {Alarm}
  /\ UNCHANGED <<set, mask, action, frames, wait, mainmask, queries, overruns, status>>

(* The process is gone. *)
Ends(how) ==
  /\ status' = how
  /\ set' = {} /\ mask' = {} /\ pending' = {} /\ action' = [s \in Sig |-> Default]
  /\ timer' = FALSE /\ frames' = <<>> /\ wait' = "no" /\ mainmask' = {}

(* The handler runs on top of what was interrupted, and ends a blocking    *)
(* call: pause and sleep return once the handler has.                      *)
Deliver ==
  /\ status = "alive"
  /\ \E s \in pending \ mask :
       \/ action[s].sa_handler = "SIG_DFL" /\ Ends("killed")
       \/ action[s].sa_handler = "wild" /\ Ends("crashed")
       \/ /\ action[s].sa_handler = "SIG_IGN"
          /\ pending' = pending \ {s}
          /\ UNCHANGED <<set, mask, action, timer, frames, wait, mainmask, status>>
       \/ /\ action[s].sa_handler = "handler" /\ Len(frames) < MaxDepth
          /\ pending' = pending \ {s}
          /\ frames' = Append(frames, [mask |-> mask, restorer |-> action[s].restorer])
          /\ mask' = mask \cup action[s].sa_mask \cup {s}
          /\ wait' = "no"
          /\ UNCHANGED <<set, action, timer, mainmask, status>>
  /\ UNCHANGED <<queries, overruns>>

(* rt_sigaction with new action a, of which only a handler needs the rest; *)
(* an ignored signal is no longer pending.                                 *)
sys_rt_sigaction(s, a) ==
  /\ action' = [action EXCEPT ![s] =
       IF a.sa_handler = "handler" THEN a ELSE [Default EXCEPT !.sa_handler = a.sa_handler]]
  /\ pending' = IF a.sa_handler = "SIG_IGN" THEN pending \ {s} ELSE pending

(* The innermost handler returns through the code at sa_restorer; without  *)
(* one it returns to a wild address.                                       *)
Last == frames[Len(frames)]

HandlerWithoutRestorer ==
  /\ Ready /\ frames # <<>> /\ ~Last.restorer
  /\ Ends("crashed")
  /\ UNCHANGED <<queries, overruns>>

-----------------------------------------------------------------------------
(* The library. *)

(* Mutant: the restorer returns without the system call. *)
SigreturnPlain ==
  /\ Ready /\ frames # <<>> /\ Last.restorer
  /\ frames' = SubSeq(frames, 1, Len(frames) - 1)
  /\ UNCHANGED <<set, mask, pending, action, timer, wait, mainmask, queries, overruns, status>>

(* sys_rt_sigreturn; a call that the handler interrupted ends as well.     *)
sys_rt_sigreturn ==
  /\ Ready /\ frames # <<>> /\ Last.restorer
  /\ mask' = Last.mask
  /\ frames' = SubSeq(frames, 1, Len(frames) - 1)
  /\ UNCHANGED <<set, pending, action, timer, wait, mainmask, queries, overruns, status>>

(* Bound: the program may still do something undefined. *)
Undefined == queries + overruns < MaxUndefined

(* What the i of memset holds when its loop begins. *)
Index == {i \in Leftover : i >= 0 \/ Undefined}

(* memset on a sigset_t, starting at byte i. *)
ByteOf(s) == (s - 1) \div 8
memset(old, fill, i) == {s \in old : ByteOf(s) < i} \cup {s \in fill : ByteOf(s) >= i}

(* Before the set lie the frames of the handlers that run on top of its    *)
(* owner: a frame is left alone, or overwritten from within its mask on,   *)
(* or from its return address to the restorer on.                          *)
Overwritten(f, fill) ==
  {[f EXCEPT !.mask = memset(f.mask, fill, k)] : k \in 0..8} \cup {[mask |-> fill, restorer |-> FALSE]}

(* sigemptyset and sigfillset. *)
FillSet(fill, i) ==
  /\ set' = memset(set, fill, i)
  /\ overruns' = IF i < 0 THEN overruns + 1 ELSE overruns
  /\ frames' \in IF i >= 0 THEN {frames}
                 ELSE {g \in [1..Len(frames) -> Frame] :
                         \A k \in 1..Len(frames) : g[k] \in Overwritten(frames[k], fill)}

(* The return address of memset itself is overwritten. *)
MemsetCrashes ==
  /\ Ready
  /\ \E i \in Index : i < 0
  /\ overruns' = overruns + 1 /\ Ends("crashed")
  /\ UNCHANGED queries

sigemptyset ==
  /\ Ready
  /\ \E i \in Index : FillSet({}, i)
  /\ UNCHANGED <<mask, pending, action, timer, wait, mainmask, queries, status>>

sigfillset ==
  /\ Ready
  /\ \E i \in Index : FillSet(Sig, i)
  /\ UNCHANGED <<mask, pending, action, timer, wait, mainmask, queries, status>>

(* Mutant: the bit of the signal is taken as bit sig, not sig - 1. *)
SigaddsetOff ==
  /\ Ready
  /\ \E s \in Sig : set' = set \cup {s + 1}
  /\ UNCHANGED <<mask, pending, action, timer, frames, wait, mainmask, queries, overruns, status>>

sigaddset ==
  /\ Ready
  /\ \E s \in Sig : set' = set \cup {s}
  /\ UNCHANGED <<mask, pending, action, timer, frames, wait, mainmask, queries, overruns, status>>

sigdelset ==
  /\ Ready
  /\ \E s \in Sig : set' = set \ {s}
  /\ UNCHANGED <<mask, pending, action, timer, frames, wait, mainmask, queries, overruns, status>>

sigpending ==
  /\ Ready
  /\ set' = pending \cap mask
  /\ UNCHANGED <<mask, pending, action, timer, frames, wait, mainmask, queries, overruns, status>>

sigprocmask ==
  /\ Ready
  /\ mask' \in {mask \cup set, mask \ set, set}
  /\ mainmask' = IF frames = <<>> THEN mask' ELSE mainmask
  /\ UNCHANGED <<set, pending, action, timer, frames, wait, queries, overruns, status>>

(* Mutant: the kernel structure goes without SA_RESTORER. *)
SigactionNoRestorer ==
  /\ Ready
  /\ \E s \in Sig, h \in {"SIG_DFL", "SIG_IGN", "handler"} :
       sys_rt_sigaction(s, [sa_handler |-> h, sa_mask |-> set, restorer |-> FALSE])
  /\ UNCHANGED <<set, mask, timer, frames, wait, mainmask, queries, overruns, status>>

sigaction ==
  /\ Ready
  /\ \E s \in Sig, h \in {"SIG_DFL", "SIG_IGN", "handler"} :
       sys_rt_sigaction(s, [sa_handler |-> h, sa_mask |-> set, restorer |-> TRUE])
  /\ UNCHANGED <<set, mask, timer, frames, wait, mainmask, queries, overruns, status>>

(* sigaction with a null act: kact is passed on as it is, uninitialised. *)
SigactionQuery ==
  /\ Ready /\ Undefined
  /\ \E s \in Sig, h \in Handler, junk \in SUBSET Sig, r \in BOOLEAN :
       sys_rt_sigaction(s, [sa_handler |-> h, sa_mask |-> junk, restorer |-> r])
  /\ queries' = queries + 1
  /\ UNCHANGED <<set, mask, timer, frames, wait, mainmask, overruns, status>>

(* signal: its act.sa_mask is an automatic sigset_t as well, behind the    *)
(* sa_handler that a negative index may clear in part or altogether.       *)
signal ==
  /\ Ready
  /\ \E s \in Sig, h \in {"SIG_DFL", "SIG_IGN", "handler"}, i \in Index :
       \E g \in {h} \cup {x \in {"SIG_DFL", "wild"} : i < 0},
          m \in {memset(junk, {}, i) : junk \in SUBSET Sig} :
         /\ sys_rt_sigaction(s, [sa_handler |-> g, sa_mask |-> m \cup {s}, restorer |-> TRUE])
         /\ overruns' = IF i < 0 THEN overruns + 1 ELSE overruns
  /\ UNCHANGED <<set, mask, timer, frames, wait, mainmask, queries, status>>

alarm ==
  /\ Ready
  /\ timer' \in BOOLEAN
  /\ UNCHANGED <<set, mask, pending, action, frames, wait, mainmask, queries, overruns, status>>

pause ==
  /\ Ready
  /\ wait' = "pause"
  /\ UNCHANGED <<set, mask, pending, action, timer, frames, mainmask, queries, overruns, status>>

sleep ==
  /\ Ready
  /\ wait' = "sleep"
  /\ UNCHANGED <<set, mask, pending, action, timer, frames, mainmask, queries, overruns, status>>

(* The time is over. *)
SleepEnds ==
  /\ status = "alive" /\ wait = "sleep"
  /\ wait' = "no"
  /\ UNCHANGED <<set, mask, pending, action, timer, frames, mainmask, queries, overruns, status>>

-----------------------------------------------------------------------------
Kernel == Raise \/ AlarmFires \/ Deliver \/ HandlerWithoutRestorer \/ SleepEnds

Library ==
  \/ sys_rt_sigreturn
  \/ sigemptyset \/ sigfillset \/ MemsetCrashes \/ sigaddset \/ sigdelset
  \/ sigpending \/ sigprocmask \/ sigaction \/ SigactionQuery \/ signal
  \/ alarm \/ pause \/ sleep

Dead == status # "alive" /\ UNCHANGED vars

Next == Kernel \/ Library \/ Dead

Spec == Init /\ [][Next]_vars

-----------------------------------------------------------------------------
(* Properties. *)

(* However handlers are installed, nested and interrupted, each of them    *)
(* can return: sigaction gives every action the restorer the kernel needs. *)
(* It is lost when the program calls it with a null act, which installs    *)
(* anything, and when memset starts before its set.                        *)
HandlersReturn == queries = 0 /\ overruns = 0 => status # "crashed"

(* The main code runs under the mask it set itself: what sa_mask, the      *)
(* kernel and the handlers add is gone when the outermost handler returns, *)
(* whatever memset leaves in a set, unless it overwrote a handler's frame. *)
MaskIsMains == (status = "alive" /\ frames = <<>> /\ overruns = 0) => mask = mainmask

=============================================================================
