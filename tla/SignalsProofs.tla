---------------------------- MODULE SignalsProofs ----------------------------
(***************************************************************************)
(* The signal functions of libmini.c, for any set of signals, any value    *)
(* that memset finds in its index and any nesting of handlers.             *)
(***************************************************************************)
EXTENDS Signals, SequenceTheorems, TLAPS

(* A program that has done nothing undefined has a restorer in every       *)
(* handler it installed, and in every frame the kernel made.               *)
RestorerInv ==
  queries = 0 /\ overruns = 0 =>
    /\ status # "crashed"
    /\ \A s \in Sig : /\ action[s].sa_handler # "wild"
                      /\ action[s].sa_handler = "handler" => action[s].restorer
    /\ \A i \in 1..Len(frames) : frames[i].restorer

(* The mask of the main code is the current one, or the one the outermost  *)
(* frame puts back.                                                        *)
OuterMaskInv ==
  overruns = 0 => mainmask = IF frames = <<>> THEN mask ELSE frames[1].mask

Inv == TypeOK /\ RestorerInv /\ OuterMaskInv

-----------------------------------------------------------------------------
(* The kernel's frame and the calls that change actions. *)

LEMMA MemsetType ==
  ASSUME NEW old \in SUBSET Sig, NEW fill \in SUBSET Sig, NEW i
  PROVE  memset(old, fill, i) \subseteq Sig
  BY DEF memset

(* rt_sigaction replaces the action of one signal by one that is typed, is *)
(* wild only when it was asked for, and keeps the restorer of a handler.   *)
LEMMA SigactionEffect ==
  ASSUME TypeOK, NEW s \in Sig, NEW a \in Action, sys_rt_sigaction(s, a)
  PROVE  /\ action' \in [Sig -> Action]
         /\ pending' \subseteq Sig
         /\ \A x \in Sig : x # s => action'[x] = action[x]
         /\ action'[s].sa_handler = a.sa_handler
         /\ a.sa_handler = "handler" => action'[s].restorer = a.restorer
  <1> DEFINE b == IF a.sa_handler = "handler" THEN a
                  ELSE [Default EXCEPT !.sa_handler = a.sa_handler]
  <1>1. /\ b \in Action /\ b.sa_handler = a.sa_handler
        /\ a.sa_handler = "handler" => b.restorer = a.restorer
    BY DEF Action, Default, Handler
  <1>2. action' = [action EXCEPT ![s] = b]
    BY DEF sys_rt_sigaction
  <1>3. pending' \subseteq Sig
    BY DEF sys_rt_sigaction, TypeOK
  <1> HIDE DEF b
  <1> QED BY <1>1, <1>2, <1>3 DEF TypeOK

(* The library asks for an action with a restorer. *)
LEMMA LibraryAction ==
  ASSUME TypeOK, RestorerInv, NEW s \in Sig, NEW h \in {"SIG_DFL", "SIG_IGN", "handler"},
         NEW m \in SUBSET Sig,
         sys_rt_sigaction(s, [sa_handler |-> h, sa_mask |-> m, restorer |-> TRUE]),
         UNCHANGED <<set, mask, timer, frames, wait, mainmask, queries, overruns, status>>
  PROVE  TypeOK' /\ RestorerInv'
  <1> DEFINE a == [sa_handler |-> h, sa_mask |-> m, restorer |-> TRUE]
  <1>1. a \in Action /\ a.sa_handler # "wild" /\ a.restorer
    BY DEF Action, Handler
  <1>2. sys_rt_sigaction(s, a)
    OBVIOUS
  <1> HIDE DEF a
  <1>3. /\ action' \in [Sig -> Action]
        /\ pending' \subseteq Sig
        /\ \A x \in Sig : x # s => action'[x] = action[x]
        /\ action'[s].sa_handler = a.sa_handler
        /\ a.sa_handler = "handler" => action'[s].restorer = a.restorer
    BY <1>1, <1>2, SigactionEffect
  <1>4. TypeOK'
    BY <1>3 DEF TypeOK
  <1>5. RestorerInv'
    BY <1>1, <1>3 DEF RestorerInv
  <1> QED BY <1>4, <1>5

(* A new frame goes on top; the frames below it are as they were. *)
LEMMA PushFrame ==
  ASSUME frames \in Seq(Frame), NEW f \in Frame
  PROVE  /\ Append(frames, f) \in Seq(Frame)
         /\ Append(frames, f) # <<>>
         /\ Len(Append(frames, f)) = Len(frames) + 1
         /\ \A i \in 1..Len(frames) : Append(frames, f)[i] = frames[i]
         /\ Append(frames, f)[Len(frames) + 1] = f
         /\ Append(frames, f)[1] = IF frames = <<>> THEN f ELSE frames[1]
  BY AppendProperties, EmptySeq, LenProperties

(* A handler that returns takes its own frame away, and none below it. *)
LEMMA PopFrame ==
  ASSUME frames \in Seq(Frame), frames # <<>>
  PROVE  LET rest == SubSeq(frames, 1, Len(frames) - 1)
         IN  /\ Last \in Frame
             /\ rest \in Seq(Frame)
             /\ Len(rest) = Len(frames) - 1
             /\ \A i \in 1..Len(rest) : rest[i] = frames[i]
             /\ rest = <<>> => Last = frames[1]
             /\ rest # <<>> => rest[1] = frames[1]
  <1>1. Len(frames) \in Nat \ {0}
    BY EmptySeq
  <1>2. \A i \in 1..Len(frames) : frames[i] \in Frame
    BY ElementOfSeq
  <1> DEFINE rest == SubSeq(frames, 1, Len(frames) - 1)
  <1>3. /\ rest \in Seq(Frame)
        /\ Len(rest) = Len(frames) - 1
        /\ \A i \in 1..Len(rest) : rest[i] = frames[i]
    <2> DEFINE n == Len(frames) - 1
    <2>1. n \in Nat /\ \A i \in 1..n : frames[i] \in Frame
      BY <1>1, <1>2
    <2> HIDE DEF n
    <2>2. /\ SubSeq(frames, 1, n) \in Seq(Frame)
          /\ Len(SubSeq(frames, 1, n)) = IF 1 <= n THEN n - 1 + 1 ELSE 0
          /\ \A i \in 1..(n - 1 + 1) : SubSeq(frames, 1, n)[i] = frames[1 + i - 1]
      BY <2>1, SubSeqProperties
    <2>3. rest = SubSeq(frames, 1, n)
      BY DEF n
    <2>4. Len(rest) = n /\ \A i \in 1..n : rest[i] = frames[i]
      BY <2>1, <2>2, <2>3
    <2> QED BY <2>2, <2>3, <2>4 DEF n
  <1> HIDE DEF rest
  <1>4. rest = <<>> => Len(frames) = 1
    BY <1>1, <1>3
  <1>5. rest # <<>> => Len(rest) \in Nat \ {0}
    BY <1>3, EmptySeq
  <1>6. rest # <<>> => rest[1] = frames[1]
    BY <1>3, <1>5
  <1>7. rest = <<>> => Last = frames[1]
    BY <1>4 DEF Last
  <1>8. Last \in Frame
    BY <1>1, <1>2 DEF Last
  <1> QED BY <1>3, <1>6, <1>7, <1>8 DEF rest

-----------------------------------------------------------------------------
(* The end of the process leaves nothing that needs a restorer, or a mask. *)
LEMMA EndsStep ==
  ASSUME NEW how \in {"killed", "crashed"}, Ends(how), queries' \in Nat, overruns' \in Nat,
         how = "crashed" => queries' # 0 \/ overruns' # 0
  PROVE  Inv'
  <1>1. Default \in Action /\ Default.sa_handler = "SIG_DFL"
    BY DEF Default, Action, Handler
  <1>2. frames' = <<>> /\ frames' \in Seq(Frame) /\ Len(frames') = 0
    BY EmptySeq DEF Ends
  <1>3. TypeOK'
    BY <1>1, <1>2 DEF Ends, TypeOK
  <1>4. RestorerInv'
    BY <1>1, <1>2 DEF Ends, RestorerInv
  <1>5. OuterMaskInv'
    BY DEF Ends, OuterMaskInv
  <1> QED BY <1>3, <1>4, <1>5 DEF Inv

(* The kernel kills the program, ignores the signal, runs a wild handler,  *)
(* or runs a handler in a new frame that holds the interrupted mask.       *)
LEMMA DeliverStep == Inv /\ Deliver => Inv'
  <1> SUFFICES ASSUME TypeOK, RestorerInv, OuterMaskInv, Deliver PROVE Inv'
    BY DEF Inv
  <1>1. PICK s \in pending \ mask :
          \/ action[s].sa_handler = "SIG_DFL" /\ Ends("killed")
          \/ action[s].sa_handler = "wild" /\ Ends("crashed")
          \/ /\ action[s].sa_handler = "SIG_IGN"
             /\ pending' = pending \ {s}
             /\ UNCHANGED <<set, mask, action, timer, frames, wait, mainmask, status>>
          \/ /\ action[s].sa_handler = "handler"
             /\ pending' = pending \ {s}
             /\ frames' = Append(frames, [mask |-> mask, restorer |-> action[s].restorer])
             /\ mask' = mask \cup action[s].sa_mask \cup {s}
             /\ wait' = "no"
             /\ UNCHANGED <<set, action, timer, mainmask, status>>
    BY DEF Deliver
  <1>2. UNCHANGED <<queries, overruns>> /\ queries' \in Nat /\ overruns' \in Nat
    BY DEF Deliver, TypeOK
  <1>3. s \in Sig /\ action[s] \in Action
    BY <1>1 DEF TypeOK
  <1>4. CASE action[s].sa_handler # "handler"
    <2>1. CASE Ends("killed")
      BY <1>2, <2>1, EndsStep
    <2>2. CASE action[s].sa_handler = "wild" /\ Ends("crashed")
      <3>1. queries' # 0 \/ overruns' # 0
        BY <1>2, <1>3, <2>2 DEF RestorerInv
      <3> QED BY <1>2, <2>2, <3>1, EndsStep
    <2>3. CASE /\ pending' = pending \ {s}
               /\ UNCHANGED <<set, mask, action, timer, frames, wait, mainmask, status>>
      BY <1>2, <2>3 DEF Inv, TypeOK, RestorerInv, OuterMaskInv
    <2> QED BY <1>1, <1>4, <2>1, <2>2, <2>3
  <1>5. CASE action[s].sa_handler = "handler"
    <2> DEFINE f == [mask |-> mask, restorer |-> action[s].restorer]
    <2>1. f \in Frame /\ f.mask = mask /\ f.restorer = action[s].restorer
      BY <1>3 DEF TypeOK, Frame, Action
    <2>2. /\ frames' = Append(frames, f)
          /\ mask' = mask \cup action[s].sa_mask \cup {s}
          /\ wait' = "no" /\ pending' = pending \ {s}
          /\ UNCHANGED <<set, action, timer, mainmask, status>>
      BY <1>1, <1>5
    <2> HIDE DEF f
    <2>3. frames \in Seq(Frame) /\ Len(frames) \in Nat
      BY LenProperties DEF TypeOK
    <2>4. /\ frames' \in Seq(Frame)
          /\ frames' # <<>>
          /\ Len(frames') = Len(frames) + 1
          /\ \A i \in 1..Len(frames) : frames'[i] = frames[i]
          /\ frames'[Len(frames) + 1] = f
          /\ frames'[1] = IF frames = <<>> THEN f ELSE frames[1]
      BY <2>1, <2>2, <2>3, PushFrame
    <2>5. mask' \subseteq Sig
      BY <1>3, <2>2 DEF TypeOK, Action
    <2>6. TypeOK'
      BY <1>2, <1>3, <2>2, <2>4, <2>5 DEF TypeOK
    <2>7. RestorerInv'
      <3>1. \A i \in 1..Len(frames') : i \in 1..Len(frames) \/ i = Len(frames) + 1
        BY <2>3, <2>4
      <3> QED BY <1>2, <1>3, <1>5, <2>1, <2>2, <2>4, <3>1 DEF RestorerInv
    <2>8. OuterMaskInv'
      BY <1>2, <2>1, <2>2, <2>4 DEF OuterMaskInv
    <2> QED BY <2>6, <2>7, <2>8 DEF Inv
  <1> QED BY <1>4, <1>5

(* sys_rt_sigreturn puts back the mask of the frame it takes away: with    *)
(* the outermost one that is the mask of the main code.                    *)
LEMMA SigreturnStep == Inv /\ sys_rt_sigreturn => Inv'
  <1> SUFFICES ASSUME TypeOK, RestorerInv, OuterMaskInv, sys_rt_sigreturn PROVE Inv'
    BY DEF Inv
  <1> DEFINE rest == SubSeq(frames, 1, Len(frames) - 1)
  <1>1. frames \in Seq(Frame) /\ frames # <<>> /\ Len(frames) \in Nat
    BY LenProperties DEF TypeOK, sys_rt_sigreturn
  <1>2. /\ mask' = Last.mask /\ frames' = rest
        /\ UNCHANGED <<set, pending, action, timer, wait, mainmask, queries, overruns, status>>
    BY DEF sys_rt_sigreturn
  <1>3. /\ Last \in Frame
        /\ rest \in Seq(Frame)
        /\ Len(rest) = Len(frames) - 1
        /\ \A i \in 1..Len(rest) : rest[i] = frames[i]
        /\ rest = <<>> => Last = frames[1]
        /\ rest # <<>> => rest[1] = frames[1]
    BY <1>1, PopFrame
  <1> HIDE DEF rest
  <1>4. TypeOK'
    BY <1>2, <1>3 DEF TypeOK, Frame
  <1>5. RestorerInv'
    <2>1. 1..Len(rest) \subseteq 1..Len(frames)
      BY <1>1, <1>3
    <2> QED BY <1>2, <1>3, <2>1 DEF RestorerInv
  <1>6. OuterMaskInv'
    BY <1>1, <1>2, <1>3 DEF OuterMaskInv
  <1> QED BY <1>4, <1>5, <1>6 DEF Inv

(* sigemptyset and sigfillset: memset stays within the set, or spoils the  *)
(* frames.                                                                 *)
LEMMA FillStep ==
  ASSUME TypeOK, RestorerInv, OuterMaskInv, NEW fill \in SUBSET Sig, NEW i \in Int, FillSet(fill, i),
         UNCHANGED <<mask, pending, action, timer, wait, mainmask, queries, status>>
  PROVE  Inv'
  <1>1. set' \subseteq Sig
    BY MemsetType DEF FillSet, TypeOK
  <1>2. CASE i >= 0
    <2>1. frames' = frames
      BY <1>2 DEF FillSet
    <2>2. overruns' \in Nat /\ (overruns' = 0 => overruns = 0)
      BY DEF FillSet, TypeOK
    <2> QED BY <1>1, <2>1, <2>2 DEF Inv, TypeOK, RestorerInv, OuterMaskInv
  <1>3. CASE ~(i >= 0)
    <2>1. frames' \in [1..Len(frames) -> Frame]
      BY <1>3 DEF FillSet
    <2>2. frames' \in Seq(Frame)
      <3>1. Len(frames) \in Nat
        BY LenProperties DEF TypeOK
      <3> QED BY <2>1, <3>1
    <2>3. overruns' \in Nat /\ overruns' # 0
      <3>1. overruns' = overruns + 1
        BY <1>3 DEF FillSet
      <3> QED BY <3>1 DEF TypeOK
    <2> QED BY <1>1, <2>2, <2>3 DEF Inv, TypeOK, RestorerInv, OuterMaskInv
  <1> QED BY <1>2, <1>3

(* signal installs the handler it was given, with a restorer, unless       *)
(* memset has overwritten it.                                              *)
LEMMA SignalStep == Inv /\ signal => Inv'
  <1> SUFFICES ASSUME TypeOK, RestorerInv, OuterMaskInv, signal PROVE Inv'
    BY DEF Inv
  <1>1. PICK s \in Sig, h \in {"SIG_DFL", "SIG_IGN", "handler"}, i \in Index :
          \E g \in {h} \cup {x \in {"SIG_DFL", "wild"} : i < 0},
             m \in {memset(junk, {}, i) : junk \in SUBSET Sig} :
            /\ sys_rt_sigaction(s, [sa_handler |-> g, sa_mask |-> m \cup {s}, restorer |-> TRUE])
            /\ overruns' = IF i < 0 THEN overruns + 1 ELSE overruns
    BY DEF signal
  <1>2. PICK g \in {h} \cup {x \in {"SIG_DFL", "wild"} : i < 0},
             m \in {memset(junk, {}, i) : junk \in SUBSET Sig} :
          /\ sys_rt_sigaction(s, [sa_handler |-> g, sa_mask |-> m \cup {s}, restorer |-> TRUE])
          /\ overruns' = IF i < 0 THEN overruns + 1 ELSE overruns
    BY <1>1
  <1>3. m \cup {s} \in SUBSET Sig
    BY MemsetType
  <1> DEFINE a == [sa_handler |-> g, sa_mask |-> m \cup {s}, restorer |-> TRUE]
  <1>4. a \in Action /\ a.sa_handler = g /\ a.restorer
    BY <1>3 DEF Action, Handler
  <1>5. sys_rt_sigaction(s, a)
    BY <1>2
  <1> HIDE DEF a
  <1>6. /\ action' \in [Sig -> Action]
        /\ pending' \subseteq Sig
        /\ \A x \in Sig : x # s => action'[x] = action[x]
        /\ action'[s].sa_handler = a.sa_handler
        /\ a.sa_handler = "handler" => action'[s].restorer = a.restorer
    BY <1>4, <1>5, SigactionEffect
  <1>7. UNCHANGED <<set, mask, timer, frames, wait, mainmask, queries, status>>
    BY DEF signal
  <1>8. /\ overruns' \in Nat /\ (overruns' = 0 => overruns = 0)
        /\ overruns' = 0 => g # "wild"
    BY <1>2 DEF TypeOK
  <1>9. TypeOK'
    BY <1>6, <1>7, <1>8 DEF TypeOK
  <1>10. RestorerInv'
    BY <1>4, <1>6, <1>7, <1>8 DEF RestorerInv
  <1>11. OuterMaskInv'
    BY <1>7, <1>8 DEF OuterMaskInv
  <1> QED BY <1>9, <1>10, <1>11 DEF Inv

(* Every step of the kernel, of the library and of the program keeps Inv.  *)
LEMMA Step == Inv /\ [Next]_vars => Inv'
  <1> SUFFICES ASSUME Inv, [Next]_vars PROVE Inv'
    OBVIOUS
  <1>0. TypeOK /\ RestorerInv /\ OuterMaskInv
    BY DEF Inv
  <1>1. CASE Raise \/ AlarmFires
    BY <1>0, <1>1, SignalsAssumption
       DEF Raise, AlarmFires, Inv, TypeOK, RestorerInv, OuterMaskInv
  <1>2. CASE Deliver
    BY <1>2, DeliverStep
  <1>3. CASE HandlerWithoutRestorer
    <2>1. Len(frames) \in 1..Len(frames)
      BY <1>0, <1>3, EmptySeq DEF HandlerWithoutRestorer, TypeOK
    <2>2. /\ Ends("crashed") /\ UNCHANGED <<queries, overruns>>
          /\ queries # 0 \/ overruns # 0
      BY <1>0, <1>3, <2>1 DEF HandlerWithoutRestorer, Last, RestorerInv
    <2> QED BY <1>0, <2>2, EndsStep DEF TypeOK
  <1>4. CASE sys_rt_sigreturn
    BY <1>4, SigreturnStep
  <1>5. CASE sigemptyset \/ sigfillset
    BY <1>0, <1>5, FillStep, SignalsAssumption DEF sigemptyset, sigfillset, Index
  <1>12. CASE MemsetCrashes
    <2>1. Ends("crashed") /\ overruns' = overruns + 1 /\ queries' = queries
      BY <1>12 DEF MemsetCrashes
    <2>2. overruns' \in Nat /\ overruns' # 0 /\ queries' \in Nat
      BY <1>0, <2>1 DEF TypeOK
    <2> QED BY <2>1, <2>2, EndsStep
  <1>13. CASE sigaddset \/ sigdelset \/ sigpending
    <2>1. set' \subseteq Sig
      BY <1>0, <1>13 DEF sigaddset, sigdelset, sigpending, TypeOK
    <2>2. UNCHANGED <<mask, pending, action, timer, frames, wait, mainmask, queries, overruns, status>>
      BY <1>13 DEF sigaddset, sigdelset, sigpending
    <2> QED BY <1>0, <2>1, <2>2 DEF Inv, TypeOK, RestorerInv, OuterMaskInv
  <1>6. CASE sigprocmask
    BY <1>0, <1>6 DEF sigprocmask, Inv, TypeOK, RestorerInv, OuterMaskInv
  <1>7. CASE sigaction
    <2>1. UNCHANGED <<set, mask, timer, frames, wait, mainmask, queries, overruns, status>>
      BY <1>7 DEF sigaction
    <2>2. TypeOK' /\ RestorerInv'
      <3>1. PICK s \in Sig, h \in {"SIG_DFL", "SIG_IGN", "handler"} :
              sys_rt_sigaction(s, [sa_handler |-> h, sa_mask |-> set, restorer |-> TRUE])
        BY <1>7 DEF sigaction
      <3>2. set \in SUBSET Sig
        BY <1>0 DEF TypeOK
      <3> QED BY <1>0, <2>1, <3>1, <3>2, LibraryAction
    <2>3. OuterMaskInv'
      BY <1>0, <2>1 DEF OuterMaskInv
    <2> QED BY <2>2, <2>3 DEF Inv
  <1>8. CASE SigactionQuery
    <2>1. PICK s \in Sig, h \in Handler, junk \in SUBSET Sig, r \in BOOLEAN :
            sys_rt_sigaction(s, [sa_handler |-> h, sa_mask |-> junk, restorer |-> r])
      BY <1>8 DEF SigactionQuery
    <2>2. [sa_handler |-> h, sa_mask |-> junk, restorer |-> r] \in Action
      BY DEF Action
    <2>3. action' \in [Sig -> Action] /\ pending' \subseteq Sig
      BY <1>0, <2>1, <2>2, SigactionEffect
    <2>4. queries' \in Nat /\ queries' # 0
      BY <1>0, <1>8 DEF SigactionQuery, TypeOK
    <2> QED BY <1>0, <1>8, <2>3, <2>4 DEF SigactionQuery, Inv, TypeOK, RestorerInv, OuterMaskInv
  <1>9. CASE signal
    BY <1>0, <1>9, SignalStep
  <1>10. CASE alarm \/ pause \/ sleep \/ SleepEnds
    BY <1>0, <1>10 DEF alarm, pause, sleep, SleepEnds, Inv, TypeOK, RestorerInv, OuterMaskInv
  <1>11. CASE UNCHANGED vars
    BY <1>0, <1>11 DEF vars, Inv, TypeOK, RestorerInv, OuterMaskInv
  <1> QED BY <1>1, <1>2, <1>3, <1>4, <1>5, <1>6, <1>7, <1>8, <1>9, <1>10, <1>11, <1>12, <1>13
          DEF Next, Kernel, Library, Dead

LEMMA Initially == Init => Inv
  <1> SUFFICES ASSUME Init PROVE Inv
    OBVIOUS
  <1>1. Default \in Action /\ Default.sa_handler = "SIG_DFL"
    BY DEF Default, Action, Handler
  <1>2. frames = <<>> /\ frames \in Seq(Frame) /\ Len(frames) = 0
    BY EmptySeq DEF Init
  <1>3. TypeOK
    BY <1>1, <1>2 DEF Init, TypeOK
  <1>4. RestorerInv
    BY <1>1, <1>2 DEF Init, RestorerInv
  <1> QED BY <1>3, <1>4 DEF Init, Inv, OuterMaskInv

(* The restorers and the masks of the frames are as Inv says in every      *)
(* state, whatever the program calls and whatever arrives.                 *)
THEOREM Invariance == Spec => []Inv
  BY Initially, Step, PTL DEF Spec

-----------------------------------------------------------------------------
(* The sets of signals that sigemptyset, sigfillset, sigaddset, sigdelset, *)
(* sigpending and sigprocmask make hold only signals, also when memset     *)
(* starts at an index left over, and a handler's frame is always a frame.  *)
THEOREM TypeCorrect == Spec => []TypeOK
  BY Invariance, PTL DEF Inv

(* No handler returns to a wild address, however handlers are installed    *)
(* with sigaction and signal, nested and interrupted, as long as the       *)
(* program does not call sigaction with a null act and memset does not     *)
(* start before a set.                                                     *)
THEOREM EveryHandlerReturns == Spec => []HandlersReturn
  <1>1. Inv => HandlersReturn
    BY DEF Inv, RestorerInv, HandlersReturn
  <1> QED BY <1>1, Invariance, PTL

(* Outside of handlers the mask is what the main code set with             *)
(* sigprocmask: every handler's return undoes what its delivery blocked,   *)
(* and what the handler itself did to the mask, as long as memset does not *)
(* overwrite the frame.                                                    *)
THEOREM MainKeepsItsMask == Spec => []MaskIsMains
  <1>1. Inv => MaskIsMains
    BY DEF Inv, OuterMaskInv, MaskIsMains
  <1> QED BY <1>1, Invariance, PTL

=============================================================================
