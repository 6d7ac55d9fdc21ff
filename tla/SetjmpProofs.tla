---------------------------- MODULE SetjmpProofs ----------------------------
(***************************************************************************)
(* setjmp and longjmp, for a stack of any depth, any call sites and any    *)
(* values of registers, with the signal between any two instructions.      *)
(***************************************************************************)
EXTENDS Setjmp, TLAPS

(* The code outside of the handler: what runs, or what the kernel saved of *)
(* it.  Neither the delivery of the signal nor sys_rt_sigreturn changes it.*)
Main == IF handling THEN ctx ELSE Running

(* setjmp has a word to pop at its start and its end, and room for one in  *)
(* between.                                                                *)
Room(c) ==
  c.at = "setjmp" => /\ c.k \in {0} \cup 5..11 => c.rsp >= 1
                     /\ c.k \in 1..4 => c.rsp < Depth

(* What keeps the stack pointer within the stack. *)
ShapeInv ==
  /\ jb.rsp <= Depth
  /\ handling => at # "setjmp"
  /\ Room(Main)

(* A handler that has not begun to jump stays above the word through which *)
(* it returns to sys_rt_sigreturn.                                         *)
HandlerInv ==
  (handling /\ at = "body") =>
    rsp >= ctx.rsp + 2 /\ ctx.rsp + 2 <= Depth /\ stack[ctx.rsp + 2].ret = "sigreturn"

(* What the code c has done of setjmp: the fields it saved are those of    *)
(* its caller, and the pushed return address is still there.               *)
Saved(c) ==
  /\ \A i \in 1..10 : (i < c.k /\ SetjmpCode[i] \in Kept) =>
       jb.regs[SetjmpCode[i]] = c.regs[SetjmpCode[i]]
  /\ c.k >= 4 => jb.rsp = IF c.k >= 5 THEN c.rsp - 1 ELSE c.rsp
  /\ c.k >= 5 => stack[c.rsp].ret = c.rsi
  /\ c.k >= 11 => jb.rip = c.rsi

(* What the code c, which has called longjmp with v, has done of longjmp. *)
Loaded(c, v) ==
  /\ c.k \in 1..9
  /\ \A j \in 1..8 : (j < c.k /\ LongjmpCode[j] \in Kept) =>
       c.regs[LongjmpCode[j]] = jb.regs[LongjmpCode[j]]
  /\ c.k >= 4 => c.rsp = jb.rsp
  /\ c.esi = v
  /\ c.k >= 2 => c.eax = v

(* Outside of setjmp the buffer holds what the program saw when setjmp     *)
(* returned; within it the program does not jump.                          *)
BufferInv ==
  /\ Main.at = "setjmp" => ~canjump /\ at # "longjmp" /\ Saved(Main)
  /\ Main.at # "setjmp" => jb = captured.buf
  /\ Main.at = "longjmp" => Loaded(Main, given[FALSE])
  /\ at = "longjmp" => Loaded(Running, given[handling])

Context == [at : Code, k : 0..11, regs : [Kept -> Val], rsp : 0..Depth,
            rsi : Label, esi : Int, eax : Int, mask : BOOLEAN]

TInv == TypeOK /\ ShapeInv /\ HandlerInv

-----------------------------------------------------------------------------
(* The instructions and the data. *)

LEMMA SetjmpCodeFacts ==
  /\ \A i \in 1..10 : /\ SetjmpCode[i] \in Kept \cup {"eax", "rsp", "push", "rip"}
                      /\ SetjmpCode[i] = "eax" <=> i = 1
                      /\ SetjmpCode[i] = "rsp" <=> i = 3
                      /\ SetjmpCode[i] = "push" <=> i = 4
                      /\ SetjmpCode[i] = "rip" <=> i = 10
  /\ \A r \in Kept : \E i \in 1..10 : SetjmpCode[i] = r
  <1>1. /\ SetjmpCode[1] = "eax" /\ SetjmpCode[2] = "rbx" /\ SetjmpCode[3] = "rsp"
        /\ SetjmpCode[4] = "push" /\ SetjmpCode[5] = "rbp" /\ SetjmpCode[6] = "r12"
        /\ SetjmpCode[7] = "r13" /\ SetjmpCode[8] = "r14" /\ SetjmpCode[9] = "r15"
        /\ SetjmpCode[10] = "rip"
    BY DEF SetjmpCode
  <1>2. \A i \in 1..10 : \/ i = 1 \/ i = 2 \/ i = 3 \/ i = 4 \/ i = 5
                        \/ i = 6 \/ i = 7 \/ i = 8 \/ i = 9 \/ i = 10
    OBVIOUS
  <1> HIDE DEF SetjmpCode
  <1> QED BY <1>1, <1>2 DEF Kept

LEMMA LongjmpCodeFacts ==
  /\ \A i \in 1..8 : /\ LongjmpCode[i] \in Kept \cup {"eax", "rsp"}
                     /\ LongjmpCode[i] = "eax" <=> i = 1
                     /\ LongjmpCode[i] = "rsp" <=> i = 3
  /\ \A r \in Kept : \E i \in 1..8 : LongjmpCode[i] = r
  <1>1. /\ LongjmpCode[1] = "eax" /\ LongjmpCode[2] = "rbx" /\ LongjmpCode[3] = "rsp"
        /\ LongjmpCode[4] = "rbp" /\ LongjmpCode[5] = "r12" /\ LongjmpCode[6] = "r13"
        /\ LongjmpCode[7] = "r14" /\ LongjmpCode[8] = "r15"
    BY DEF LongjmpCode
  <1>2. \A i \in 1..8 : i = 1 \/ i = 2 \/ i = 3 \/ i = 4 \/ i = 5 \/ i = 6 \/ i = 7 \/ i = 8
    OBVIOUS
  <1> HIDE DEF LongjmpCode
  <1> QED BY <1>1, <1>2 DEF Kept

LEMMA KeptNames ==
  {"eax", "rsp", "rip", "push"} \cap Kept = {} /\ "rbx" \in Kept
  BY DEF Kept

LEMMA ValFacts == SomeVal \in Val /\ \A v \in Val : Uniform(v) \in [Kept -> Val]
  BY SetjmpAssumption DEF SomeVal, Uniform

LEMMA IdleType == Idle \in Context
  BY ValFacts, SetjmpAssumption DEF Idle, Context, Code, Label

LEMMA BlankType == Blank \in Buffer /\ Blank.rsp = 0
  BY ValFacts DEF Blank, Buffer, Label

LEMMA MainType ==
  ASSUME TypeOK
  PROVE  ctx \in Context /\ Main \in Context
  BY DEF TypeOK, Main, Running, Context

(* mov [rdi + offset of r], r changes one field of the buffer. *)
LEMMA SaveField ==
  ASSUME TypeOK, NEW r \in Kept \cup {"rsp", "rip"}
  PROVE  /\ Save(r) \in Buffer
         /\ r = "rsp" => /\ Save(r).rsp = rsp
                         /\ Save(r).regs = jb.regs /\ Save(r).rip = jb.rip
         /\ r = "rip" => /\ Save(r).rip = rsi
                         /\ Save(r).regs = jb.regs /\ Save(r).rsp = jb.rsp
         /\ r \in Kept => /\ Save(r).regs = [jb.regs EXCEPT ![r] = regs[r]]
                          /\ Save(r).rsp = jb.rsp /\ Save(r).rip = jb.rip
  <1>1. jb \in Buffer /\ jb.regs \in [Kept -> Val] /\ rsp \in Nat /\ rsi \in Label
    BY SetjmpAssumption DEF TypeOK, Buffer
  <1>2. CASE r = "rsp"
    <2>1. Save(r) = [jb EXCEPT !.rsp = rsp]
      BY <1>2 DEF Save
    <2> QED BY <1>1, <1>2, <2>1, KeptNames DEF Buffer
  <1>3. CASE r = "rip"
    <2>1. Save(r) = [jb EXCEPT !.rip = rsi]
      BY <1>3 DEF Save
    <2> QED BY <1>1, <1>3, <2>1, KeptNames DEF Buffer
  <1>4. CASE r \in Kept
    <2> DEFINE g == [jb.regs EXCEPT ![r] = regs[r]]
    <2>1. g \in [Kept -> Val]
      BY <1>1, <1>4 DEF TypeOK
    <2>2. Save(r) = [jb EXCEPT !.regs = g]
      BY <1>4, KeptNames DEF Save
    <2>3. r # "rsp" /\ r # "rip"
      BY <1>4, KeptNames
    <2> HIDE DEF g
    <2>4. /\ Save(r) \in Buffer /\ Save(r).regs = g
          /\ Save(r).rsp = jb.rsp /\ Save(r).rip = jb.rip
      BY <1>1, <2>1, <2>2 DEF Buffer
    <2> QED BY <2>3, <2>4 DEF g
  <1> QED BY <1>2, <1>3, <1>4

LEMMA PushWord ==
  ASSUME TypeOK, NEW w \in Word, rsp < Depth, Push(w)
  PROVE  /\ stack' \in [1..Depth -> Word]
         /\ rsp' = rsp + 1 /\ rsp' \in 0..Depth
         /\ stack'[rsp + 1] = w
         /\ \A i \in 1..Depth : i # rsp + 1 => stack'[i] = stack[i]
  BY SetjmpAssumption DEF TypeOK, Push

(* Steps of the handler do not touch what it interrupted, nor do the steps *)
(* that begin and end it.                                                  *)
LEMMA MainSame ==
  ASSUME TypeOK, \/ handling /\ UNCHANGED <<handling, ctx>>
                 \/ Deliver \/ sys_rt_sigreturn
  PROVE  Main' = Main
  <1>1. CASE handling /\ UNCHANGED <<handling, ctx>>
    BY <1>1 DEF Main, Running
  <1>2. CASE Deliver
    BY <1>2 DEF Deliver, Main, Running
  <1>3. CASE sys_rt_sigreturn
    BY <1>3, MainType DEF sys_rt_sigreturn, Main, Running, Context
  <1> QED BY <1>1, <1>2, <1>3

-----------------------------------------------------------------------------
(* The stack pointer stays within the stack. *)

LEMMA ProgramShape == TInv /\ Program => TInv'
  <1> SUFFICES ASSUME TypeOK, ShapeInv, HandlerInv, Program PROVE TInv'
    BY DEF TInv
  <1> USE SetjmpAssumption
  <1>1. CASE Call
    <2> DEFINE w == [ret |-> "body", val |-> regs["rbx"]]
    <2>1. w \in Word /\ w.ret = "body"
      BY KeptNames DEF Word, Label, TypeOK
    <2>2. Push(w) /\ rsp < Depth /\ at = "body"
      BY <1>1 DEF Call
    <2> HIDE DEF w
    <2>3. /\ stack' \in [1..Depth -> Word]
          /\ rsp' = rsp + 1 /\ rsp' \in 0..Depth
          /\ stack'[rsp + 1] = w
          /\ \A i \in 1..Depth : i # rsp + 1 => stack'[i] = stack[i]
      BY <2>1, <2>2, PushWord
    <2>4. regs' \in [Kept -> Val]
      BY <1>1, ValFacts DEF Call
    <2>5. UNCHANGED <<at, k, rsi, esi, eax, jb, mask, canjump, captured, landed, handling, ctx, given>>
      BY <1>1 DEF Call, data
    <2>6. TypeOK'
      BY <2>3, <2>4, <2>5 DEF TypeOK
    <2>7. ShapeInv'
      <3>1. CASE handling
        BY <2>5, <3>1, MainSame DEF ShapeInv, Room
      <3>2. CASE ~handling
        BY <2>2, <2>5, <3>2 DEF ShapeInv, Room, Main, Running
      <3> QED BY <3>1, <3>2
    <2>8. HandlerInv'
      BY <2>2, <2>3, <2>5 DEF HandlerInv, TypeOK
    <2> QED BY <2>6, <2>7, <2>8 DEF TInv
  <1>2. CASE Return
    <2>1. /\ at = "body" /\ rsp \in 1..Depth /\ stack[rsp].ret = "body"
          /\ rsp' = rsp - 1 /\ regs' = Uniform(stack[rsp].val)
          /\ canjump' \in BOOLEAN
          /\ UNCHANGED <<at, k, stack, rsi, esi, eax, jb, mask, handling, ctx, captured, landed, given>>
      BY <1>2 DEF Return, TypeOK
    <2>2. stack[rsp] \in Word
      BY <2>1 DEF TypeOK
    <2>3. regs' \in [Kept -> Val]
      BY <2>1, <2>2, ValFacts DEF Word
    <2>4. TypeOK'
      BY <2>1, <2>3 DEF TypeOK
    <2>5. ShapeInv'
      <3>1. CASE handling
        BY <2>1, <3>1, MainSame DEF ShapeInv, Room
      <3>2. CASE ~handling
        BY <2>1, <3>2 DEF ShapeInv, Room, Main, Running
      <3> QED BY <3>1, <3>2
    <2>6. HandlerInv'
      <3>1. handling => ctx.rsp \in Nat
        BY MainType DEF Context
      <3> QED BY <2>1, <3>1 DEF HandlerInv
    <2> QED BY <2>4, <2>5, <2>6 DEF TInv
  <1>3. CASE CallSetjmp
    <2>1. PICK s \in Site : Push([ret |-> s, val |-> regs["rbx"]])
      BY <1>3 DEF CallSetjmp
    <2>2. [ret |-> s, val |-> regs["rbx"]] \in Word
      BY KeptNames DEF Word, Label, TypeOK
    <2>3. at = "body" /\ ~handling /\ rsp < Depth /\ at' = "setjmp" /\ k' = 0 /\ canjump' \in BOOLEAN
      BY <1>3 DEF CallSetjmp
    <2>4. stack' \in [1..Depth -> Word] /\ rsp' = rsp + 1 /\ rsp' \in 0..Depth
      BY <2>1, <2>2, <2>3, PushWord
    <2>5. UNCHANGED <<regs, rsi, esi, eax, jb, mask, handling, ctx, captured, landed, given>>
      BY <1>3 DEF CallSetjmp
    <2>6. TypeOK'
      BY <2>3, <2>4, <2>5 DEF TypeOK, Code
    <2>7. rsp' >= 1
      BY <2>4 DEF TypeOK
    <2>8. ShapeInv'
      BY <2>3, <2>5, <2>7 DEF ShapeInv, Room, Main, Running
    <2>9. HandlerInv'
      BY <2>3, <2>5 DEF HandlerInv
    <2> QED BY <2>6, <2>8, <2>9 DEF TInv
  <1>4. CASE CallLongjmp
    <2>1. /\ at = "body" /\ at' = "longjmp" /\ k' = 1 /\ esi' \in Int
          /\ given' = [given EXCEPT ![handling] = esi']
          /\ UNCHANGED <<regs, rsp, stack, rsi, eax, jb, mask, canjump, captured, landed, handling, ctx>>
      BY <1>4 DEF CallLongjmp, data
    <2>2. TypeOK'
      BY <2>1 DEF TypeOK, Code
    <2>3. ShapeInv'
      BY <2>1 DEF ShapeInv, Room, Main, Running
    <2>4. HandlerInv'
      BY <2>1 DEF HandlerInv
    <2> QED BY <2>2, <2>3, <2>4 DEF TInv
  <1>5. CASE sigprocmask
    <2>1. /\ at = "body" /\ ~handling /\ mask' = ~mask
          /\ UNCHANGED <<at, k, regs, rsp, stack, rsi, esi, eax, jb, handling, ctx, canjump, captured, landed, given>>
      BY <1>5 DEF sigprocmask
    <2>2. TypeOK'
      BY <2>1 DEF TypeOK
    <2>3. ShapeInv' /\ HandlerInv'
      BY <2>1 DEF ShapeInv, Room, Main, Running, HandlerInv
    <2> QED BY <2>2, <2>3 DEF TInv
  <1> QED BY <1>1, <1>2, <1>3, <1>4, <1>5 DEF Program

LEMMA KernelShape == TInv /\ Kernel => TInv'
  <1> SUFFICES ASSUME TypeOK, ShapeInv, HandlerInv, Kernel PROVE TInv'
    BY DEF TInv
  <1> USE SetjmpAssumption
  <1>1. CASE Deliver
    <2>1. /\ ~handling /\ rsp + 2 <= Depth /\ rsp' = rsp + 2
          /\ mask' = TRUE /\ handling' = TRUE /\ at' = "body" /\ k' = 0
          /\ ctx' = Running
          /\ UNCHANGED <<rsi, esi, eax, jb, canjump, captured, landed, given>>
      BY <1>1 DEF Deliver
    <2>2. ctx' \in Context /\ ctx'.rsp = rsp
      BY <2>1 DEF Running, Context, TypeOK
    <2>3. regs' \in [Kept -> Val]
      BY <1>1, ValFacts DEF Deliver
    <2> DEFINE w == [ret |-> "sigreturn", val |-> SomeVal]
    <2>4. w \in Word /\ w.ret = "sigreturn"
      BY ValFacts DEF Word, Label
    <2>5. stack' = [stack EXCEPT ![rsp + 2] = w]
      BY <1>1 DEF Deliver
    <2> HIDE DEF w
    <2>6. stack' \in [1..Depth -> Word] /\ stack'[rsp + 2] = w
      BY <2>1, <2>4, <2>5 DEF TypeOK
    <2>7. TypeOK'
      BY <2>1, <2>2, <2>3, <2>6 DEF TypeOK, Code, Context
    <2>8. ShapeInv'
      BY <1>1, <2>1, MainSame DEF ShapeInv, Room
    <2>9. HandlerInv'
      BY <2>1, <2>2, <2>4, <2>6 DEF HandlerInv, TypeOK
    <2> QED BY <2>7, <2>8, <2>9 DEF TInv
  <1>2. CASE sys_rt_sigreturn
    <2>1. ctx \in Context /\ handling /\ ~handling' /\ ctx' = Idle
      BY <1>2, MainType DEF sys_rt_sigreturn
    <2>2. TypeOK'
      BY <1>2, <2>1, IdleType DEF sys_rt_sigreturn, TypeOK, Context
    <2>3. ShapeInv'
      BY <1>2, <2>1, MainSame DEF sys_rt_sigreturn, ShapeInv, Room
    <2>4. HandlerInv'
      BY <2>1 DEF HandlerInv
    <2> QED BY <2>2, <2>3, <2>4 DEF TInv
  <1> QED BY <1>1, <1>2 DEF Kernel

LEMMA LibraryShape == TInv /\ Library => TInv'
  <1> SUFFICES ASSUME TypeOK, ShapeInv, HandlerInv, Library PROVE TInv'
    BY DEF TInv
  <1> USE SetjmpAssumption
  <1>0. at = "setjmp" =>
          /\ ~handling
          /\ k \in {0} \cup 5..11 => rsp >= 1
          /\ k \in 1..4 => rsp < Depth
    BY DEF ShapeInv, Main, Running, Room
  <1>1. CASE SetjmpPop
    <2>1. /\ at = "setjmp" /\ k = 0 /\ rsi' = stack[rsp].ret /\ rsp' = rsp - 1 /\ k' = 1
          /\ UNCHANGED <<at, regs, stack, esi, eax, jb, mask, canjump, captured, landed, handling, ctx, given>>
      BY <1>1 DEF SetjmpPop, data
    <2>2. ~handling /\ rsp \in 1..Depth
      BY <1>0, <2>1 DEF TypeOK
    <2>3. rsi' \in Label
      BY <2>1, <2>2 DEF TypeOK, Word
    <2>4. TypeOK'
      BY <2>1, <2>2, <2>3 DEF TypeOK
    <2>5. ShapeInv' /\ HandlerInv'
      BY <2>1, <2>2 DEF ShapeInv, HandlerInv, Room, Main, Running
    <2> QED BY <2>4, <2>5 DEF TInv
  <1>2. CASE SetjmpStep
    <2>1. /\ at = "setjmp" /\ k \in 1..10 /\ k' = k + 1 /\ ~handling
          /\ UNCHANGED <<at, regs, rsi, esi, mask, handling, ctx, canjump, captured, landed, given>>
      BY <1>0, <1>2 DEF SetjmpStep
    <2>2. /\ stack' \in [1..Depth -> Word] /\ rsp' \in 0..Depth
          /\ jb' \in Buffer /\ jb'.rsp <= Depth /\ eax' \in Int
          /\ k = 4 => rsp' = rsp + 1
          /\ k # 4 => rsp' = rsp
      <3>1. CASE k = 4
        <4>1. Push([ret |-> rsi, val |-> SomeVal]) /\ UNCHANGED <<eax, jb>>
          BY <1>2, <3>1, SetjmpCodeFacts DEF SetjmpStep
        <4>2. [ret |-> rsi, val |-> SomeVal] \in Word
          BY ValFacts DEF Word, TypeOK
        <4>3. rsp < Depth
          BY <1>0, <2>1, <3>1
        <4> QED BY <3>1, <4>1, <4>2, <4>3, PushWord DEF TypeOK, ShapeInv
      <3>2. CASE k \notin {1, 4}
        <4>1. jb' = Save(SetjmpCode[k]) /\ UNCHANGED <<rsp, stack, eax>>
          BY <1>2, <2>1, <3>2, SetjmpCodeFacts DEF SetjmpStep
        <4>2. SetjmpCode[k] \in Kept \cup {"rsp", "rip"}
          BY <2>1, <3>2, SetjmpCodeFacts
        <4>3. jb' \in Buffer /\ jb'.rsp \in {rsp, jb.rsp}
          BY <4>1, <4>2, SaveField
        <4> QED BY <3>2, <4>1, <4>3 DEF TypeOK, ShapeInv
      <3>3. CASE k = 1
        <4>1. eax' = 0 /\ UNCHANGED <<rsp, stack, jb>>
          BY <1>2, <2>1, <3>3, SetjmpCodeFacts DEF SetjmpStep
        <4> QED BY <3>3, <4>1 DEF TypeOK, ShapeInv
      <3> QED BY <3>1, <3>2, <3>3
    <2>3. TypeOK'
      BY <2>1, <2>2 DEF TypeOK
    <2>4. Room(Main)'
      BY <1>0, <2>1, <2>2 DEF Room, Main, Running, TypeOK
    <2>5. ShapeInv' /\ HandlerInv'
      BY <2>1, <2>2, <2>4 DEF ShapeInv, HandlerInv
    <2> QED BY <2>3, <2>5 DEF TInv
  <1>3. CASE SetjmpRet
    <2>1. /\ at = "setjmp" /\ k = 11 /\ landed' = stack[rsp].ret /\ rsp' = rsp - 1
          /\ at' = "body" /\ k' = 0 /\ canjump' = TRUE
          /\ captured' = [buf |-> [regs |-> regs, rsp |-> rsp', rip |-> landed'], mask |-> mask]
          /\ UNCHANGED <<regs, stack, rsi, esi, eax, jb, mask, handling, ctx, given>>
      BY <1>3 DEF SetjmpRet
    <2>2. ~handling /\ rsp \in 1..Depth
      BY <1>0, <2>1 DEF TypeOK
    <2>3. landed' \in Label
      BY <2>1, <2>2 DEF TypeOK, Word
    <2>4. captured' \in [buf : Buffer, mask : BOOLEAN]
      BY <2>1, <2>2, <2>3 DEF TypeOK, Buffer
    <2>5. TypeOK'
      BY <2>1, <2>2, <2>3, <2>4 DEF TypeOK, Code
    <2>6. ShapeInv' /\ HandlerInv'
      BY <2>1, <2>2 DEF ShapeInv, HandlerInv, Room, Main, Running
    <2> QED BY <2>5, <2>6 DEF TInv
  <1>4. CASE LongjmpStep
    <2>1. /\ at = "longjmp" /\ k \in 1..8 /\ k' = k + 1
          /\ UNCHANGED <<at, stack, rsi, esi, jb, mask, canjump, captured, landed, handling, ctx, given>>
      BY <1>4 DEF LongjmpStep, data
    <2>2. rsp' \in 0..Depth /\ regs' \in [Kept -> Val] /\ eax' \in Int
      <3>1. CASE LongjmpCode[k] = "rsp"
        BY <1>4, <3>1, KeptNames DEF LongjmpStep, TypeOK, ShapeInv, Buffer
      <3>2. CASE LongjmpCode[k] \in Kept
        BY <1>4, <3>2, KeptNames DEF LongjmpStep, TypeOK, Buffer
      <3>3. CASE LongjmpCode[k] = "eax"
        BY <1>4, <3>3, KeptNames DEF LongjmpStep, TypeOK
      <3> QED BY <2>1, <3>1, <3>2, <3>3, LongjmpCodeFacts
    <2>3. TypeOK'
      BY <2>1, <2>2 DEF TypeOK
    <2>4. ShapeInv' /\ HandlerInv'
      BY <2>1 DEF ShapeInv, HandlerInv, Room, Main, Running
    <2> QED BY <2>3, <2>4 DEF TInv
  <1>5. CASE LongjmpJmp
    <2>1. /\ landed' = jb.rip /\ at' = "body" /\ k' = 0 /\ ~handling' /\ handling' \in BOOLEAN /\ ctx' = Idle
          /\ given' = [h \in BOOLEAN |-> 0]
          /\ UNCHANGED <<regs, rsp, stack, rsi, esi, eax, jb, mask, canjump, captured>>
      BY <1>5 DEF LongjmpJmp
    <2>2. TypeOK'
      BY <2>1, IdleType DEF TypeOK, Code, Context, Buffer
    <2>3. ShapeInv' /\ HandlerInv'
      BY <2>1 DEF ShapeInv, HandlerInv, Room, Main, Running
    <2> QED BY <2>2, <2>3 DEF TInv
  <1> QED BY <1>1, <1>2, <1>3, <1>4, <1>5 DEF Library

LEMMA Stutter == TInv /\ UNCHANGED vars => TInv'
  BY DEF vars, data, TInv, TypeOK, ShapeInv, HandlerInv, Room, Main, Running

LEMMA ShapeStep == TInv /\ [Next]_vars => TInv'
  BY ProgramShape, KernelShape, LibraryShape, Stutter DEF Next

LEMMA ShapeInit == Init => TInv
  <1> SUFFICES ASSUME Init PROVE TInv
    OBVIOUS
  <1>1. [ret |-> "body", val |-> SomeVal] \in Word
    BY ValFacts DEF Word, Label
  <1>2. regs \in [Kept -> Val]
    BY ValFacts DEF Init
  <1>3. TypeOK
    <2>1. stack \in [1..Depth -> Word] /\ rsp \in 0..Depth
      BY <1>1, SetjmpAssumption DEF Init
    <2>2. captured \in [buf : Buffer, mask : BOOLEAN]
      BY BlankType DEF Init
    <2>3. ctx \in Context
      BY IdleType DEF Init
    <2>4. at \in Code /\ rsi \in Label /\ landed \in Label /\ jb \in Buffer
      BY BlankType DEF Init, Code, Label
    <2>5. k \in 0..11 /\ esi \in Int /\ eax \in Int /\ given \in [BOOLEAN -> Int]
      BY DEF Init
    <2>6. mask \in BOOLEAN /\ handling \in BOOLEAN /\ canjump \in BOOLEAN
      BY DEF Init
    <2> QED BY <1>2, <2>1, <2>2, <2>3, <2>4, <2>5, <2>6, Zenon DEF TypeOK, Context
  <1>4. ShapeInv /\ HandlerInv
    BY BlankType, SetjmpAssumption DEF Init, ShapeInv, HandlerInv, Room, Main, Running
  <1> QED BY <1>3, <1>4 DEF TInv

-----------------------------------------------------------------------------
(* The buffer is whole whenever the program may jump. *)

LEMMA MainFields ==
  /\ ~handling => /\ Main.at = at /\ Main.k = k /\ Main.regs = regs /\ Main.rsp = rsp
                  /\ Main.rsi = rsi /\ Main.esi = esi /\ Main.eax = eax
  /\ handling => Main = ctx
  BY DEF Main, Running

(* Neither the code outside the handler nor what it knows of buffer and    *)
(* stack has changed.                                                      *)
LEMMA BufferSame ==
  ASSUME BufferInv, Main' = Main, UNCHANGED <<jb, captured>>,
         Main.at = "longjmp" => given'[FALSE] = given[FALSE],
         (Main.at = "setjmp" /\ Main.k >= 5) => stack'[Main.rsp] = stack[Main.rsp],
         canjump' => canjump,
         at' = "longjmp" => Main.at # "setjmp" /\ Loaded(Running, given[handling])'
  PROVE  BufferInv'
  BY DEF BufferInv, Saved, Loaded

LEMMA ProgramBuffer ==
  ASSUME Guarded, TInv, BufferInv, Program
  PROVE  BufferInv'
  <1>0. TypeOK /\ ShapeInv /\ HandlerInv
    BY DEF TInv
  <1> USE SetjmpAssumption
  <1>1. CASE Call
    <2>1. /\ at = "body" /\ at' = "body" /\ rsp < Depth
          /\ UNCHANGED <<k, rsi, jb, mask, handling, ctx, canjump, captured, given>>
          /\ stack' = [stack EXCEPT ![rsp + 1] = [ret |-> "body", val |-> regs["rbx"]]]
      BY <1>1 DEF Call, Push, data
    <2>2. CASE handling
      <3>1. Main' = Main /\ Main = ctx /\ ctx \in Context
        BY <1>0, <2>1, <2>2, MainSame, MainFields, MainType
      <3>2. rsp >= ctx.rsp + 2 /\ ctx.rsp \in 0..Depth
        BY <1>0, <2>1, <2>2, <3>1 DEF HandlerInv, Context
      <3>3. ctx.rsp >= 1 => stack'[ctx.rsp] = stack[ctx.rsp]
        BY <1>0, <2>1, <3>2 DEF TypeOK
      <3>4. (Main.at = "setjmp" /\ Main.k >= 5) => Main.rsp >= 1
        BY <1>0, <3>1 DEF ShapeInv, Room, Context
      <3> QED BY <2>1, <3>1, <3>3, <3>4, BufferSame
    <2>3. CASE ~handling
      BY <2>1, <2>3 DEF BufferInv, Main, Running
    <2> QED BY <2>2, <2>3
  <1>2. CASE Return
    <2>1. /\ at = "body" /\ at' = "body" /\ canjump' = (canjump /\ captured.buf.rsp < rsp)
          /\ UNCHANGED <<k, stack, rsi, jb, mask, handling, ctx, captured, given>>
      BY <1>2 DEF Return
    <2>2. CASE handling
      BY <1>0, <2>1, <2>2, MainSame, BufferSame
    <2>3. CASE ~handling
      BY <2>1, <2>3 DEF BufferInv, Main, Running
    <2> QED BY <2>2, <2>3
  <1>3. CASE CallSetjmp
    <2>1. /\ ~handling /\ at' = "setjmp" /\ k' = 0 /\ ~canjump'
          /\ UNCHANGED <<jb, handling, captured>>
      BY <1>3 DEF CallSetjmp
    <2>2. Main'.at = "setjmp" /\ Main'.k = 0
      BY <2>1 DEF Main, Running
    <2>3. Saved(Main)'
      BY <2>2 DEF Saved
    <2> QED BY <2>1, <2>2, <2>3 DEF BufferInv
  <1>4. CASE CallLongjmp
    <2>1. /\ at = "body" /\ canjump /\ at' = "longjmp" /\ k' = 1
          /\ given' = [given EXCEPT ![handling] = esi']
          /\ UNCHANGED <<regs, rsp, stack, jb, handling, ctx, canjump, captured>>
      BY <1>4 DEF CallLongjmp, data
    <2>2. Main.at # "setjmp" /\ jb = captured.buf
      BY <2>1 DEF BufferInv
    <2>3. Loaded(Running, given[handling])'
      BY <1>0, <2>1 DEF Loaded, Running, TypeOK
    <2>4. CASE handling
      <3>1. given'[FALSE] = given[FALSE]
        BY <1>0, <2>1, <2>4 DEF TypeOK
      <3> QED BY <1>0, <2>1, <2>2, <2>3, <2>4, <3>1, MainSame, BufferSame
    <2>5. CASE ~handling
      <3>1. Main'.at = "longjmp" /\ Loaded(Main, given[FALSE])'
        <4>1. Main' = Running' /\ handling' = FALSE
          BY <1>0, <2>1, <2>5 DEF Main, TypeOK
        <4> QED BY <2>1, <2>3, <4>1 DEF Running
      <3> QED BY <2>1, <2>2, <2>3, <3>1 DEF BufferInv
    <2> QED BY <2>4, <2>5
  <1>5. CASE sigprocmask
    BY <1>5 DEF sigprocmask, BufferInv, Main, Running
  <1> QED BY <1>1, <1>2, <1>3, <1>4, <1>5 DEF Program

LEMMA KernelBuffer ==
  ASSUME TInv, BufferInv, Kernel
  PROVE  BufferInv'
  <1>0. TypeOK /\ ShapeInv /\ HandlerInv
    BY DEF TInv
  <1> USE SetjmpAssumption
  <1>1. Main' = Main /\ Main \in Context
    BY <1>0, MainSame, MainType DEF Kernel
  <1>2. CASE Deliver
    <2>1. /\ ~handling /\ at' = "body" /\ UNCHANGED <<jb, captured, canjump, given>>
          /\ stack' = [stack EXCEPT ![rsp + 2] = [ret |-> "sigreturn", val |-> SomeVal]]
      BY <1>2 DEF Deliver
    <2>2. Main.rsp = rsp
      BY <2>1, MainFields
    <2>3. (Main.at = "setjmp" /\ Main.k >= 5) => rsp \in 1..Depth
      BY <1>0, <1>1, <2>2 DEF ShapeInv, Room, Context
    <2>4. (Main.at = "setjmp" /\ Main.k >= 5) => stack'[Main.rsp] = stack[Main.rsp]
      BY <1>0, <2>1, <2>2, <2>3 DEF TypeOK
    <2> QED BY <1>1, <2>1, <2>4, BufferSame
  <1>3. CASE sys_rt_sigreturn
    <2>1. handling /\ ~handling' /\ UNCHANGED <<stack, jb, captured, canjump, given>>
      BY <1>3 DEF sys_rt_sigreturn
    <2>2. Main' = Running' /\ handling' = FALSE
      BY <1>3, <2>1 DEF sys_rt_sigreturn, Main
    <2>3. Main.at = "longjmp" => Loaded(Main, given[FALSE])'
      BY <1>1, <2>1 DEF BufferInv, Loaded
    <2>4. at' = "longjmp" => Main.at # "setjmp" /\ Loaded(Running, given[handling])'
      <3>1. Running'.at = at'
        BY DEF Running
      <3> QED BY <1>1, <2>2, <2>3, <3>1
    <2> QED BY <1>1, <2>1, <2>4, BufferSame
  <1> QED BY <1>2, <1>3 DEF Kernel

(* One instruction of setjmp adds one field to those that are saved. *)
LEMMA SetjmpStepBuffer ==
  ASSUME TInv, BufferInv, SetjmpStep
  PROVE  BufferInv'
  <1>0. TypeOK /\ ShapeInv /\ HandlerInv
    BY DEF TInv
  <1> USE SetjmpAssumption
  <1>1. /\ at = "setjmp" /\ at' = "setjmp" /\ k \in 1..10 /\ k' = k + 1 /\ ~handling
        /\ UNCHANGED <<regs, rsi, handling, canjump, captured>>
    BY <1>0 DEF SetjmpStep, ShapeInv
  <1>2. /\ Main.at = "setjmp" /\ Main.k = k /\ Main.regs = regs /\ Main.rsp = rsp /\ Main.rsi = rsi
        /\ Main'.at = "setjmp" /\ Main'.k = k' /\ Main'.regs = regs /\ Main'.rsp = rsp'
        /\ Main'.rsi = rsi
    BY <1>1 DEF Main, Running
  <1>3. Saved(Main) /\ ~canjump
    BY <1>2 DEF BufferInv
  <1>4. rsp \in 0..Depth /\ (k >= 5 => rsp >= 1) /\ (k <= 4 => rsp < Depth)
    BY <1>0, <1>1, <1>2 DEF TypeOK, ShapeInv, Room
  <1>5. jb \in Buffer /\ jb.regs \in [Kept -> Val] /\ regs \in [Kept -> Val]
    BY <1>0 DEF TypeOK, Buffer
  <1>6. Saved(Main)'
    <2>1. CASE k = 4
      <3>1. Push([ret |-> rsi, val |-> SomeVal]) /\ UNCHANGED jb
        BY <2>1, SetjmpCodeFacts DEF SetjmpStep
      <3>2. [ret |-> rsi, val |-> SomeVal] \in Word
        BY <1>0, ValFacts DEF Word, TypeOK
      <3>3. rsp' = rsp + 1 /\ stack'[rsp + 1].ret = rsi
        BY <1>0, <1>4, <2>1, <3>1, <3>2, PushWord
      <3>4. \A i \in 1..10 : (i < 5 /\ SetjmpCode[i] \in Kept) =>
              jb.regs[SetjmpCode[i]] = regs[SetjmpCode[i]]
        BY <1>2, <1>3, <2>1, SetjmpCodeFacts, KeptNames DEF Saved
      <3>5. jb.rsp = rsp
        BY <1>2, <1>3, <2>1 DEF Saved
      <3> QED BY <1>1, <1>2, <1>4, <2>1, <3>1, <3>3, <3>4, <3>5 DEF Saved
    <2>2. CASE k \notin {1, 4}
      <3>1. jb' = Save(SetjmpCode[k]) /\ UNCHANGED <<rsp, stack>>
        BY <1>1, <2>2, SetjmpCodeFacts DEF SetjmpStep
      <3> DEFINE r == SetjmpCode[k]
      <3>2. r \in Kept \cup {"rsp", "rip"} /\ (r = "rsp" <=> k = 3) /\ (r = "rip" <=> k = 10)
        BY <1>1, <2>2, SetjmpCodeFacts
      <3>3. /\ r = "rsp" => jb'.rsp = rsp /\ jb'.regs = jb.regs /\ jb'.rip = jb.rip
            /\ r = "rip" => jb'.rip = rsi /\ jb'.regs = jb.regs /\ jb'.rsp = jb.rsp
            /\ r \in Kept => jb'.regs = [jb.regs EXCEPT ![r] = regs[r]] /\ jb'.rsp = jb.rsp
        BY <1>0, <3>1, <3>2, SaveField
      <3>4. \A i \in 1..10 : (i < k + 1 /\ SetjmpCode[i] \in Kept) =>
              jb'.regs[SetjmpCode[i]] = regs[SetjmpCode[i]]
        <4> SUFFICES ASSUME NEW i \in 1..10, i < k + 1, SetjmpCode[i] \in Kept
                     PROVE  jb'.regs[SetjmpCode[i]] = regs[SetjmpCode[i]]
          OBVIOUS
        <4>1. i # k => jb.regs[SetjmpCode[i]] = regs[SetjmpCode[i]]
          BY <1>1, <1>2, <1>3 DEF Saved
        <4>2. CASE r \in Kept
          BY <1>5, <3>3, <4>1, <4>2
        <4>3. CASE r \notin Kept
          BY <3>2, <3>3, <4>1, <4>3
        <4> QED BY <4>2, <4>3
      <3>5. k + 1 >= 4 => jb'.rsp = IF k + 1 >= 5 THEN rsp - 1 ELSE rsp
        <4>1. CASE k = 3
          BY <3>2, <3>3, <4>1
        <4>2. CASE k # 3
          <5>1. jb'.rsp = jb.rsp
            BY <3>2, <3>3, <4>2
          <5> QED BY <1>1, <1>2, <1>3, <2>2, <4>2, <5>1 DEF Saved
        <4> QED BY <4>1, <4>2
      <3>6. k + 1 >= 5 => stack[rsp].ret = rsi
        BY <1>1, <1>2, <1>3, <2>2 DEF Saved
      <3>7. k + 1 >= 11 => jb'.rip = rsi
        BY <1>1, <3>2, <3>3
      <3> QED BY <1>1, <1>2, <3>1, <3>4, <3>5, <3>6, <3>7 DEF Saved
    <2>3. CASE k = 1
      <3>1. UNCHANGED <<rsp, stack, jb>>
        BY <1>1, <2>3, SetjmpCodeFacts DEF SetjmpStep
      <3>2. \A i \in 1..10 : i < 2 => SetjmpCode[i] \notin Kept
        BY SetjmpCodeFacts, KeptNames
      <3> QED BY <1>1, <1>2, <2>3, <3>1, <3>2 DEF Saved
    <2> QED BY <2>1, <2>2, <2>3
  <1> QED BY <1>1, <1>2, <1>3, <1>6 DEF BufferInv

(* When setjmp returns the buffer is whole: it holds the state in which    *)
(* the program goes on.                                                    *)
LEMMA SetjmpRetBuffer ==
  ASSUME TInv, BufferInv, SetjmpRet
  PROVE  BufferInv'
  <1>0. TypeOK /\ ShapeInv
    BY DEF TInv
  <1>1. /\ at = "setjmp" /\ k = 11 /\ ~handling /\ at' = "body" /\ UNCHANGED <<handling, jb, regs>>
        /\ captured'.buf = [regs |-> regs, rsp |-> rsp - 1, rip |-> stack[rsp].ret]
    BY <1>0 DEF SetjmpRet, ShapeInv
  <1>2. /\ Main.at = "setjmp" /\ Main.k = 11 /\ Main.regs = regs /\ Main.rsp = rsp /\ Main.rsi = rsi
        /\ Main'.at = "body"
    BY <1>1 DEF Main, Running
  <1>3. Saved(Main)
    BY <1>2 DEF BufferInv
  <1>4. jb.rsp = rsp - 1 /\ jb.rip = stack[rsp].ret
    BY <1>2, <1>3 DEF Saved
  <1>5. jb.regs = regs
    <2>1. jb.regs \in [Kept -> Val] /\ regs \in [Kept -> Val]
      BY <1>0 DEF TypeOK, Buffer
    <2>2. \A i \in 1..10 : SetjmpCode[i] \in Kept => jb.regs[SetjmpCode[i]] = regs[SetjmpCode[i]]
      BY <1>2, <1>3 DEF Saved
    <2>3. \A x \in Kept : jb.regs[x] = regs[x]
      BY <2>2, SetjmpCodeFacts
    <2> QED BY <2>1, <2>3
  <1>6. jb = captured'.buf
    BY <1>0, <1>1, <1>4, <1>5 DEF TypeOK, Buffer
  <1> QED BY <1>1, <1>2, <1>6 DEF BufferInv

(* One instruction of longjmp adds one register to those that are loaded. *)
LEMMA LongjmpStepBuffer ==
  ASSUME TInv, BufferInv, LongjmpStep
  PROVE  BufferInv'
  <1>0. TypeOK
    BY DEF TInv
  <1>1. /\ at = "longjmp" /\ at' = "longjmp" /\ k \in 1..8 /\ k' = k + 1
        /\ UNCHANGED <<stack, esi, jb, handling, ctx, canjump, captured, given>>
    BY DEF LongjmpStep, data
  <1>2. Loaded(Running, given[handling]) /\ Main.at # "setjmp" /\ jb = captured.buf
    BY <1>1 DEF BufferInv
  <1>3. regs \in [Kept -> Val]
    BY <1>0 DEF TypeOK
  <1>4. Loaded(Running, given[handling])'
    <2> DEFINE r == LongjmpCode[k]
    <2>1. r \in Kept \cup {"eax", "rsp"} /\ (r = "eax" <=> k = 1) /\ (r = "rsp" <=> k = 3)
      BY <1>1, LongjmpCodeFacts
    <2>2. /\ k = 1 => eax' = esi /\ rsp' = rsp /\ regs' = regs
          /\ k = 3 => rsp' = jb.rsp /\ eax' = eax /\ regs' = regs
          /\ k \notin {1, 3} => /\ r \in Kept /\ rsp' = rsp /\ eax' = eax
                              /\ regs' = [regs EXCEPT ![r] = jb.regs[r]]
      BY <2>1, KeptNames DEF LongjmpStep
    <2>3. \A j \in 1..8 : (j < k + 1 /\ LongjmpCode[j] \in Kept) =>
            regs'[LongjmpCode[j]] = jb.regs[LongjmpCode[j]]
      <3> SUFFICES ASSUME NEW j \in 1..8, j < k + 1, LongjmpCode[j] \in Kept
                   PROVE  regs'[LongjmpCode[j]] = jb.regs[LongjmpCode[j]]
        OBVIOUS
      <3>1. j # k => regs[LongjmpCode[j]] = jb.regs[LongjmpCode[j]]
        BY <1>1, <1>2 DEF Loaded, Running
      <3>2. k \in {1, 3} => j # k
        BY <2>1, KeptNames
      <3>3. CASE k \in {1, 3}
        BY <2>2, <3>1, <3>2, <3>3
      <3>4. CASE k \notin {1, 3}
        BY <1>3, <2>2, <3>1, <3>4
      <3> QED BY <3>3, <3>4
    <2>4. k + 1 >= 4 => rsp' = jb.rsp
      BY <1>1, <1>2, <2>2 DEF Loaded, Running
    <2>5. esi' = given[handling] /\ eax' = given[handling]
      BY <1>1, <1>2, <2>2 DEF Loaded, Running
    <2> QED BY <1>1, <2>3, <2>4, <2>5 DEF Loaded, Running
  <1>5. CASE handling
    BY <1>0, <1>1, <1>2, <1>4, <1>5, MainSame, BufferSame
  <1>6. CASE ~handling
    <2>1. Main'.at = "longjmp" /\ Loaded(Main, given[FALSE])'
      <3>1. Main' = Running' /\ handling' = FALSE
        BY <1>0, <1>1, <1>6 DEF Main, TypeOK
      <3> QED BY <1>1, <1>4, <3>1 DEF Running
    <2> QED BY <1>1, <1>2, <1>4, <2>1 DEF BufferInv
  <1> QED BY <1>5, <1>6

LEMMA LibraryBuffer ==
  ASSUME TInv, BufferInv, Library
  PROVE  BufferInv'
  <1>1. CASE SetjmpPop
    <2>1. /\ at = "setjmp" /\ at' = "setjmp" /\ k' = 1 /\ ~handling
          /\ UNCHANGED <<jb, handling, canjump, captured>>
      BY <1>1 DEF SetjmpPop, TInv, ShapeInv, data
    <2>2. Main.at = "setjmp" /\ Main'.at = "setjmp" /\ Main'.k = 1
      BY <2>1 DEF Main, Running
    <2>3. Saved(Main)'
      BY <2>2 DEF Saved
    <2> QED BY <2>1, <2>2, <2>3 DEF BufferInv
  <1>2. CASE LongjmpJmp
    <2>1. at = "longjmp" /\ at' = "body" /\ ~handling' /\ UNCHANGED <<jb, captured>>
      BY <1>2 DEF LongjmpJmp
    <2>2. Main'.at = "body"
      BY <2>1 DEF Main, Running
    <2> QED BY <2>1, <2>2 DEF BufferInv
  <1> QED BY <1>1, <1>2, SetjmpStepBuffer, SetjmpRetBuffer, LongjmpStepBuffer DEF Library

Inv == TInv /\ (Guarded => BufferInv)

LEMMA Step == Inv /\ [Next]_vars => Inv'
  <1> SUFFICES ASSUME Inv, [Next]_vars PROVE Inv'
    OBVIOUS
  <1>1. TInv'
    BY ShapeStep DEF Inv
  <1>2. ASSUME Guarded PROVE BufferInv'
    <2>1. TInv /\ BufferInv
      BY <1>2 DEF Inv
    <2>2. CASE UNCHANGED vars
      BY <2>1, <2>2 DEF vars, data, BufferInv, Main, Running, Saved, Loaded
    <2> QED BY <1>2, <2>1, <2>2, ProgramBuffer, KernelBuffer, LibraryBuffer DEF Next
  <1> QED BY <1>1, <1>2 DEF Inv

LEMMA Initially == Init => Inv
  <1> SUFFICES ASSUME Init PROVE Inv
    OBVIOUS
  <1>1. BufferInv
    BY DEF Init, BufferInv, Main, Running
  <1> QED BY <1>1, ShapeInit DEF Inv

(* The stack, the buffer and the registers are as Inv says before every    *)
(* instruction; what it says of the buffer needs the program's guard.      *)
THEOREM Invariance == Spec => []Inv
  BY Initially, Step, PTL DEF Spec

(* setjmp and longjmp keep the stack pointer within the stack, however     *)
(* deep the program is, guarded or not: setjmp pops only what its call     *)
(* pushed, and a jump lands at a depth the stack had.                      *)
THEOREM TypeCorrect == Spec => []TypeOK
  BY Invariance, PTL DEF Inv, TInv

(* longjmp lands in the state in which setjmp last returned, and returns   *)
(* the value this call of it was given, in a program that guards its       *)
(* buffer with a flag: also when the signal comes between two instructions *)
(* of setjmp or longjmp, and when its handler is what jumps.               *)
THEOREM JumpLandsWhereSet == ASSUME Guarded PROVE Spec => LandsWhereSet
  <1>1. Inv /\ [Next]_vars => [LandsRight]_vars
    <2> SUFFICES ASSUME Inv, Next, Jumps
                 PROVE  /\ [regs |-> regs', rsp |-> rsp', rip |-> landed'] = captured.buf
                        /\ eax' = given[handling]
      BY DEF LandsRight
    <2>1. TypeOK /\ BufferInv
      BY DEF Inv, TInv
    <2>2. LongjmpJmp
      BY DEF Jumps, Next, Program, Kernel, Library, Call, Return, CallSetjmp, CallLongjmp,
             sigprocmask, Deliver, sys_rt_sigreturn, SetjmpPop, SetjmpStep, SetjmpRet, LongjmpStep
    <2>3. /\ at = "longjmp" /\ k = 9 /\ landed' = jb.rip
          /\ UNCHANGED <<regs, rsp, eax>>
      BY <2>2 DEF LongjmpJmp
    <2>4. Loaded(Running, given[handling]) /\ jb = captured.buf
      BY <2>1, <2>3 DEF BufferInv
    <2>5. rsp = jb.rsp /\ eax = given[handling]
      BY <2>3, <2>4 DEF Loaded, Running
    <2>6. regs = jb.regs
      <3>1. jb.regs \in [Kept -> Val] /\ regs \in [Kept -> Val]
        BY <2>1 DEF TypeOK, Buffer
      <3>2. \A j \in 1..8 : LongjmpCode[j] \in Kept => regs[LongjmpCode[j]] = jb.regs[LongjmpCode[j]]
        BY <2>3, <2>4 DEF Loaded, Running
      <3>3. \A x \in Kept : regs[x] = jb.regs[x]
        BY <3>2, LongjmpCodeFacts
      <3> QED BY <3>1, <3>3
    <2> QED BY <2>1, <2>3, <2>4, <2>5, <2>6 DEF TypeOK, Buffer
  <1> QED BY <1>1, Invariance, PTL DEF Spec, LandsWhereSet

=============================================================================
